------------------------------ MODULE Settings ------------------------------
(***************************************************************************)
(* From options to clients: options/*_options.go with the constructors of  *)
(* db/.  An object of options is made with its defaults, flags and the     *)
(* configuration overwrite some of its fields, Complete and Validate       *)
(* change or refuse it, and then a client is built from what it has        *)
(* become.                                                                 *)
(*                                                                         *)
(* Durations are in seconds.  A file name is TRUE or FALSE, given or not;  *)
(* of the file of a certificate authority it matters what is in it: no PEM *)
(* block, at least one that is a certificate, or one that is not.          *)
(* Addresses, names and passwords are left out: no branch looks at them    *)
(* but to pass them on.  A SASL mechanism is its name in small letters and *)
(* the way it is written.                                                  *)
(*                                                                         *)
(* A definition Name_Mistake is a mistake one could make in Name; nothing  *)
(* uses it but the experiments that put it in Name's place.                *)
(***************************************************************************)
EXTENDS Integers

CONSTANTS
  OptionFields,  \* [kind |-> [field |-> the values a user may give it]]
  MaxGiven       \* bound: the fields a user gives

Pools == {"mysql", "postgresql", "sqlite"}

ASSUME SettingsAssumption ==
  /\ MaxGiven \in Nat
  /\ \A k \in Pools \cap DOMAIN OptionFields :
       OptionFields[k] \in [{"idle", "open", "life"} -> SUBSET Int]

VARIABLES
  kindOf,    \* which options these are
  fields,    \* the object
  step,      \* "new", "given" (its flags are registered), "completed", "validated",
             \* "loading", or the end: "refused", "failed" or "built"
  given,     \* fields overwritten so far
  client     \* what has been built

settingsVars == <<kindOf, fields, step, given, client>>

-----------------------------------------------------------------------------
(* The defaults, New...Options *)

NewTLSOptions == [useTLS |-> FALSE, cert |-> FALSE, key |-> FALSE, ca |-> "none"]

NoMechanism == [name |-> "", written |-> "lower"]

NewKafkaOptions ==
  [tls |-> NewTLSOptions, mechanism |-> NoMechanism, brokers |-> 0,
   timeout |-> 3, group |-> FALSE, partition |-> 0, batchTimeout |-> 1]

NewMongoOptions ==
  [tls |-> NewTLSOptions, named |-> FALSE, credentials |-> FALSE, timeout |-> 30]

NewRedisOptions ==
  [dialTimeout |-> 5, readTimeout |-> 3, writeTimeout |-> 3, poolTimeout |-> 0]

NewMySQLOptions == [idle |-> 10, open |-> 20, life |-> 1800]
NewPostgreSQLOptions == [idle |-> 100, open |-> 100, life |-> 10]
NewSQLiteOptions == [idle |-> 2, open |-> 5, life |-> 30]

NewSecureServingOptions ==
  [port |-> 8443, required |-> TRUE, certFile |-> FALSE, keyFile |-> FALSE,
   directory |-> TRUE, pairName |-> TRUE]

DefaultsOf(k) ==
  CASE k = "kafka" -> NewKafkaOptions
    [] k = "mongo" -> NewMongoOptions
    [] k = "redis" -> NewRedisOptions
    [] k = "mysql" -> NewMySQLOptions
    [] k = "postgresql" -> NewPostgreSQLOptions
    [] k = "sqlite" -> NewSQLiteOptions
    [] k = "serving" -> NewSecureServingOptions

-----------------------------------------------------------------------------
(* Complete and Validate *)

TLSAccepted_AnyPair(o) == TRUE

TLSAccepted(o) == o.useTLS => (o.cert <=> o.key)

KafkaAccepted(o) ==
  /\ o.brokers > 0
  /\ o.mechanism.name # "" => o.tls.useTLS
  /\ o.mechanism.name \in {"plain", "scram", ""}
  /\ o.timeout > 0
  /\ ~(o.group /\ o.partition # 0)
  /\ o.batchTimeout > 0
  /\ TLSAccepted(o.tls)

\* Database and collection must have a name; the timeout may be anything.
MongoAccepted(o) == o.named /\ TLSAccepted(o.tls)

ServingAccepted(o) ==
  /\ ~(o.required /\ o.port < 1)
  /\ o.port \in 0..65535

Accepted(k, o) ==
  CASE k = "kafka" -> KafkaAccepted(o)
    [] k = "mongo" -> MongoAccepted(o)
    [] k = "serving" -> ServingAccepted(o)
    [] OTHER -> TRUE

\* RedisOptions.Validate fills in two timeouts and refuses nothing.
RedisValidated(o) ==
  [o EXCEPT !.writeTimeout = IF @ = 0 THEN o.readTimeout ELSE @,
            !.poolTimeout = IF @ = 0 THEN o.readTimeout + 1 ELSE @]

\* SecureServingOptions.Complete names the pair of files of a directory, if
\* neither file was named.
Completes(o) ==
  o.port = 0 \/ o.certFile \/ o.keyFile \/ ~o.directory \/ o.pairName

ServingCompleted(o) ==
  IF o.port = 0 \/ o.certFile \/ o.keyFile \/ ~o.directory THEN o
  ELSE [o EXCEPT !.certFile = TRUE, !.keyFile = TRUE]

-----------------------------------------------------------------------------
(* The clients *)

\* What TLSConfig returns where it does: the files can be loaded, and the loop
\* over the blocks of the authority's file has come to an end.
TLSConfig(o) ==
  [on |-> o.useTLS,
   certificate |-> o.useTLS /\ o.cert /\ o.key,
   roots |-> o.useTLS /\ o.ca # "none"]

\* Two ways to write a name count; any other gives no mechanism at all.
GetMechanism(o) ==
  IF o.mechanism.written \in {"lower", "upper"} THEN o.mechanism.name ELSE ""

Dialer(o) ==
  [tls |-> TLSConfig(o.tls), secret |-> GetMechanism(o) # "", timeout |-> o.timeout]

\* A deadline that is not in the future is over before Connect.
MongoClient(o) ==
  [tls |-> TLSConfig(o.tls), secret |-> o.credentials, timeout |-> o.timeout]

\* The ping that decides whether redis is there has a time limit always.
RedisClient(o) ==
  [ping |-> IF o.dialTimeout <= 0 THEN 5 ELSE o.dialTimeout,
   read |-> o.readTimeout, write |-> o.writeTimeout, pool |-> o.poolTimeout]

Or(x, default) == IF x = 0 THEN default ELSE x

\* SetMaxOpenConns and SetMaxIdleConns of database/sql, in this order: not
\* above zero is without limit for the one and none for the other, and no
\* more are idle than may be open.
Pool(o) ==
  LET idle == IF o.idle > 0 THEN o.idle ELSE 0 IN
  [open |-> IF o.open > 0 THEN o.open ELSE 0,
   idle |-> IF o.open > 0 /\ idle > o.open THEN o.open ELSE idle]

setMySQLDefaults_IdleOnly(o) ==
  [o EXCEPT !.idle = Or(@, 10), !.life = Or(@, 1800)]

setMySQLDefaults(o) ==
  [o EXCEPT !.idle = Or(@, 10), !.open = Or(@, 20), !.life = Or(@, 1800)]

setPostgreSQLDefaults(o) ==
  [o EXCEPT !.idle = Or(@, 10), !.open = Or(@, 20), !.life = Or(@, 1800)]

setSQLiteDefaults(o) ==
  [o EXCEPT !.idle = Or(@, 2), !.open = Or(@, 5), !.life = Or(@, 10)]

NewMySQL(o) == Pool(setMySQLDefaults(o))
NewPostgreSQL(o) == Pool(setPostgreSQLDefaults(o))
NewSQLite(o) == Pool(setSQLiteDefaults(o))

Unbuilt == [nothing |-> TRUE]

Built(k, o) ==
  CASE k = "kafka" -> Dialer(o)
    [] k = "mongo" -> MongoClient(o)
    [] k = "redis" -> RedisClient(o)
    [] k = "mysql" -> NewMySQL(o)
    [] k = "postgresql" -> NewPostgreSQL(o)
    [] k = "sqlite" -> NewSQLite(o)
    [] k = "serving" -> [files |-> o.certFile /\ o.keyFile]

-----------------------------------------------------------------------------

SettingsInit ==
  /\ kindOf \in DOMAIN OptionFields
  /\ fields = DefaultsOf(kindOf)
  /\ step = "new"
  /\ given = 0
  /\ client = Unbuilt

\* A flag starts with the value its field has; those of MySQL and PostgreSQL
\* start the idle connections with the number of open ones.
AddFlags ==
  /\ step = "new"
  /\ fields' = IF kindOf \in {"mysql", "postgresql"}
               THEN [fields EXCEPT !.idle = fields.open] ELSE fields
  /\ step' = "given"
  /\ UNCHANGED <<kindOf, given, client>>

\* The program, its flags and viper: one field of the object, or of the options
\* in it.
Give ==
  /\ step \in {"new", "given"}
  /\ given < MaxGiven
  /\ given' = given + 1
  /\ \E f \in DOMAIN OptionFields[kindOf] : \E v \in OptionFields[kindOf][f] :
       /\ fields[f] # v
       /\ fields' = [fields EXCEPT ![f] = v]
  /\ UNCHANGED <<kindOf, step, client>>

Complete ==
  /\ step \in {"new", "given"}
  /\ kindOf = "serving" => Completes(fields)
  /\ fields' = IF kindOf = "serving" THEN ServingCompleted(fields) ELSE fields
  /\ step' = "completed"
  /\ UNCHANGED <<kindOf, given, client>>

CompleteFails ==
  /\ step \in {"new", "given"}
  /\ kindOf = "serving" /\ ~Completes(fields)
  /\ step' = "refused"
  /\ UNCHANGED <<kindOf, fields, given, client>>

\* Validate may be called again: it changes nothing the second time.
ValidateOptions ==
  /\ step \in {"completed", "validated"}
  /\ Accepted(kindOf, fields)
  /\ fields' = IF kindOf = "redis" THEN RedisValidated(fields) ELSE fields
  /\ step' = "validated"
  /\ UNCHANGED <<kindOf, given, client>>

ValidateRefuses ==
  /\ step \in {"completed", "validated"}
  /\ ~Accepted(kindOf, fields)
  /\ step' = "refused"
  /\ UNCHANGED <<kindOf, fields, given, client>>

Connects == kindOf \in {"kafka", "mongo"}
Authority == IF Connects /\ fields.tls.useTLS THEN fields.tls.ca ELSE "none"

\* The server answers the ping and the files can be read.
Build ==
  /\ step = "validated"
  /\ Authority \in {"none", "no block"}
  /\ client' = Built(kindOf, fields)
  /\ step' = "built"
  /\ UNCHANGED <<kindOf, fields, given>>

\* A server that does not answer, a file that cannot be read or a block that is
\* no certificate: an error and no client.
BuildFails ==
  /\ step = "validated"
  /\ step' = "failed"
  /\ UNCHANGED <<kindOf, fields, given, client>>

LoadCA ==
  /\ step = "validated"
  /\ Authority = "certificates"
  /\ step' = "loading"
  /\ UNCHANGED <<kindOf, fields, given, client>>

\* pem.Decode is given the whole file every time, what it leaves is dropped: the
\* certificate added is the first one again, and another round follows.
AddCert ==
  /\ step = "loading"
  /\ UNCHANGED settingsVars

SettingsNext ==
  \/ AddFlags \/ Give
  \/ Complete \/ CompleteFails
  \/ ValidateOptions \/ ValidateRefuses
  \/ Build \/ BuildFails \/ LoadCA \/ AddCert

SettingsSpec == SettingsInit /\ [][SettingsNext]_settingsVars

\* Nothing else runs while a program starts: its next step is taken.
FairSettingsSpec == SettingsSpec /\ WF_settingsVars(SettingsNext)

-----------------------------------------------------------------------------
(* Properties *)

\* A Kafka client sends a secret over TLS only; a certificate the user has named,
\* half a pair or a whole one, is presented and never passed over in silence, and
\* a named authority replaces those of the system (kafka_options.go,
\* mongo_options.go and tls_options.go, Validate against TLSConfig and Dialer).
TLSAsAsked ==
  step = "built" /\ Connects =>
    /\ kindOf = "kafka" /\ client.secret => client.tls.on
    /\ fields.tls.useTLS =>
         /\ fields.tls.cert \/ fields.tls.key => client.tls.certificate
         /\ fields.tls.ca # "none" => client.tls.roots

\* A pool has a limit whatever fields were left at zero, unless a negative
\* number asked for none, and keeps no more connections than it may open
\* (db/mysql.go, postgresql.go, sqlite.go).
PoolIsBounded ==
  step = "built" /\ kindOf \in Pools =>
    /\ client.open > 0 \/ fields.open < 0
    /\ client.open > 0 => client.idle <= client.open

\* A client that is built has the transport security and the limits its options
\* ask for, as Validate, the flags and the constructors each leave them
\* (options/*_options.go and db/*.go).  That it is built at all is more than this
\* and does not hold: see the next one.
ClientsAsAsked == TLSAsAsked /\ PoolIsBounded

\* A configuration that Validate let pass is loaded, or loading it fails
\* (tls_options.go, MustTLSConfig: it returns the configuration, or panics).
TLSConfigReturns == step = "validated" ~> step \in {"built", "failed"}

=============================================================================

----------------------------- MODULE MCSettings -----------------------------
(***************************************************************************)
(* The values a user may give the fields of the options, for every run     *)
(* about Settings: zero, below zero, at and above a limit; every way to    *)
(* half configure TLS.                                                     *)
(***************************************************************************)
EXTENDS Settings

TLSFields ==
  [useTLS : BOOLEAN, cert : BOOLEAN, key : BOOLEAN,
   ca : {"none", "no block", "certificates", "no certificate"}]
PoolFields == [idle |-> {-1, 0, 3, 50}, open |-> {-1, 0, 3, 50}, life |-> {0}]

MCFields ==
  [kafka |-> [tls |-> TLSFields,
              mechanism |-> [name : {"plain", "scram", "other"}, written : {"lower", "mixed"}],
              brokers |-> {1}, timeout |-> {0}, group |-> {TRUE},
              partition |-> {1}, batchTimeout |-> {0}],
   mongo |-> [tls |-> TLSFields, named |-> {TRUE}, credentials |-> {TRUE}, timeout |-> {0}],
   redis |-> [dialTimeout |-> {0}, readTimeout |-> {-1, 0}, writeTimeout |-> {0},
              poolTimeout |-> {2}],
   mysql |-> PoolFields, postgresql |-> PoolFields, sqlite |-> PoolFields,
   serving |-> [port |-> {0, 65536}, required |-> {FALSE}, certFile |-> {TRUE},
                keyFile |-> {TRUE}, directory |-> {FALSE}, pairName |-> {FALSE}]]

=============================================================================

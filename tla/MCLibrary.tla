----------------------------- MODULE MCLibrary ------------------------------
(***************************************************************************)
(* An instance of the small components, each in a corner of its own: a     *)
(* behaviour chooses one as its focus and leaves the others where they     *)
(* started.                                                                *)
(***************************************************************************)
EXTENDS PubSub, SyncWaits, Containers, Bytes, Codecs, OptParser, DateTime

\* What is put into the byte buffer.
Ints == {<<7>>, <<7, 8>>, <<6, 7, 8, 9>>}
Strings == {<<1>>, <<2, 1>>, <<0, 1, 2>>}

VARIABLE focus

vars == <<focus, psVars, evVars, wgVars, semVars, pqVars, hpVars, vcVars, lsVars, rbVars,
          byVars, cdVars, dgVars, optVars, dtVars>>

Foci == {"rwlock", "pubsub", "event", "waitgroup", "semaphore", "pqueue", "heap", "vector", "array",
         "list", "ring", "queues", "bytes", "msgbuf", "encodings", "digest", "opt", "time"}

\* The components with a choice of initial states take one out of focus.
Init ==
  /\ focus \in Foci
  /\ PsInit /\ EvInit /\ WgInit /\ VcInit /\ LsInit /\ CdInit /\ DgInit
  /\ SemInit /\ (focus # "semaphore" => permits = 0)
  /\ PqInit /\ (focus # "pqueue" => pqDynamic)
  /\ HpInit /\ (focus # "heap" => \A n \in HpNodes : hpPrio[n] = 1)
  /\ RbInit /\ (focus \notin {"ring", "queues"} => st.max = 1)
  /\ ByInit /\ (focus # "bytes" => byHost = "little" /\ by.len = 0)
  /\ OptInit /\ (focus # "opt" => opt.argv = <<>> /\ opt.permute)
  /\ DtInit /\ (focus # "time" => dt = <<1970, 1, 1>>)

Next ==
  /\ UNCHANGED focus
  /\ \/ focus = "rwlock" /\ RwNext /\ UNCHANGED <<sub_list, ps>>
     \/ focus = "pubsub" /\ PsNext
     \/ focus = "event" /\ EvNext
     \/ focus = "waitgroup" /\ WgNext
     \/ focus = "semaphore" /\ SemNext
     \/ focus = "pqueue" /\ PqNext
     \/ focus = "heap" /\ HpNext
     \/ focus = "vector" /\ VecNext
     \/ focus = "array" /\ ArrNext
     \/ focus = "list" /\ LsNext
     \/ focus = "ring" /\ RbNext
     \/ focus = "queues" /\ QsNext
     \/ focus = "bytes" /\ ByNext
     \/ focus = "msgbuf" /\ MbNext
     \/ focus = "encodings" /\ CdNext
     \/ focus = "digest" /\ DgNext
     \/ focus = "opt" /\ OptStep
     \/ focus = "time" /\ DtNext
  /\ focus \notin {"rwlock", "pubsub"} => UNCHANGED psVars
  /\ focus # "event" => UNCHANGED evVars
  /\ focus # "waitgroup" => UNCHANGED wgVars
  /\ focus # "semaphore" => UNCHANGED semVars
  /\ focus # "pqueue" => UNCHANGED pqVars
  /\ focus # "heap" => UNCHANGED hpVars
  /\ focus \notin {"vector", "array"} => UNCHANGED vcVars
  /\ focus # "list" => UNCHANGED lsVars
  /\ focus \notin {"ring", "queues"} => UNCHANGED rbVars
  /\ focus \notin {"bytes", "msgbuf"} => UNCHANGED byVars
  /\ focus # "encodings" => UNCHANGED cdVars
  /\ focus # "digest" => UNCHANGED dgVars
  /\ focus # "opt" => UNCHANGED optVars
  /\ focus # "time" => UNCHANGED dtVars

Spec == Init /\ [][Next]_vars

TwoLevels == Threads \X {1, 2}

Short(s) == [kind |-> "short", chars |-> s]
Long(name, eq) == [kind |-> "long", name |-> name, eq |-> eq]
Argv ==
  {[kind |-> "word"], [kind |-> "dashdash"]}
  \union {Short(s) : s \in {<<"a">>, <<"a", "a">>, <<"a", "r">>, <<"a", "o", "a">>, <<"r">>, <<"r", "a">>, <<"z", "a">>}}
  \union {Long(n, eq) : n \in {"all", "req", "opt"}, eq \in BOOLEAN}
  \union {Long("no", FALSE)}
Options ==
  [x \in {"a", "r", "o", "all", "req", "opt"} |->
     IF x \in {"a", "all"} THEN "none" ELSE IF x \in {"r", "req"} THEN "required" ELSE "optional"]

\* Around the ends of months, years, centuries and cycles; the last is no date.
Dates ==
  {<<1, 1, 1>>, <<1600, 2, 28>>, <<1900, 2, 28>>, <<1970, 1, 1>>, <<1999, 12, 31>>, <<2000, 2, 29>>,
   <<2024, 2, 29>>, <<9999, 12, 31>>, <<2023, 2, 29>>}
Days == {-800000, -146097, -366, -365, -31, -28, -1, 1, 29, 59, 306, 365, 366, 1461, 36524, 146097}
=============================================================================

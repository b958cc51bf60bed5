------------------------------- MODULE PubSub -------------------------------
(***************************************************************************)
(* The publish/subscribe bus of src/sync/src/pubsub.c: a list of           *)
(* subscriptions under the read-write lock.  publish calls the matching    *)
(* subscribers one by one in the calling thread, with the lock held for    *)
(* reading, and a subscriber may call the bus again.                       *)
(*                                                                         *)
(* An activation is <<t, 1>>, a call of thread t, or <<t, 2>>, a call made *)
(* by a subscriber that runs inside <<t, 1>>; it takes the lock once.      *)
(***************************************************************************)
EXTENDS RwLock, Sequences, SequencesExt

CONSTANTS Threads,
          Types,          \* event types
          Callbacks,      \* subscriber functions
          MaxSubs         \* bound of the instance on the list

ASSUME PsAssumption == Calls = Threads \X {1, 2}

VARIABLES sub_list,       \* sub_list_: a sequence of [type, cb]
          ps              \* Calls -> the call: its operation and progress

psVars == <<sub_list, ps, rwVars>>

Idle == [op |-> "none"]

PsInit ==
  /\ RwInit
  /\ sub_list = <<>>
  /\ ps = [c \in Calls |-> Idle]

Inner(c) == <<c[1], 2>>

\* The thread of c is inside a subscriber that has not returned.
InCallback(c) == c[2] = 1 /\ ps[Inner(c)] # Idle

\* c may be called: by a thread outside the bus, or by the subscriber that the
\* outer call of its thread has just called.
MayCall(c) ==
  /\ ps[c] = Idle
  /\ \/ c[2] = 1
     \/ LET o == ps[<<c[1], 1>>] IN
          /\ o.op = "publish" /\ rw[<<c[1], 1>>] = "reading"
          /\ o.next > 1 /\ sub_list[o.next - 1].type = o.type

Requests ==
  [op : {"publish"}, type : Types, next : {1}, seen : {<<>>}, list : {<<>>}]
  \union [op : {"subscribe", "unsubscribe"}, type : Types, cb : Callbacks]

\* The call takes the lock, or falls asleep on it; a publisher starts on the
\* list it finds (list, its snapshot, is for the properties).
PsCall(c, r) ==
  /\ MayCall(c)
  /\ ps' = [ps EXCEPT ![c] = IF r.op = "publish" THEN [r EXCEPT !.list = sub_list] ELSE r]
  /\ rw[c] = "out"
  /\ IF r.op = "publish" THEN RdLock(c) ELSE WrLock(c)
  /\ rw'[c] # "out"
  /\ UNCHANGED sub_list

\* The thread comes back from a wait for the lock.  The bus does not look at
\* the results of the lock: here its waits are taken not to fail, and its
\* publishers to stay below INT_MAX.
PsResume(c) ==
  /\ ps[c] # Idle
  /\ RwResume(c)
  /\ rw'[c] # "out"
  /\ ps' = IF ps[c].op = "publish" THEN [ps EXCEPT ![c].list = sub_list] ELSE ps
  /\ UNCHANGED sub_list

\* The loop of ct_pubsub_publish, one element of the list per step.
Deliver(c) ==
  /\ ps[c].op = "publish" /\ rw[c] = "reading" /\ ~InCallback(c)
  /\ ps[c].next <= Len(sub_list)
  /\ LET s == sub_list[ps[c].next] IN
       ps' = [ps EXCEPT ![c].next = @ + 1,
                        ![c].seen = IF s.type = ps[c].type THEN Append(@, s) ELSE @]
  /\ UNCHANGED <<sub_list, rwVars>>

PublishReturns(c) ==
  /\ ps[c].op = "publish" /\ rw[c] = "reading" /\ ~InCallback(c)
  /\ ps[c].next > Len(sub_list)
  /\ RdUnlock(c)
  /\ ps' = [ps EXCEPT ![c] = Idle]
  /\ UNCHANGED sub_list

\* ct_pubsub_subscribe: the push may find no memory.
Subscribe(c) ==
  /\ ps[c].op = "subscribe" /\ rw[c] = "writing"
  /\ \/ /\ Len(sub_list) < MaxSubs
        /\ sub_list' = Append(sub_list, [type |-> ps[c].type, cb |-> ps[c].cb])
     \/ UNCHANGED sub_list
  /\ ps' = [ps EXCEPT ![c] = [op |-> "unlock"]]
  /\ UNCHANGED rwVars

\* ct_pubsub_unsubscribe: every element with this type and this function.
Unsubscribe(c) ==
  /\ ps[c].op = "unsubscribe" /\ rw[c] = "writing"
  /\ sub_list' = SelectSeq(sub_list, LAMBDA s : ~(s.type = ps[c].type /\ s.cb = ps[c].cb))
  /\ ps' = [ps EXCEPT ![c] = [op |-> "unlock"]]
  /\ UNCHANGED rwVars

ChangeReturns(c) ==
  /\ ps[c].op = "unlock"
  /\ WrUnlock(c)
  /\ ps' = [ps EXCEPT ![c] = Idle]
  /\ UNCHANGED sub_list

PsNext ==
  \E c \in Calls :
     \/ \E r \in Requests : PsCall(c, r)
     \/ PsResume(c)
     \/ Deliver(c) \/ PublishReturns(c)
     \/ Subscribe(c) \/ Unsubscribe(c) \/ ChangeReturns(c)

PsSpec == PsInit /\ [][PsNext]_psVars

-----------------------------------------------------------------------------
(* Properties. *)

\* No subscription comes or goes while a publisher walks the list, whatever
\* its subscribers and the other threads call (pubsub.c:58-68).
ListHeld ==
  \A c \in Calls : ps[c].op = "publish" /\ rw[c] = "reading" => sub_list = ps[c].list

\* The places up to n of a list at which subscribers of a type stand.
Matching(list, type, n) == {k \in 1..n : list[k].type = type}

\* What the publisher p has called so far is, one for one and in order, the
\* subscribers of its type among the elements it has passed.
Delivered(p) ==
  LET places == Matching(p.list, p.type, p.next - 1)
      Rank(k) == Cardinality({j \in places : j <= k})
  IN  /\ Len(p.seen) = Cardinality(places)
      /\ \A k \in places : p.seen[Rank(k)] = p.list[k]

\* pubsub.h: "keeping subscription changes atomic".  A publisher delivers to the
\* subscribers of its type in the list it found when it got the lock, each once
\* and in order, whatever is subscribed and unsubscribed meanwhile.
DeliveredToSubscribers ==
  /\ ListHeld
  /\ \A c \in Calls : ps[c].op = "publish" /\ rw[c] = "reading" => Delivered(ps[c])

\* The bus stands still only when a subscriber has called it again: then a
\* thread sleeps for the lock it holds itself for reading (pubsub.c:64).  A
\* program whose subscribers do not call the bus never blocks on it for good.
Halted ==
  /\ \E c \in Calls : ps[c] # Idle
  /\ \A c \in Calls : ps[c] = Idle \/ rw[c] \in {"read", "write"} \/ InCallback(c)
StuckOnlyByReentry ==
  Halted => \E t \in Threads : /\ rw[<<t, 1>>] = "reading"
                               /\ rw[<<t, 2>>] \in {"read", "write"}
=============================================================================

---------------------------- MODULE PresenceProofs ----------------------------
(***************************************************************************)
(* What the connection counters guarantee for every number of users and    *)
(* streams.                                                                *)
(***************************************************************************)
EXTENDS Presence, FiniteSetTheorems, TLAPS

Held(u) == held \cap Of(u)

-----------------------------------------------------------------------------
(* Types.                                                                  *)

LEMMA InitType == Init => TypeOK
BY StreamAssumption, NullAssumption DEF Init, TypeOK, Pc, Joined

LEMMA NextType ==
    ASSUME TypeOK, [Next]_vars
    PROVE  TypeOK'
<1> USE NullAssumption DEF TypeOK, Pc, Joined, Goto
<1>1. ASSUME NEW s \in Stream, NEW u \in User, Open(s, u)
      PROVE  TypeOK'
  BY <1>1 DEF Open
<1>2. ASSUME NEW s \in Stream, Authorize(s)
      PROVE  TypeOK'
  BY <1>2 DEF Authorize
<1>3. ASSUME NEW s \in Stream, Join(s)
      PROVE  TypeOK'
  <2>1. /\ calm' = calm /\ said' = said /\ user' = user
        /\ user[s] \in User
    BY <1>3 DEF Join
  <2>2. CASE /\ count' = [count EXCEPT ![user[s]] = @ + 1]
             /\ held' = held \cup {s}
             /\ Goto(s, IF count[user[s]] = 0 THEN "online" ELSE "snapshot")
             /\ UNCHANGED <<connected, failures>>
    BY <2>1, <2>2
  <2>3. ASSUME Fail, Goto(s, "ended"), connected' = [connected EXCEPT ![s] = FALSE],
               \/ count' = [count EXCEPT ![user[s]] = @ + 1] /\ held' = held \cup {s}
               \/ UNCHANGED <<count, held>>
        PROVE  TypeOK'
    BY <2>1, <2>3 DEF Fail
  <2> QED
    BY <1>3, <2>2, <2>3 DEF Join
<1>4. ASSUME NEW s \in Stream, AnnounceOnline(s)
      PROVE  TypeOK'
  BY <1>4 DEF AnnounceOnline, Announce
<1>5. ASSUME NEW s \in Stream, Snapshot(s) \/ Subscribe(s)
      PROVE  TypeOK'
  BY <1>5 DEF Snapshot, Subscribe
<1>6. ASSUME NEW s \in Stream, Disconnect(s)
      PROVE  TypeOK'
  BY <1>6 DEF Disconnect
<1>7. ASSUME NEW s \in Stream, Leave(s)
      PROVE  TypeOK'
  BY <1>7 DEF Leave
<1>8. ASSUME NEW s \in Stream, HDel(s)
      PROVE  TypeOK'
  BY <1>8 DEF HDel
<1>9. ASSUME NEW s \in Stream, AnnounceOffline(s)
      PROVE  TypeOK'
  BY <1>9 DEF AnnounceOffline, Announce
<1>10. ASSUME NEW s \in Stream, Die(s)
       PROVE  TypeOK'
  BY <1>10 DEF Die, Fail
<1>11. CASE UNCHANGED vars
  BY <1>11 DEF vars
<1> QED
  BY <1>1, <1>2, <1>3, <1>4, <1>5, <1>6, <1>7, <1>8, <1>9, <1>10, <1>11
     DEF Next, Step

\* Every variable keeps its type, and only a stream that joined is torn down.
THEOREM TypeCorrect == Spec => []TypeOK
BY InitType, NextType, PTL DEF Spec

-----------------------------------------------------------------------------
(* Cardinalities of the streams of a user.                                 *)

LEMMA HeldFinite == ASSUME TypeOK, NEW u \in User
                    PROVE  IsFiniteSet(Held(u)) /\ Cardinality(Held(u)) \in Nat
<1>1. Held(u) \subseteq Stream
  BY DEF Held, Of
<1>2. IsFiniteSet(Held(u))
  BY <1>1, StreamAssumption, FS_Subset
<1> QED
  BY <1>2, FS_CardinalityType

\* join puts a stream of user[s] in, leave takes one out; nobody else's change.
LEMMA HeldAdd ==
    ASSUME TypeOK, NEW s \in Stream, user[s] \in User, s \notin held,
           user' = user, held' = held \cup {s}, NEW u \in User
    PROVE  Cardinality(Held(u)') =
              IF u = user[s] THEN Cardinality(Held(u)) + 1 ELSE Cardinality(Held(u))
<1>1. CASE u = user[s]
  <2>1. Held(u)' = Held(u) \cup {s} /\ s \notin Held(u)
    BY <1>1 DEF Held, Of
  <2> QED
    BY <1>1, <2>1, HeldFinite, FS_AddElement
<1>2. CASE u # user[s]
  <2>1. Held(u)' = Held(u)
    BY <1>2 DEF Held, Of
  <2> QED
    BY <1>2, <2>1
<1> QED
  BY <1>1, <1>2

LEMMA HeldRemove ==
    ASSUME TypeOK, NEW s \in Stream, user[s] \in User, s \in held,
           user' = user, held' = held \ {s}, NEW u \in User
    PROVE  Cardinality(Held(u)') =
              IF u = user[s] THEN Cardinality(Held(u)) - 1 ELSE Cardinality(Held(u))
<1>1. CASE u = user[s]
  <2>1. Held(u)' = Held(u) \ {s} /\ s \in Held(u)
    BY <1>1 DEF Held, Of
  <2> QED
    BY <1>1, <2>1, HeldFinite, FS_RemoveElement
<1>2. CASE u # user[s]
  <2>1. Held(u)' = Held(u)
    BY <1>2 DEF Held, Of
  <2> QED
    BY <1>2, <2>1
<1> QED
  BY <1>1, <1>2

\* A stream that opens was not counted: only the users of joined streams are.
Unjoined == \A s \in Stream : pc[s] \in {"new", "authorize", "join"} => s \notin held

LEMMA NextUnjoined ==
    ASSUME TypeOK, Unjoined, [Next]_vars
    PROVE  Unjoined'
<1> USE DEF TypeOK, Unjoined, Goto
<1>1. ASSUME NEW s \in Stream, NEW u \in User, Open(s, u)
      PROVE  Unjoined'
  BY <1>1 DEF Open
<1>2. ASSUME NEW s \in Stream, Join(s)
      PROVE  Unjoined'
  BY <1>2 DEF Join
<1>3. ASSUME NEW s \in Stream,
             Authorize(s) \/ AnnounceOnline(s) \/ Snapshot(s) \/ Subscribe(s)
      PROVE  Unjoined'
  BY <1>3 DEF Authorize, AnnounceOnline, Snapshot, Subscribe
<1>4. ASSUME NEW s \in Stream, Disconnect(s) \/ Leave(s)
      PROVE  Unjoined'
  BY <1>4 DEF Disconnect, Leave
<1>5. ASSUME NEW s \in Stream, HDel(s) \/ AnnounceOffline(s) \/ Die(s)
      PROVE  Unjoined'
  BY <1>5 DEF HDel, AnnounceOffline, Die
<1>6. CASE UNCHANGED vars
  BY <1>6 DEF vars
<1> QED
  BY <1>1, <1>2, <1>3, <1>4, <1>5, <1>6 DEF Next, Step

-----------------------------------------------------------------------------
(* The counters never run ahead.                                           *)

LEMMA NextNeverOvercounts ==
    ASSUME TypeOK, Unjoined, NeverOvercounts, [Next]_vars
    PROVE  NeverOvercounts'
<1> SUFFICES ASSUME NEW u \in User
             PROVE  count'[u] <= Cardinality(Held(u)')
  BY DEF NeverOvercounts, Held, Of
<1>0. /\ count[u] \in Int /\ Cardinality(Held(u)) \in Nat
      /\ count[u] <= Cardinality(Held(u))
  BY HeldFinite DEF TypeOK, NeverOvercounts, Held
<1>1. ASSUME NEW s \in Stream, NEW v \in User, Open(s, v)
      PROVE  count'[u] <= Cardinality(Held(u)')
  <2>1. Held(u)' = Held(u)
    BY <1>1 DEF Open, TypeOK, Unjoined, Held, Of
  <2> QED
    BY <1>0, <1>1, <2>1 DEF Open
<1>2. ASSUME NEW s \in Stream, Join(s)
      PROVE  count'[u] <= Cardinality(Held(u)')
  <2>1. user[s] \in User /\ s \notin held /\ user' = user
    BY <1>2 DEF Join, TypeOK, Unjoined
  <2>2. CASE count' = [count EXCEPT ![user[s]] = @ + 1] /\ held' = held \cup {s}
    <3>1. Cardinality(Held(u)') = IF u = user[s] THEN Cardinality(Held(u)) + 1
                                                ELSE Cardinality(Held(u))
      BY <2>1, <2>2, HeldAdd
    <3> QED
      BY <1>0, <2>1, <2>2, <3>1 DEF TypeOK
  <2>3. CASE UNCHANGED <<count, held>>
    BY <1>0, <2>1, <2>3 DEF Held, Of
  <2> QED
    BY <1>2, <2>2, <2>3 DEF Join
<1>3. ASSUME NEW s \in Stream, Leave(s)
      PROVE  count'[u] <= Cardinality(Held(u)')
  <2>1. /\ user[s] \in User /\ s \in held /\ user' = user
        /\ held' = held \ {s} /\ count' = [count EXCEPT ![user[s]] = @ - 1]
    BY <1>3 DEF Leave, TypeOK, Joined
  <2>2. Cardinality(Held(u)') = IF u = user[s] THEN Cardinality(Held(u)) - 1
                                              ELSE Cardinality(Held(u))
    BY <2>1, HeldRemove
  <2> QED
    BY <1>0, <2>1, <2>2 DEF TypeOK
<1>4. ASSUME NEW s \in Stream, HDel(s)
      PROVE  count'[u] <= Cardinality(Held(u)')
  <2>1. Held(u)' = Held(u)
    BY <1>4 DEF HDel, Held, Of
  <2>2. count'[u] = 0 \/ count'[u] = count[u]
    BY <1>4 DEF HDel, TypeOK
  <2> QED
    BY <1>0, <2>1, <2>2
<1>5. ASSUME NEW s \in Stream,
             \/ Authorize(s) \/ AnnounceOnline(s) \/ Snapshot(s) \/ Subscribe(s)
             \/ Disconnect(s) \/ AnnounceOffline(s) \/ Die(s)
      PROVE  UNCHANGED <<count, held, user>>
  BY <1>5 DEF Authorize, AnnounceOnline, Snapshot, Subscribe, Disconnect,
              AnnounceOffline, Die
<1>6. CASE UNCHANGED <<count, held, user>>
  BY <1>0, <1>6 DEF Held, Of
<1>7. UNCHANGED vars => UNCHANGED <<count, held, user>>
  BY DEF vars
<1> QED
  BY <1>1, <1>2, <1>3, <1>4, <1>5, <1>6, <1>7 DEF Next, Step

CountInv == TypeOK /\ Unjoined /\ NeverOvercounts

LEMMA InitCount == Init => CountInv
<1> SUFFICES ASSUME Init PROVE CountInv
  OBVIOUS
<1>1. \A u \in User : Cardinality(held \cap Of(u)) = 0
  BY FS_EmptySet DEF Init
<1> QED
  BY <1>1, InitType DEF Init, CountInv, Unjoined, NeverOvercounts

\* A counter never exceeds the streams that joined and did not leave, whatever is
\* lost, leaked or overtaken.
THEOREM CountersBounded == Spec => []NeverOvercounts
<1>1. CountInv /\ [Next]_vars => CountInv'
  BY NextType, NextUnjoined, NextNeverOvercounts DEF CountInv
<1>2. CountInv => NeverOvercounts
  BY DEF CountInv
<1> QED
  BY <1>1, <1>2, InitCount, PTL DEF Spec
-----------------------------------------------------------------------------
(* A user who opens and closes one stream at a time, undisturbed.          *)

InTransit(s) == pc[s] \notin {"new", "live", "ended"}
Announcing(s) == pc[s] \in {"online", "delete", "offline"}

\* One stream of a user is in transit at most; exactly the joined streams are
\* counted; none is left when the counter is deleted; and what was last said of a
\* user is right except while it is being said.
OneTransit ==
    \A s, t \in Stream :
        InTransit(s) /\ InTransit(t) /\ user[s] = user[t] => s = t
HeldAreJoined == \A s \in Stream : s \in held => Joined(s)
CountsHeld == \A u \in User : count[u] = Cardinality(Held(u))
LastOneOut == \A s \in Stream : pc[s] \in {"delete", "offline"} => Held(user[s]) = {}
SaidRight ==
    \A u \in User : (\A s \in Of(u) : ~Announcing(s)) =>
                       ((said[u] = "online") <=> (Held(u) # {}))

TabsInv == OneTransit /\ HeldAreJoined /\ CountsHeld /\ LastOneOut /\ SaidRight

LEMMA HeldEmpty == ASSUME TypeOK, NEW u \in User
                   PROVE  (Cardinality(Held(u)) = 0) <=> (Held(u) = {})
BY HeldFinite, FS_EmptySet

LEMMA NextOneTransit ==
    ASSUME calm, TypeOK, OneTransit, [Next]_vars
    PROVE  OneTransit'
<1> USE NullAssumption DEF TypeOK, OneTransit, InTransit, Goto
<1>1. ASSUME NEW s \in Stream, NEW u \in User, Open(s, u)
      PROVE  OneTransit'
  BY <1>1 DEF Open, Settled, Of
<1>2. ASSUME NEW s \in Stream, Disconnect(s)
      PROVE  OneTransit'
  BY <1>2 DEF Disconnect, Settled, Of
<1>3. ASSUME NEW s \in Stream, Step(s) \/ Die(s)
      PROVE  /\ user' = user
             /\ \A t \in Stream : InTransit(t)' => InTransit(t)
  <2>1. CASE Authorize(s) \/ Join(s)
    BY <2>1 DEF Authorize, Join
  <2>2. CASE AnnounceOnline(s) \/ Snapshot(s) \/ Subscribe(s)
    BY <2>2 DEF AnnounceOnline, Snapshot, Subscribe
  <2>3. CASE Leave(s) \/ HDel(s)
    BY <2>3 DEF Leave, HDel
  <2>4. CASE AnnounceOffline(s) \/ Die(s)
    BY <2>4 DEF AnnounceOffline, Die
  <2> QED
    BY <1>3, <2>1, <2>2, <2>3, <2>4 DEF Step
<1>4. CASE UNCHANGED vars
  BY <1>4 DEF vars
<1> QED
  BY <1>1, <1>2, <1>3, <1>4 DEF Next

LEMMA NextHeldAreJoined ==
    ASSUME calm, TypeOK, HeldAreJoined, [Next]_vars
    PROVE  HeldAreJoined'
<1> USE DEF TypeOK, HeldAreJoined, Joined, Goto
<1>1. ASSUME NEW s \in Stream, NEW u \in User, Open(s, u)
      PROVE  HeldAreJoined'
  BY <1>1 DEF Open
<1>2. ASSUME NEW s \in Stream, Disconnect(s)
      PROVE  HeldAreJoined'
  BY <1>2 DEF Disconnect
<1>3. ASSUME NEW s \in Stream, Authorize(s)
      PROVE  HeldAreJoined'
  BY <1>3 DEF Authorize
<1>4. ASSUME NEW s \in Stream, Join(s)
      PROVE  HeldAreJoined'
  BY <1>4 DEF Join, Fail
<1>5. ASSUME NEW s \in Stream, AnnounceOnline(s) \/ Snapshot(s) \/ Subscribe(s)
      PROVE  HeldAreJoined'
  BY <1>5 DEF AnnounceOnline, Snapshot, Subscribe
<1>6. ASSUME NEW s \in Stream, Leave(s)
      PROVE  HeldAreJoined'
  BY <1>6 DEF Leave
<1>7. ASSUME NEW s \in Stream, HDel(s) \/ AnnounceOffline(s)
      PROVE  HeldAreJoined'
  BY <1>7 DEF HDel, AnnounceOffline
<1>8. ASSUME NEW s \in Stream, Die(s)
      PROVE  FALSE
  BY <1>8 DEF Die, Fail
<1>9. CASE UNCHANGED vars
  BY <1>9 DEF vars
<1> QED
  BY <1>1, <1>2, <1>3, <1>4, <1>5, <1>6, <1>7, <1>8, <1>9 DEF Next, Step

\* The steps that count nobody in or out.
LEMMA QuietHeld ==
    ASSUME TypeOK, Unjoined, NEW s \in Stream,
           \/ \E u \in User : Open(s, u)
           \/ Authorize(s) \/ AnnounceOnline(s) \/ Snapshot(s) \/ Subscribe(s)
           \/ Disconnect(s) \/ AnnounceOffline(s)
    PROVE  count' = count /\ \A v \in User : Held(v)' = Held(v)
<1>1. CASE \E u \in User : Open(s, u)
  <2>1. PICK u \in User : Open(s, u)
    BY <1>1
  <2>2. s \notin held
    BY <2>1 DEF Open, Unjoined
  <2> QED
    BY <2>1, <2>2 DEF Open, TypeOK, Held, Of
<1>2. CASE UNCHANGED <<count, held, user>>
  BY <1>2 DEF Held, Of
<1> QED
  BY <1>1, <1>2 DEF Authorize, AnnounceOnline, Snapshot, Subscribe, Disconnect,
                    AnnounceOffline

LEMMA NextCountsHeld ==
    ASSUME calm, TypeOK, Unjoined, TabsInv, [Next]_vars
    PROVE  CountsHeld'
<1> SUFFICES ASSUME NEW u \in User
             PROVE  count'[u] = Cardinality(Held(u)')
  BY DEF CountsHeld, Held, Of
<1>0. /\ count[u] \in Int /\ Cardinality(Held(u)) \in Nat
      /\ count[u] = Cardinality(Held(u))
  BY HeldFinite DEF TypeOK, TabsInv, CountsHeld
<1>1. ASSUME NEW s \in Stream, Join(s)
      PROVE  count'[u] = Cardinality(Held(u)')
  <2>1. /\ user[s] \in User /\ s \notin held /\ user' = user
        /\ held' = held \cup {s} /\ count' = [count EXCEPT ![user[s]] = @ + 1]
    BY <1>1 DEF Join, Fail, TypeOK, Unjoined
  <2>2. Cardinality(Held(u)') = IF u = user[s] THEN Cardinality(Held(u)) + 1
                                              ELSE Cardinality(Held(u))
    BY <2>1, HeldAdd
  <2> QED
    BY <1>0, <2>1, <2>2 DEF TypeOK
<1>2. ASSUME NEW s \in Stream, Leave(s)
      PROVE  count'[u] = Cardinality(Held(u)')
  <2>1. /\ user[s] \in User /\ s \in held /\ user' = user
        /\ held' = held \ {s} /\ count' = [count EXCEPT ![user[s]] = @ - 1]
    BY <1>2 DEF Leave, TypeOK, Joined
  <2>2. Cardinality(Held(u)') = IF u = user[s] THEN Cardinality(Held(u)) - 1
                                              ELSE Cardinality(Held(u))
    BY <2>1, HeldRemove
  <2> QED
    BY <1>0, <2>1, <2>2 DEF TypeOK
<1>3. ASSUME NEW s \in Stream, HDel(s)
      PROVE  count'[u] = Cardinality(Held(u)')
  <2>1. Held(u)' = Held(u)
    BY <1>3 DEF HDel, Held, Of
  <2>2. Held(user[s]) = {} /\ user[s] \in User
    BY <1>3 DEF HDel, TabsInv, LastOneOut, TypeOK
  <2>3. Cardinality(Held(user[s])) = 0
    BY <2>2, FS_EmptySet
  <2> QED
    BY <1>0, <1>3, <2>1, <2>2, <2>3 DEF HDel, TypeOK
<1>4. ASSUME NEW s \in Stream, Die(s)
      PROVE  FALSE
  BY <1>4 DEF Die, Fail
<1>5. CASE UNCHANGED vars
  BY <1>0, <1>5 DEF vars, Held, Of
<1> QED
  BY <1>0, <1>1, <1>2, <1>3, <1>4, <1>5, QuietHeld DEF Next, Step

\* A step of one stream of a user in transit leaves the user's others alone.
LEMMA NextLastOneOut ==
    ASSUME calm, TypeOK, Unjoined, TabsInv, [Next]_vars
    PROVE  LastOneOut'
<1> USE DEF LastOneOut, Goto
<1>0. /\ OneTransit /\ LastOneOut /\ CountsHeld /\ TypeOK
      /\ \A s \in Stream : pc[s] \notin {"new"} => user[s] \in User
  BY DEF TabsInv, TypeOK
<1>1. ASSUME NEW s \in Stream, Join(s)
      PROVE  LastOneOut'
  <2>1. \A t \in Stream : pc'[t] \in {"delete", "offline"} =>
           pc[t] \in {"delete", "offline"} /\ user[t] # user[s]
    <3>1. /\ pc[s] = "join" /\ pc \in [Stream -> Pc]
          /\ \E label \in {"online", "snapshot"} : pc' = [pc EXCEPT ![s] = label]
      BY <1>0, <1>1 DEF Join, Fail, TypeOK
    <3> QED
      BY <1>0, <3>1 DEF OneTransit, InTransit
  <2>2. user' = user /\ held' \subseteq held \cup {s}
    BY <1>1 DEF Join, Fail
  <2>3. \A v \in User : v # user[s] => Held(v)' \subseteq Held(v)
    BY <2>2 DEF Held, Of
  <2> QED
    BY <1>0, <2>1, <2>2, <2>3
<1>2. ASSUME NEW s \in Stream, Leave(s)
      PROVE  LastOneOut'
  <2>1. /\ user[s] \in User /\ s \in held /\ user' = user
        /\ held' = held \ {s} /\ count' = [count EXCEPT ![user[s]] = @ - 1]
    BY <1>0, <1>2 DEF Leave, TypeOK, Joined
  <2>2. \A v \in User : Held(v)' \subseteq Held(v)
    BY <2>1 DEF Held, Of
  <2>3. pc'[s] = "delete" => Held(user[s])' = {}
    <3>1. Cardinality(Held(user[s])') = Cardinality(Held(user[s])) - 1
      BY <2>1, HeldRemove
    <3>2. IsFiniteSet(Held(user[s])) /\ Cardinality(Held(user[s])) \in Nat
      BY <2>1, HeldFinite
    <3>3. Held(user[s])' \subseteq Held(user[s])
      BY <2>1 DEF Held, Of
    <3>4. /\ IsFiniteSet(Held(user[s])')
          /\ Cardinality(Held(user[s])') \in Nat
      BY <3>2, <3>3, FS_Subset, FS_CardinalityType
    <3>5. ASSUME pc'[s] = "delete"
          PROVE  Cardinality(Held(user[s])') = 0
      <4>1. count[user[s]] <= 1
        BY <1>0, <1>2, <3>5 DEF Leave, TypeOK
      <4>2. count[user[s]] = Cardinality(Held(user[s]))
        BY <1>0, <2>1 DEF CountsHeld
      <4> QED
        BY <3>1, <3>2, <3>4, <4>1, <4>2
    <3> QED
      BY <3>4, <3>5, FS_EmptySet
  <2>4. \A t \in Stream : pc'[t] \in {"delete", "offline"} =>
           t = s \/ pc[t] \in {"delete", "offline"}
    BY <1>0, <1>2 DEF Leave, TypeOK
  <2>5. \A t \in Stream \ {s} : pc'[t] = pc[t] /\ user'[t] = user[t]
    BY <1>0, <1>2 DEF Leave, TypeOK
  <2>6. pc'[s] \in {"delete", "ended"}
    BY <1>0, <1>2 DEF Leave, TypeOK
  <2> QED
    BY <1>0, <2>1, <2>2, <2>3, <2>4, <2>5, <2>6
<1>3. ASSUME NEW s \in Stream, HDel(s)
      PROVE  LastOneOut'
  BY <1>0, <1>3 DEF HDel, TypeOK, Held, Of
<1>4. ASSUME NEW s \in Stream, NEW u \in User, Open(s, u)
      PROVE  LastOneOut'
  <2>1. \A v \in User : Held(v)' = Held(v)
    BY <1>4, QuietHeld
  <2> QED
    BY <1>0, <1>4, <2>1 DEF Open, TypeOK
<1>5. ASSUME NEW s \in Stream,
             \/ Authorize(s) \/ AnnounceOnline(s) \/ Snapshot(s) \/ Subscribe(s)
             \/ Disconnect(s) \/ AnnounceOffline(s)
      PROVE  LastOneOut'
  <2>1. \A v \in User : Held(v)' = Held(v)
    BY <1>5, QuietHeld
  <2>2. /\ user' = user
        /\ \A t \in Stream : pc'[t] \in {"delete", "offline"} =>
              pc[t] \in {"delete", "offline"}
    BY <1>0, <1>5 DEF Authorize, AnnounceOnline, Snapshot, Subscribe, Disconnect,
                      AnnounceOffline, TypeOK
  <2> QED
    BY <1>0, <2>1, <2>2
<1>6. ASSUME NEW s \in Stream, Die(s)
      PROVE  FALSE
  BY <1>6 DEF Die, Fail
<1>7. CASE UNCHANGED vars
  BY <1>0, <1>7 DEF vars, Held, Of
<1> QED
  BY <1>1, <1>2, <1>3, <1>4, <1>5, <1>6, <1>7 DEF Next, Step

LEMMA NextSaidRight ==
    ASSUME calm, TypeOK, Unjoined, TabsInv, [Next]_vars
    PROVE  SaidRight'
<1> USE DEF SaidRight, Announcing, Goto, Of
<1>0. /\ OneTransit /\ LastOneOut /\ CountsHeld /\ SaidRight /\ HeldAreJoined
      /\ \A s \in Stream : pc[s] # "new" => user[s] \in User
      /\ \A u \in User : (count[u] = 0) <=> (Held(u) = {})
      /\ count \in [User -> Int] /\ said \in [User -> {"online", "offline"}]
      /\ pc \in [Stream -> Pc] /\ user \in [Stream -> User \cup {NULL}]
  BY HeldEmpty DEF TabsInv, TypeOK, CountsHeld
<1>1. ASSUME NEW s \in Stream, Join(s)
      PROVE  SaidRight'
  <2>1. /\ user' = user /\ said' = said /\ held' = held \cup {s} /\ user[s] \in User
        /\ pc' = [pc EXCEPT ![s] = IF count[user[s]] = 0 THEN "online" ELSE "snapshot"]
    BY <1>0, <1>1 DEF Join, Fail
  <2>2. \A u \in User : u # user[s] => Held(u)' = Held(u)
    BY <2>1 DEF Held
  <2>3. s \in Held(user[s])'
    BY <2>1 DEF Held
  <2>4. \A t \in Stream : user[t] = user[s] /\ t # s => ~Announcing(t)
    BY <1>0, <1>1 DEF Join, OneTransit, InTransit
  <2>5. pc'[s] # "online" => Held(user[s]) # {} /\ pc'[s] = "snapshot"
    BY <1>0, <2>1
  <2>6. ~Announcing(s)
    BY <1>1 DEF Join
  <2>7. pc'[s] # "online" => said[user[s]] = "online"
    BY <1>0, <2>1, <2>4, <2>5, <2>6
  <2>8. \A t \in Stream : t # s => pc'[t] = pc[t]
    BY <1>0, <2>1
  <2>9. ASSUME NEW u \in User, u # user[s], \A t \in Of(u)' : ~Announcing(t)'
        PROVE  (said'[u] = "online") <=> (Held(u)' # {})
    BY <1>0, <2>1, <2>2, <2>8, <2>9
  <2>10. (\A t \in Of(user[s])' : ~Announcing(t)') =>
            said'[user[s]] = "online" /\ Held(user[s])' # {}
    BY <2>1, <2>3, <2>7
  <2> QED
    BY <2>1, <2>9, <2>10
<1>2. ASSUME NEW s \in Stream, Leave(s)
      PROVE  SaidRight'
  <2>1. /\ user' = user /\ said' = said /\ held' = held \ {s} /\ user[s] \in User
        /\ pc' = [pc EXCEPT ![s] = IF count[user[s]] <= 1 THEN "delete" ELSE "ended"]
        /\ s \in held
    BY <1>0, <1>2 DEF Leave, TypeOK, Joined
  <2>2. \A u \in User : u # user[s] => Held(u)' = Held(u)
    BY <2>1 DEF Held
  <2>3. s \in Held(user[s])
    BY <2>1 DEF Held
  <2>4. \A t \in Stream : user[t] = user[s] => ~Announcing(t)
    BY <1>0, <1>2 DEF Leave, OneTransit, InTransit
  <2>5. said[user[s]] = "online"
    BY <1>0, <2>1, <2>3, <2>4
  <2>6. pc'[s] # "delete" => Held(user[s])' # {}
    <3>1. Cardinality(Held(user[s])') = Cardinality(Held(user[s])) - 1
      BY <2>1, HeldRemove
    <3>2. count[user[s]] = Cardinality(Held(user[s])) /\ count[user[s]] \in Int
      BY <1>0, <2>1 DEF CountsHeld
    <3>3. pc'[s] # "delete" => Cardinality(Held(user[s])') # 0
      BY <1>0, <2>1, <3>1, <3>2
    <3> QED
      BY <3>3, FS_EmptySet
  <2>7. \A t \in Stream : t # s => pc'[t] = pc[t]
    BY <1>0, <2>1
  <2>8. ASSUME NEW u \in User, u # user[s], \A t \in Of(u)' : ~Announcing(t)'
        PROVE  (said'[u] = "online") <=> (Held(u)' # {})
    BY <1>0, <2>1, <2>2, <2>7, <2>8
  <2>9. (\A t \in Of(user[s])' : ~Announcing(t)') =>
           said'[user[s]] = "online" /\ Held(user[s])' # {}
    BY <2>1, <2>5, <2>6
  <2> QED
    BY <2>1, <2>8, <2>9
<1>3. ASSUME NEW s \in Stream, HDel(s)
      PROVE  SaidRight'
  <2>1. user' = user /\ said' = said /\ held' = held /\ pc' = [pc EXCEPT ![s] = "offline"]
    BY <1>3 DEF HDel
  <2>2. pc[s] = "delete"
    BY <1>3 DEF HDel
  <2> QED
    BY <1>0, <2>1, <2>2 DEF Held
<1>4. ASSUME NEW s \in Stream, NEW u \in User, Open(s, u)
      PROVE  SaidRight'
  <2>1. \A v \in User : Held(v)' = Held(v)
    BY <1>4, QuietHeld
  <2>2. /\ said' = said /\ pc' = [pc EXCEPT ![s] = "authorize"]
        /\ user' = [user EXCEPT ![s] = u] /\ pc[s] = "new"
    BY <1>4 DEF Open
  <2>3. \A v \in User : (\A t \in Of(v)' : ~Announcing(t)') =>
                           \A t \in Of(v) : ~Announcing(t)
    BY <1>0, <2>2
  <2> QED
    BY <1>0, <2>1, <2>2, <2>3
<1>5. ASSUME NEW s \in Stream, AnnounceOnline(s)
      PROVE  SaidRight'
  <2>1. \A v \in User : Held(v)' = Held(v)
    BY <1>5, QuietHeld
  <2>2. /\ said' = [said EXCEPT ![user[s]] = "online"]
        /\ pc' = [pc EXCEPT ![s] = "snapshot"] /\ user' = user
    BY <1>5 DEF AnnounceOnline, Announce
  <2>3. user[s] \in User /\ Held(user[s]) # {}
    BY <1>5 DEF AnnounceOnline, TypeOK, Joined, Held
  <2> QED
    BY <1>0, <2>1, <2>2, <2>3
<1>6. ASSUME NEW s \in Stream, AnnounceOffline(s)
      PROVE  SaidRight'
  <2>1. \A v \in User : Held(v)' = Held(v)
    BY <1>6, QuietHeld
  <2>2. /\ said' = [said EXCEPT ![user[s]] = "offline"]
        /\ pc' = [pc EXCEPT ![s] = "ended"] /\ user' = user
    BY <1>6 DEF AnnounceOffline, Announce
  <2>3. user[s] \in User /\ Held(user[s]) = {}
    BY <1>0, <1>6 DEF AnnounceOffline, LastOneOut
  <2> QED
    BY <1>0, <2>1, <2>2, <2>3
<1>7. ASSUME NEW s \in Stream,
             Authorize(s) \/ Snapshot(s) \/ Subscribe(s) \/ Disconnect(s)
      PROVE  SaidRight'
  <2>1. \A v \in User : Held(v)' = Held(v)
    BY <1>7, QuietHeld
  <2>2. said' = said /\ user' = user
    BY <1>7 DEF Authorize, Snapshot, Subscribe, Disconnect
  <2>3. \A t \in Stream : Announcing(t)' <=> Announcing(t)
    <3>1. CASE Authorize(s) \/ Snapshot(s) \/ Subscribe(s)
      BY <1>0, <3>1 DEF Authorize, Snapshot, Subscribe
    <3>2. CASE Disconnect(s)
      BY <1>0, <3>2 DEF Disconnect
    <3> QED
      BY <1>7, <3>1, <3>2
  <2> QED
    BY <1>0, <2>1, <2>2, <2>3
<1>8. ASSUME NEW s \in Stream, Die(s)
      PROVE  FALSE
  BY <1>8 DEF Die, Fail
<1>9. CASE UNCHANGED vars
  BY <1>0, <1>9 DEF vars, Held
<1> QED
  BY <1>1, <1>2, <1>3, <1>4, <1>5, <1>6, <1>7, <1>8, <1>9 DEF Next, Step

\* For a user who opens and closes one stream at a time, undisturbed, the counter
\* is the number of open streams and the last transition announced agrees with it.
THEOREM TabsCounted == Spec => []CountsTabs
<1> DEFINE CInv == CountInv /\ (calm => TabsInv)
<1>1. Init => CInv
  <2> SUFFICES ASSUME Init PROVE TabsInv
    BY InitCount
  <2>1. \A u \in User : Held(u) = {}
    BY DEF Init, Held
  <2>2. CountsHeld
    BY <2>1, FS_EmptySet DEF CountsHeld, Init
  <2> QED
    BY <2>1, <2>2 DEF Init, TabsInv, OneTransit, InTransit, HeldAreJoined, LastOneOut,
                      SaidRight
<1>2. CInv /\ [Next]_vars => CInv'
  <2> SUFFICES ASSUME CInv, [Next]_vars PROVE CInv'
    OBVIOUS
  <2>1. calm' = calm
    BY DEF Next, Step, Open, Authorize, Join, AnnounceOnline, Snapshot, Subscribe,
           Disconnect, Leave, HDel, AnnounceOffline, Die, vars
  <2>2. CountInv'
    BY NextType, NextUnjoined, NextNeverOvercounts DEF CountInv
  <2>3. calm => TabsInv'
    BY NextOneTransit, NextHeldAreJoined, NextCountsHeld, NextLastOneOut,
       NextSaidRight DEF CountInv, TabsInv
  <2> QED
    BY <2>1, <2>2, <2>3
<1>3. CInv => CountsTabs
  <2> SUFFICES ASSUME CInv, calm, NEW u \in User, Settled(u)
               PROVE  /\ count[u] = Cardinality(Live(u))
                      /\ (said[u] = "online") = (Live(u) # {})
    BY DEF CountsTabs
  <2>1. Held(u) = Live(u)
    <3>1. TypeOK /\ HeldAreJoined
      BY DEF CountInv, TabsInv
    <3>2. \A s \in Of(u) : s \in held => pc[s] = "live"
      BY <3>1 DEF HeldAreJoined, Joined, Settled, Of
    <3>3. \A s \in Stream : pc[s] = "live" => s \in held
      BY <3>1 DEF TypeOK, Joined
    <3> QED
      BY <3>2, <3>3 DEF Held, Live, Of
  <2>2. \A s \in Of(u) : ~Announcing(s)
    BY DEF Settled, Announcing
  <2> QED
    BY <2>1, <2>2 DEF TabsInv, CountsHeld, SaidRight
<1> QED
  BY <1>1, <1>2, <1>3, PTL DEF Spec
=============================================================================

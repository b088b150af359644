---------------------------- MODULE EditLockProofs ----------------------------
(***************************************************************************)
(* What EditLock guarantees for every number of users and requests.        *)
(***************************************************************************)
EXTENDS EditLock, TLAPS

-----------------------------------------------------------------------------
(* Types, and what is known of the users named by the key and by handlers. *)

\* A started request has a sender and a purpose; a handler about to refresh or to
\* delete read its own sender, and only a release deletes.
Started ==
    \A q \in Request :
        /\ pc[q] # "new" => user[q] \in User /\ op[q] \in Op
        /\ pc[q] \in {"extend", "delete"} => seen[q] = user[q]
        /\ pc[q] = "delete" => op[q] = "release"

\* The key, and what a handler read from it, name only users who won the lock.
WinnersOnly ==
    /\ lock # NULL => lock \in had
    /\ \A q \in Request : seen[q] # NULL => seen[q] \in had
    /\ \A q \in Request :
          pc[q] = "publish" /\ op[q] = "draft" => user[q] \in had
    /\ DraftersHadLock

TypeInv == TypeOK /\ Started
Inv == TypeInv /\ WinnersOnly

LEMMA InitInv == Init => Inv
BY DEF Init, Inv, TypeInv, TypeOK, Started, WinnersOnly, DraftersHadLock, Pc

LEMMA NextTypeInv ==
    ASSUME TypeInv, [Next]_vars
    PROVE  TypeInv'
<1> USE NullAssumption DEF TypeInv, TypeOK, Started, key, reqs
<1>1. ASSUME NEW q \in Request, NEW u \in User, NEW o \in Op, Start(q, u, o)
      PROVE  TypeInv'
  <2>1. /\ pc' = [pc EXCEPT ![q] = IF o = "acquire" THEN "setNx" ELSE "get"]
        /\ op' = [op EXCEPT ![q] = o] /\ user' = [user EXCEPT ![q] = u]
        /\ seen' = seen /\ lock' = lock /\ ttl' = ttl /\ granted' = granted
        /\ gone' = gone /\ had' = had /\ heard' = heard /\ calm' = calm
    BY <1>1 DEF Start, Goto
  <2>2. TypeOK'
    BY <2>1 DEF Pc
  <2>3. Started'
    BY <2>1
  <2> QED
    BY <2>2, <2>3
<1>2. ASSUME NEW q \in Request, SetNx(q)
      PROVE  TypeInv'
  <2>1. ASSUME lock' = user[q], ttl' = TRUE, had' = had \cup {user[q]},
               \/ Tell(q, TRUE) /\ Goto(q, "publish")
               \/ UNCHANGED granted /\ Goto(q, "error")
        PROVE  TypeInv'
    BY <1>2, <2>1 DEF SetNx, Goto, Tell, Pc
  <2>2. ASSUME NEW label \in {"get", "error"}, Goto(q, label),
               UNCHANGED <<key, had, granted>>
        PROVE  TypeInv'
    BY <1>2, <2>2 DEF SetNx, Goto, Pc
  <2> QED
    BY <1>2, <2>1, <2>2 DEF SetNx
<1>3. ASSUME NEW q \in Request, GetHolder(q)
      PROVE  TypeInv'
  <2>1. PICK holder \in {lock, NULL} :
           /\ seen' = [seen EXCEPT ![q] = holder]
           /\ Goto(q, AfterGet(q, holder))
    BY <1>3 DEF GetHolder
  <2>2. /\ AfterGet(q, holder) \in Pc \ {"new"}
        /\ AfterGet(q, holder) \in {"extend", "delete"} => holder = user[q]
        /\ AfterGet(q, holder) = "delete" => op[q] = "release"
    BY <1>3 DEF GetHolder, AfterGet, Pc
  <2> QED
    BY <1>3, <2>1, <2>2 DEF GetHolder, Goto
<1>4. ASSUME NEW q \in Request, Extend(q)
      PROVE  TypeInv'
  BY <1>4 DEF Extend, Goto, Tell, Pc
<1>5. ASSUME NEW q \in Request, Delete(q)
      PROVE  TypeInv'
  BY <1>5 DEF Delete, Goto, Tell, Pc
<1>6. ASSUME NEW q \in Request, Publish(q)
      PROVE  TypeInv'
  BY <1>6 DEF Publish, Goto, Pc
<1>7. ASSUME NEW q \in Request, Die(q)
      PROVE  TypeInv'
  BY <1>7 DEF Die, Goto, Pc, Ended
<1>8. CASE Expire
  BY <1>8 DEF Expire
<1>9. ASSUME NEW u \in User, Vanish(u)
      PROVE  TypeInv'
  BY <1>9 DEF Vanish
<1>10. CASE UNCHANGED vars
  BY <1>10 DEF vars
<1> QED
  BY <1>1, <1>2, <1>3, <1>4, <1>5, <1>6, <1>7, <1>8, <1>9, <1>10 DEF Next, Step

LEMMA NextWinnersOnly ==
    ASSUME Inv, [Next]_vars
    PROVE  WinnersOnly'
<1> USE NullAssumption DEF Inv, TypeInv, TypeOK, Started, WinnersOnly,
                           DraftersHadLock, key, reqs
<1>1. ASSUME NEW q \in Request, NEW u \in User, NEW o \in Op, Start(q, u, o)
      PROVE  WinnersOnly'
  <2>1. /\ \A p \in Request : pc'[p] = "publish" => /\ pc[p] = "publish"
                                                   /\ op'[p] = op[p]
                                                   /\ user'[p] = user[p]
        /\ seen' = seen /\ lock' = lock /\ had' = had /\ heard' = heard
    BY <1>1 DEF Start, Goto
  <2> QED
    BY <2>1
<1>2. ASSUME NEW q \in Request, SetNx(q)
      PROVE  WinnersOnly'
  BY <1>2 DEF SetNx, Goto
<1>3. ASSUME NEW q \in Request, GetHolder(q)
      PROVE  WinnersOnly'
  <2>1. PICK holder \in {lock, NULL} :
           /\ seen' = [seen EXCEPT ![q] = holder]
           /\ Goto(q, AfterGet(q, holder))
    BY <1>3 DEF GetHolder
  <2>2. AfterGet(q, holder) # "publish"
    BY <1>3 DEF GetHolder, AfterGet
  <2> QED
    BY <1>3, <2>1, <2>2 DEF GetHolder, Goto
<1>4. ASSUME NEW q \in Request, Extend(q)
      PROVE  WinnersOnly'
  BY <1>4 DEF Extend, Goto
<1>5. ASSUME NEW q \in Request, Delete(q)
      PROVE  WinnersOnly'
  BY <1>5 DEF Delete, Goto
<1>6. ASSUME NEW q \in Request, Publish(q)
      PROVE  WinnersOnly'
  BY <1>6 DEF Publish, Goto
<1>7. ASSUME NEW q \in Request, Die(q)
      PROVE  WinnersOnly'
  BY <1>7 DEF Die, Goto
<1>8. CASE Expire
  BY <1>8 DEF Expire
<1>9. ASSUME NEW u \in User, Vanish(u)
      PROVE  WinnersOnly'
  BY <1>9 DEF Vanish
<1>10. CASE UNCHANGED vars
  BY <1>10 DEF vars
<1> QED
  BY <1>1, <1>2, <1>3, <1>4, <1>5, <1>6, <1>7, <1>8, <1>9, <1>10 DEF Next, Step

\* Every variable keeps its type, and the key never outlives its time to live.
THEOREM TypeCorrect == Spec => []TypeOK
<1>1. TypeInv => TypeOK
  BY DEF TypeInv
<1>2. Init => TypeInv
  BY InitInv DEF Inv
<1> QED
  BY <1>1, <1>2, NextTypeInv, PTL DEF Spec

LEMMA InvHolds == Spec => []Inv
<1>1. Inv /\ [Next]_vars => Inv'
  BY NextTypeInv, NextWinnersOnly DEF Inv
<1> QED
  BY <1>1, InitInv, PTL DEF Spec

\* Drafts reach the team only from users who won the lock at some time.
THEOREM DraftersWon == Spec => []DraftersHadLock
<1>1. Inv => DraftersHadLock
  BY DEF Inv, WinnersOnly
<1> QED
  BY <1>1, InvHolds, PTL

\* The lock passes straight from one user to another only by a late refresh of a
\* user who once won it.
THEOREM NoTakeover == Spec => NoTakeoverByOutsider
<1>1. ASSUME Inv, [Next]_vars
      PROVE  [lock # NULL /\ lock' # NULL /\ lock' # lock => lock' \in had]_vars
  <2> DEFINE Passes == lock # NULL /\ lock' # NULL /\ lock' # lock => lock' \in had
  <2>1. ASSUME NEW q \in Request, SetNx(q)
        PROVE  Passes
    BY <2>1 DEF SetNx, key
  <2>2. ASSUME NEW q \in Request, Extend(q)
        PROVE  Passes
    <3>1. lock' = seen[q] \/ lock' = lock
      BY <2>2 DEF Extend, key
    <3> QED
      BY <1>1, <3>1 DEF Inv, WinnersOnly
  <2>3. ASSUME NEW q \in Request, Delete(q)
        PROVE  Passes
    BY <2>3 DEF Delete, key
  <2>4. ASSUME NEW q \in Request, GetHolder(q) \/ Publish(q) \/ Die(q)
        PROVE  lock' = lock
    BY <2>4 DEF GetHolder, Publish, Die, key
  <2>5. ASSUME NEW q \in Request, NEW u \in User, NEW o \in Op, Start(q, u, o)
        PROVE  lock' = lock
    BY <2>5 DEF Start, key
  <2>6. ASSUME NEW u \in User, Vanish(u)
        PROVE  lock' = lock
    BY <2>6 DEF Vanish, key
  <2>7. ASSUME Expire
        PROVE  Passes
    BY <2>7 DEF Expire
  <2>8. CASE UNCHANGED vars
    BY <2>8
  <2>9. Next => Passes
    BY <2>1, <2>2, <2>3, <2>4, <2>5, <2>6, <2>7 DEF Next, Step
  <2> QED
    BY <1>1, <2>8, <2>9
<1> QED
  BY <1>1, InvHolds, PTL DEF Spec, NoTakeoverByOutsider

-----------------------------------------------------------------------------
(* One editor, while clients and clock are calm.                           *)

\* Calm requests: a user has one at a time, and a handler about to write the key
\* works for the user the key names.
CalmInv ==
    /\ \A p, q \in Request :
          pc[p] \notin Ended /\ pc[q] \notin Ended /\ user[p] = user[q] => p = q
    /\ \A q \in Request : pc[q] \in {"extend", "delete"} => lock = user[q]
    /\ OneEditor

LEMMA NextCalmInv ==
    ASSUME calm, TypeInv, CalmInv, [Next]_vars
    PROVE  CalmInv'
<1> USE NullAssumption DEF TypeInv, TypeOK, Started, CalmInv, OneEditor, Ended, key, reqs
<1>1. ASSUME NEW q \in Request, NEW u \in User, NEW o \in Op, Start(q, u, o)
      PROVE  CalmInv'
  BY <1>1 DEF Start, Goto, InFlight
<1>2. ASSUME NEW q \in Request, SetNx(q)
      PROVE  CalmInv'
  <2>1. ASSUME lock = NULL, lock' = user[q],
               \/ Tell(q, TRUE) /\ Goto(q, "publish")
               \/ UNCHANGED granted /\ Goto(q, "error")
        PROVE  CalmInv'
    BY <1>2, <2>1 DEF SetNx, Goto, Tell
  <2>2. ASSUME NEW label \in {"get", "error"}, Goto(q, label),
               UNCHANGED <<key, had, granted>>
        PROVE  CalmInv'
    BY <1>2, <2>2 DEF SetNx, Goto
  <2> QED
    BY <1>2, <2>1, <2>2 DEF SetNx
<1>3. ASSUME NEW q \in Request, GetHolder(q)
      PROVE  CalmInv'
  <2>1. PICK holder \in {lock, NULL} : Goto(q, AfterGet(q, holder))
    BY <1>3 DEF GetHolder
  <2>2. AfterGet(q, holder) \in {"extend", "delete"} => lock = user[q]
    BY <1>3 DEF GetHolder, AfterGet
  <2> QED
    BY <1>3, <2>1, <2>2 DEF GetHolder, Goto
<1>4. ASSUME NEW q \in Request, Extend(q)
      PROVE  CalmInv'
  BY <1>4 DEF Extend, Goto, Tell
<1>5. ASSUME NEW q \in Request, Delete(q)
      PROVE  CalmInv'
  BY <1>5 DEF Delete, Goto, Tell
<1>6. ASSUME NEW q \in Request, Publish(q)
      PROVE  CalmInv'
  BY <1>6 DEF Publish, Goto
<1>7. ASSUME NEW q \in Request, Die(q)
      PROVE  CalmInv'
  BY <1>7 DEF Die, Goto
<1>8. CASE Expire
  BY <1>8 DEF Expire, InFlight
<1>9. ASSUME NEW u \in User, Vanish(u)
      PROVE  CalmInv'
  BY <1>9 DEF Vanish
<1>10. CASE UNCHANGED vars
  BY <1>10 DEF vars
<1> QED
  BY <1>1, <1>2, <1>3, <1>4, <1>5, <1>6, <1>7, <1>8, <1>9, <1>10 DEF Next, Step

\* A user who sends one request at a time, none of which is overtaken by the expiry
\* of its key, has the lock for as long as it was told so.
THEOREM OneEditorHolds == Spec => []OneEditorWhenCalm
<1> DEFINE CInv == TypeInv /\ (calm => CalmInv)
<1>1. Init => CInv
  <2>1. Init => CalmInv
    BY DEF Init, CalmInv, OneEditor, Ended
  <2> QED
    BY <2>1, InitInv DEF Inv
<1>2. CInv /\ [Next]_vars => CInv'
  <2>1. [Next]_vars => calm' = calm
    BY DEF Next, Step, Start, SetNx, GetHolder, Extend, Delete, Publish, Die, Expire,
       Vanish, vars
  <2> QED
    BY <2>1, NextTypeInv, NextCalmInv
<1>3. CInv => OneEditorWhenCalm
  BY DEF CalmInv, OneEditorWhenCalm
<1> QED
  BY <1>1, <1>2, <1>3, PTL DEF Spec

-----------------------------------------------------------------------------
(* The handlers implement a lease.                                         *)

\* A handler about to show a draft works, when calm, for the user the key names.
DraftsHold ==
    \A q \in Request : pc[q] = "publish" /\ op[q] = "draft" => lock = user[q]

LeaseInv == Inv /\ (calm => CalmInv /\ DraftsHold)

LEMMA CalmStays == [Next]_vars => calm' = calm
BY DEF Next, Step, Start, SetNx, GetHolder, Extend, Delete, Publish, Die, Expire,
   Vanish, vars

\* A draft's key is not lost before the draft is shown: its user has no other
\* request, the key does not expire meanwhile, and nobody else writes it.
LEMMA NextDraftsHold ==
    ASSUME calm, TypeInv, CalmInv, DraftsHold, [Next]_vars
    PROVE  DraftsHold'
<1> USE NullAssumption DEF TypeInv, TypeOK, Started, CalmInv, DraftsHold, Ended, key, reqs
<1>1. ASSUME NEW q \in Request, NEW u \in User, NEW o \in Op, Start(q, u, o)
      PROVE  DraftsHold'
  <2>1. /\ \A p \in Request : pc'[p] = "publish" =>
              pc[p] = "publish" /\ op'[p] = op[p] /\ user'[p] = user[p]
        /\ lock' = lock
    BY <1>1 DEF Start, Goto
  <2> QED
    BY <2>1
<1>2. ASSUME NEW q \in Request, SetNx(q)
      PROVE  DraftsHold'
  <2>1. ASSUME lock = NULL, lock' = user[q]
        PROVE  DraftsHold'
    <3>1. \A p \in Request \ {q} : pc'[p] = pc[p] /\ op'[p] = op[p] /\ user'[p] = user[p]
      BY <1>2 DEF SetNx, Goto
    <3>2. \A p \in Request : ~(pc[p] = "publish" /\ op[p] = "draft")
      BY <2>1
    <3>3. user'[q] = user[q]
      BY <1>2 DEF SetNx
    <3> QED
      BY <2>1, <3>1, <3>2, <3>3
  <2>2. ASSUME NEW label \in {"get", "error"}, Goto(q, label), lock' = lock
        PROVE  DraftsHold'
    BY <1>2, <2>2 DEF SetNx, Goto
  <2> QED
    BY <1>2, <2>1, <2>2 DEF SetNx
<1>3. ASSUME NEW q \in Request, GetHolder(q)
      PROVE  DraftsHold'
  <2>1. PICK holder \in {lock, NULL} : Goto(q, AfterGet(q, holder))
    BY <1>3 DEF GetHolder
  <2>2. AfterGet(q, holder) # "publish"
    BY <1>3 DEF GetHolder, AfterGet
  <2> QED
    BY <1>3, <2>1, <2>2 DEF GetHolder, Goto
<1>4. ASSUME NEW q \in Request, Extend(q)
      PROVE  DraftsHold'
  BY <1>4 DEF Extend, Goto
<1>5. ASSUME NEW q \in Request, Delete(q)
      PROVE  DraftsHold'
  BY <1>5 DEF Delete, Goto
<1>6. ASSUME NEW q \in Request, Publish(q)
      PROVE  DraftsHold'
  BY <1>6 DEF Publish, Goto
<1>7. ASSUME NEW q \in Request, Die(q)
      PROVE  DraftsHold'
  BY <1>7 DEF Die, Goto
<1>8. CASE Expire
  BY <1>8 DEF Expire, InFlight
<1>9. ASSUME NEW u \in User, Vanish(u)
      PROVE  DraftsHold'
  BY <1>9 DEF Vanish
<1>10. CASE UNCHANGED vars
  BY <1>10 DEF vars
<1> QED
  BY <1>1, <1>2, <1>3, <1>4, <1>5, <1>6, <1>7, <1>8, <1>9, <1>10 DEF Next, Step

LEMMA LeaseInvHolds == Spec => []LeaseInv
<1>1. Init => LeaseInv
  BY InitInv DEF LeaseInv, Init, CalmInv, DraftsHold, OneEditor, Ended
<1>2. LeaseInv /\ [Next]_vars => LeaseInv'
  BY CalmStays, NextTypeInv, NextWinnersOnly, NextCalmInv, NextDraftsHold
  DEF LeaseInv, Inv
<1> QED
  BY <1>1, <1>2, PTL DEF Spec

\* Each Redis call that may write is one command of the lease for the user of
\* the request; so is the publication of a draft.
LEMMA NextLease ==
    ASSUME LeaseInv, [Next]_vars
    PROVE  [Lease!Next]_(Lease!vars)
<1> USE DEF LeaseInv, Inv, TypeInv, Started, key, reqs, Lease!vars, Lease!Next
<1>1. ASSUME NEW q \in Request, SetNx(q)
      PROVE  [Lease!Next]_(Lease!vars)
  <2>1. CASE lock = NULL /\ lock' = user[q] /\ had' = had \cup {user[q]}
             /\ (Tell(q, TRUE) \/ UNCHANGED granted)
    BY <1>1, <2>1 DEF SetNx, Tell, Lease!Win
  <2>2. CASE UNCHANGED <<key, had, granted>>
    BY <1>1, <2>2 DEF SetNx
  <2> QED
    BY <1>1, <2>1, <2>2 DEF SetNx
<1>2. ASSUME NEW q \in Request, Extend(q)
      PROVE  Lease!Next
  <2>1. user[q] \in User /\ seen[q] = user[q]
    BY <1>2 DEF Extend
  <2>2. Lease!Entitled(user[q])
    <3>1. user[q] \in had
      BY <2>1, <1>2, NullAssumption DEF Extend, WinnersOnly
    <3>2. calm => lock = user[q]
      BY <1>2 DEF Extend, CalmInv
    <3> QED
      BY <3>1, <3>2 DEF Lease!Entitled
  <2>3. Lease!Renew(user[q])
    BY <1>2, <2>1, <2>2 DEF Extend, Tell, Lease!Renew
  <2> QED
    BY <2>1, <2>3
<1>3. ASSUME NEW q \in Request, Delete(q)
      PROVE  Lease!Next
  <2>1. user[q] \in User
    BY <1>3 DEF Delete
  <2>2. Lease!Entitled(user[q])
    <3>1. user[q] \in had
      BY <2>1, <1>3, NullAssumption DEF Delete, WinnersOnly
    <3>2. calm => lock = user[q]
      BY <1>3 DEF Delete, CalmInv
    <3> QED
      BY <3>1, <3>2 DEF Lease!Entitled
  <2>3. Lease!Release(user[q])
    BY <1>3, <2>2 DEF Delete, Tell, Lease!Release
  <2> QED
    BY <2>1, <2>3
<1>4. ASSUME NEW q \in Request, Publish(q)
      PROVE  [Lease!Next]_(Lease!vars)
  <2>1. CASE op[q] = "draft" /\ heard' = heard \cup {user[q]}
    <3>1. user[q] \in User /\ Lease!Entitled(user[q])
      BY <1>4, <2>1 DEF Publish, WinnersOnly, DraftsHold, Lease!Entitled
    <3>2. Lease!Draft(user[q])
      BY <1>4, <2>1, <3>1 DEF Publish, Lease!Draft
    <3> QED
      BY <3>1, <3>2
  <2>2. CASE UNCHANGED heard
    BY <1>4, <2>2 DEF Publish
  <2> QED
    BY <1>4, <2>1, <2>2 DEF Publish
<1>5. CASE Expire
  BY <1>5 DEF Expire, Lease!Lapse
<1>6. ASSUME NEW q \in Request, GetHolder(q) \/ Die(q)
      PROVE  UNCHANGED Lease!vars
  BY <1>6 DEF GetHolder, Die
<1>7. ASSUME NEW q \in Request, NEW u \in User, NEW o \in Op, Start(q, u, o)
      PROVE  UNCHANGED Lease!vars
  BY <1>7 DEF Start
<1>8. ASSUME NEW u \in User, Vanish(u)
      PROVE  UNCHANGED Lease!vars
  BY <1>8 DEF Vanish
<1>9. CASE UNCHANGED vars
  BY <1>9 DEF vars
<1> QED
  BY <1>1, <1>2, <1>3, <1>4, <1>5, <1>6, <1>7, <1>8, <1>9 DEF Next, Step

\* GET, comparison and SET or DEL amount to one change of a lease, whatever fails or
\* dies; when calm, whoever renews, releases or drafts holds the lock at that moment.
THEOREM HandlersImplementLease == Spec => RefinesLease
<1>1. Init => Lease!Init
  BY DEF Init, Lease!Init
<1>2. LeaseInv /\ [Next]_vars => [Lease!Next]_(Lease!vars)
  BY NextLease
<1> QED
  BY <1>1, <1>2, LeaseInvHolds, PTL DEF Spec, RefinesLease, Lease!Spec
=============================================================================

--------------------------- MODULE RebuildProofs ---------------------------
(***************************************************************************)
(* No change is lost, for any set of kinds and any order of reading them.  *)
(***************************************************************************)
EXTENDS Rebuild, TLAPS

LEMMA LenOrder == Len(ReadOrder) \in Nat
BY ReadOrderAssumption

LEMMA InitIInv == Init => IInv
<1> SUFFICES ASSUME Init PROVE IInv
  OBVIOUS
<1>1. TypeOK
  <2>1. pos \in 1..(Len(ReadOrder) + 1)
    BY LenOrder DEF Init
  <2>2. shown \in [Kinds -> BOOLEAN] /\ got \in [Kinds -> BOOLEAN]
    BY DEF Init
  <2> QED BY <2>1, <2>2 DEF Init, TypeOK
<1>2. NoLostUpdate
  BY DEF Init, NoLostUpdate, LateChangeIsOnItsWay, OnItsWay
<1>3. LateChangeIsOnItsWay
  BY DEF Init, LateChangeIsOnItsWay
<1> QED BY <1>1, <1>2, <1>3 DEF IInv

(* Starting a build makes every kind unread. *)
LEMMA AllUnread ==
    ASSUME pos' = 1
    PROVE  \A k \in Kinds : Unread(k)'
BY ReadOrderAssumption DEF Unread

LEMMA StepIInv == IInv /\ [Next]_vars => IInv'
<1> SUFFICES ASSUME IInv, [Next]_vars PROVE IInv'
  OBVIOUS
<1> USE LenOrder DEF IInv
<1>1. ASSUME NEW k \in Kinds, Change(k) PROVE IInv'
  <2>1. TypeOK'
    BY <1>1 DEF Change, TypeOK
  <2>2. NoLostUpdate' /\ LateChangeIsOnItsWay'
    <3>1. \A j \in Kinds : Unread(j)' <=> Unread(j)
      BY <1>1 DEF Change, Unread
    <3>2. \A j \in Kinds : j # k => shown'[j] = shown[j] /\ got'[j] = got[j]
      BY <1>1 DEF Change, TypeOK
    <3> QED BY <1>1, <3>1, <3>2 DEF Change, NoLostUpdate, LateChangeIsOnItsWay, OnItsWay
  <2> QED BY <2>1, <2>2
<1>2. ASSUME NEW k \in Kinds, Resync(k) PROVE IInv'
  BY <1>2 DEF Resync, TypeOK, NoLostUpdate, LateChangeIsOnItsWay, OnItsWay, Unread
<1>3. ASSUME NEW k \in Kinds, Notify(k) PROVE IInv'
  BY <1>3 DEF Notify, MarkDirty, TypeOK, NoLostUpdate, LateChangeIsOnItsWay, OnItsWay, Unread
<1>4. CASE NotifyOther
  BY <1>4 DEF NotifyOther, MarkDirty, TypeOK, NoLostUpdate, LateChangeIsOnItsWay, OnItsWay, Unread
<1>5. CASE Expire
  BY <1>5 DEF Expire, TypeOK, NoLostUpdate, LateChangeIsOnItsWay, OnItsWay, Unread
<1>6. CASE Cancel
  BY <1>6 DEF Cancel, TypeOK, NoLostUpdate, LateChangeIsOnItsWay, OnItsWay, Unread
<1>7. CASE FirstBuild
  BY <1>7, AllUnread DEF FirstBuild, StartBuild, TypeOK, NoLostUpdate, LateChangeIsOnItsWay, OnItsWay
<1>8. CASE TakeDirty
  BY <1>8 DEF TakeDirty, TypeOK, NoLostUpdate, LateChangeIsOnItsWay, OnItsWay, Unread
<1>9. CASE TimerFires
  BY <1>9, AllUnread DEF TimerFires, StartBuild, TypeOK, NoLostUpdate, LateChangeIsOnItsWay, OnItsWay
<1>10. CASE Read
  <2>1. /\ ReadOrder[pos] \in Kinds /\ pos' = pos + 1 /\ pos \in 1..Len(ReadOrder)
        /\ got' = [got EXCEPT ![ReadOrder[pos]] = TRUE]
        /\ UNCHANGED <<shown, notices, dirty, timer, pc, cancelled, tracked>>
    BY <1>10, ReadOrderAssumption DEF Read, TypeOK
  <2>2. TypeOK'
    BY <1>10, <2>1 DEF Read, TypeOK
  <2>3. \A k \in Kinds : Unread(k) => Unread(k)' \/ k = ReadOrder[pos]
    BY <2>1 DEF Unread
  <2>4. \A k \in Kinds : got[k] \/ k = ReadOrder[pos] => got'[k]
    BY <2>1 DEF TypeOK
  <2>5. ASSUME NEW k \in Kinds PROVE (shown[k] \/ OnItsWay(k))'
    <3>1. pc = "building" /\ pc' = "building" /\ shown' = shown
      BY <1>10 DEF Read
    <3>2. CASE shown[k]
      BY <3>1, <3>2
    <3>3. CASE Unread(k) \/ got[k]
      <4>1. Unread(k)' \/ got'[k]
        BY <2>3, <2>4, <3>3
      <4> QED BY <3>1, <4>1 DEF OnItsWay
    <3>4. CASE k \in notices \/ dirty \/ timer # "off"
      BY <2>1, <3>4 DEF OnItsWay
    <3> QED BY <3>1, <3>2, <3>3, <3>4 DEF NoLostUpdate, LateChangeIsOnItsWay, OnItsWay
  <2>6. NoLostUpdate'
    BY <2>5 DEF NoLostUpdate
  <2>7. ASSUME NEW k \in Kinds
        PROVE (Unread(k) \/ got[k] \/ k \in notices \/ dirty \/ timer # "off")'
    <3>1. Unread(k) \/ got[k] \/ k \in notices \/ dirty \/ timer # "off"
      BY <1>10 DEF Read, LateChangeIsOnItsWay
    <3> QED BY <2>1, <2>3, <2>4, <3>1
  <2>8. LateChangeIsOnItsWay'
    BY <2>7 DEF LateChangeIsOnItsWay
  <2> QED BY <2>2, <2>6, <2>8
<1>11. CASE Publish
  <2>1. TypeOK'
    BY <1>11 DEF Publish, TypeOK
  <2>2. \A k \in Kinds : ~Unread(k)
    BY <1>11 DEF Publish, Unread, TypeOK
  <2>3. ASSUME NEW k \in Kinds PROVE (shown[k] \/ OnItsWay(k))'
    <3>1. got[k] \/ k \in notices \/ dirty \/ timer # "off"
      BY <1>11, <2>2 DEF Publish, LateChangeIsOnItsWay
    <3> QED BY <1>11, <3>1 DEF Publish, OnItsWay
  <2>4. NoLostUpdate'
    BY <2>3 DEF NoLostUpdate
  <2>5. LateChangeIsOnItsWay'
    BY <1>11 DEF Publish, LateChangeIsOnItsWay
  <2> QED BY <2>1, <2>4, <2>5
<1>12. CASE SeeCancelled
  BY <1>12 DEF SeeCancelled, TypeOK, NoLostUpdate, LateChangeIsOnItsWay
<1>13. CASE UNCHANGED vars
  BY <1>13 DEF vars, TypeOK, NoLostUpdate, LateChangeIsOnItsWay, OnItsWay, Unread
<1> QED BY <1>1, <1>2, <1>3, <1>4, <1>5, <1>6, <1>7, <1>8, <1>9, <1>10, <1>11,
           <1>12, <1>13 DEF Next, Collector

(* Type correctness. *)
THEOREM RebuildTypeCorrect == Spec => []TypeOK
<1>1. IInv => TypeOK
  BY DEF IInv
<1> QED BY <1>1, InitIInv, StepIInv, PTL DEF Spec

(* While the published graph lacks a change, something that will lead to
   its being read is pending: NoLostUpdate is inductive with the types. *)
THEOREM RebuildNoLostUpdate == Spec => []NoLostUpdate
<1>1. IInv => NoLostUpdate
  BY DEF IInv
<1> QED BY <1>1, InitIInv, StepIInv, PTL DEF Spec
=============================================================================

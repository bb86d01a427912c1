-------------------------- MODULE MembershipProofs --------------------------
(***************************************************************************)
(* What Membership promises for every set of neighbours and every timeout, *)
(* in Local and in Neighbourhood.                                          *)
(***************************************************************************)
EXTENDS Membership, SequenceTheorems, TLAPS

-----------------------------------------------------------------------------
(* The inductive invariant.                                                *)

\* During its scan the listener has not seen src in the rows behind it, as long
\* as no row has been deleted; once one has, the list stays shorter than the
\* scan's end, so the scan cannot reach its append.
ScanInv ==
  place = "scan" =>
    /\ src \in Neighbour
    /\ 1 <= element /\ element <= length
    /\ Len(visible) <= length
    /\ Len(visible) = length =>
         \A i \in DOMAIN visible : i < element => visible[i].ip # src

\* What the scan has established when it ends without a match.
AppendInv == place = "append" => src \in Neighbour \ Ips

\* The rows a scan has matched are addressed from 1.
RefreshInv == place = "refresh" => 1 <= element

\* The sweep's end is within the list, which only the sweep shortens.
SweepInv == sweep # "idle" => 1 <= member /\ member <= bound /\ bound <= Len(visible)

IInv == TypeOK /\ OneRow /\ ScanInv /\ AppendInv /\ RefreshInv /\ SweepInv

-----------------------------------------------------------------------------
(* What del does to a list.                                                *)

\* Deleting row k moves the rows behind it one place forward.
LEMMA RemoveAtProperties ==
  ASSUME NEW S, NEW s \in Seq(S), NEW k \in 1 .. Len(s)
  PROVE  /\ RemoveAt(s, k) \in Seq(S)
         /\ Len(RemoveAt(s, k)) = Len(s) - 1
         /\ \A i \in 1 .. Len(s) - 1 :
              RemoveAt(s, k)[i] = IF i < k THEN s[i] ELSE s[i + 1]
  <1> DEFINE front == SubSeq(s, 1, k - 1)
             back == SubSeq(s, k + 1, Len(s))
  <1>0. Len(s) \in Nat /\ \A i \in 1 .. Len(s) : s[i] \in S
    BY LenProperties, ElementOfSeq
  <1>1. /\ front \in Seq(S) /\ Len(front) = k - 1
        /\ \A i \in 1 .. k - 1 : front[i] = s[i]
    <2>1. \A i \in 1 .. k - 1 : s[i] \in S
      BY <1>0
    <2> QED BY <1>0, <2>1, SubSeqProperties
  <1>2. /\ back \in Seq(S) /\ Len(back) = Len(s) - k
        /\ \A i \in 1 .. Len(s) - k : back[i] = s[k + i]
    <2>1. \A i \in k + 1 .. Len(s) : s[i] \in S
      BY <1>0
    <2> QED BY <1>0, <2>1, SubSeqProperties
  <1>3. /\ front \o back \in Seq(S)
        /\ Len(front \o back) = Len(s) - 1
        /\ \A i \in 1 .. Len(s) - 1 :
             (front \o back)[i] = IF i <= k - 1 THEN front[i] ELSE back[i - (k - 1)]
    <2> HIDE DEF front, back
    <2>1. /\ front \o back \in Seq(S)
          /\ Len(front \o back) = Len(front) + Len(back)
          /\ \A i \in 1 .. Len(front) + Len(back) :
               (front \o back)[i] = IF i <= Len(front) THEN front[i]
                                    ELSE back[i - Len(front)]
      BY <1>1, <1>2, ConcatProperties
    <2>2. Len(front) + Len(back) = Len(s) - 1
      BY <1>0, <1>1, <1>2
    <2> QED BY <1>1, <2>1, <2>2
  <1>4. RemoveAt(s, k) = front \o back
    BY DEF RemoveAt
  <1>5. \A i \in 1 .. Len(s) - 1 :
          (front \o back)[i] = IF i < k THEN s[i] ELSE s[i + 1]
    <2> HIDE DEF front, back
    <2> TAKE i \in 1 .. Len(s) - 1
    <2>1. CASE i < k
      BY <1>0, <1>1, <1>3, <2>1
    <2>2. CASE ~(i < k)
      <3>1. i - (k - 1) \in 1 .. Len(s) - k /\ k + (i - (k - 1)) = i + 1
        BY <1>0, <2>2
      <3>2. back[i - (k - 1)] = s[i + 1]
        BY <1>2, <3>1
      <3> QED BY <1>0, <1>3, <2>2, <3>2
    <2> QED BY <2>1, <2>2
  <1> QED BY <1>3, <1>4, <1>5

\* A neighbour's row counts as one of Ips wherever it stands.
LEMMA IpsOfRows == \A i \in DOMAIN visible : visible[i].ip \in Ips
  BY DEF Ips

-----------------------------------------------------------------------------
\* The empty list satisfies the invariant.
LEMMA InitIInv == Init => IInv
  <1> SUFFICES ASSUME Init PROVE IInv
    OBVIOUS
  <1> USE MembershipAssumption
  <1>1. visible \in Seq(Row) /\ Len(visible) = 0
    BY DEF Init
  <1>2. TypeOK
    BY <1>1 DEF Init, TypeOK, Age, Places
  <1> QED BY <1>1, <1>2 DEF Init, IInv, OneRow, ScanInv, AppendInv, RefreshInv, SweepInv

\* Receiving a hello starts a scan of the whole list, or none.
LEMMA HearIInv ==
  ASSUME IInv, NEW q \in Neighbour \cup {Self}, Hear(q)
  PROVE  IInv'
  <1> USE MembershipAssumption DEF Hear, sweeper
  <1>1. visible \in Seq(Row) /\ visible' = visible /\ Len(visible) \in Nat
    BY DEF IInv, TypeOK
  <1>2. visible # <<>> => Len(visible) >= 1
    BY <1>1
  <1>3. TypeOK'
    BY <1>1 DEF IInv, TypeOK, Places
  <1>4. ScanInv'
    BY <1>1, <1>2 DEF ScanInv
  <1>5. AppendInv'
    BY <1>1 DEF AppendInv, Ips
  <1> QED BY <1>1, <1>3, <1>4, <1>5 DEF IInv, OneRow, RefreshInv, SweepInv

\* A scan that reaches its end has compared every row of the list.
LEMMA CompareIInv ==
  ASSUME IInv, Compare
  PROVE  IInv'
  <1> USE MembershipAssumption DEF sweeper
  <1>1. UNCHANGED <<visible, src, length>> /\ place = "scan"
    BY DEF Compare
  <1>2. element \in Nat /\ length \in Nat /\ Len(visible) \in Nat
    BY LenProperties DEF IInv, TypeOK
  <1>dom. DOMAIN visible = 1 .. Len(visible)
    BY LenProperties DEF IInv, TypeOK
  <1>3. /\ src \in Neighbour
        /\ 1 <= element /\ element <= length /\ Len(visible) <= length
    BY <1>1 DEF IInv, ScanInv
  <1>4. Len(visible) = length =>
          \A i \in DOMAIN visible : i < element => visible[i].ip # src
    BY <1>1 DEF IInv, ScanInv
  <1>5. TypeOK'
    BY <1>1, <1>2 DEF IInv, TypeOK, Places, Raised, Looped, Compare
  <1>6. ScanInv'
    <2>1. SUFFICES ASSUME place' = "scan" PROVE ScanInv'
      BY DEF ScanInv
    <2>2. /\ visible[element].ip # src
          /\ element # length /\ element' = element + 1
      BY <2>1 DEF Raised, Looped, Compare
    <2>3. \A i \in DOMAIN visible : i < element + 1 => i < element \/ i = element
      BY <1>2, <1>dom
    <2>4. Len(visible) = length =>
            \A i \in DOMAIN visible : i < element' => visible[i].ip # src
      BY <1>4, <2>2, <2>3
    <2>5. 1 <= element' /\ element' <= length
      BY <1>2, <1>3, <2>2
    <2> QED BY <1>1, <1>3, <2>4, <2>5 DEF ScanInv
  <1>7. AppendInv'
    <2>1. SUFFICES ASSUME place' = "append" PROVE (src \in Neighbour \ Ips)'
      BY DEF AppendInv
    <2>2. ~(element > Len(visible)) /\ element = length
      BY <2>1 DEF Raised, Looped, Compare
    <2>3. visible[element].ip # src
      BY <2>1 DEF Raised, Looped, Compare
    <2>4. Len(visible) = length
      BY <1>2, <1>3, <2>2
    <2>5. \A i \in DOMAIN visible : i < element \/ i = element
      BY <1>2, <1>dom, <2>2, <2>4
    <2>6. \A i \in DOMAIN visible : visible[i].ip # src
      BY <1>4, <2>3, <2>4, <2>5
    <2> QED BY <1>1, <1>3, <2>6 DEF Ips
  <1>8. RefreshInv'
    BY <1>3 DEF RefreshInv, Raised, Looped, Compare
  <1> QED BY <1>1, <1>5, <1>6, <1>7, <1>8 DEF IInv, OneRow, SweepInv, Compare

\* Refreshing a timestamp leaves every row its node.
LEMMA RefreshIInv ==
  ASSUME IInv, Refresh
  PROVE  IInv'
  <1> USE MembershipAssumption DEF Refresh, sweeper
  <1>1. /\ visible \in Seq(Row) /\ Len(visible) \in Nat /\ element \in Nat
        /\ DOMAIN visible = 1 .. Len(visible) /\ 1 <= element
    BY DEF IInv, TypeOK, RefreshInv
  <1>2. /\ visible' \in Seq(Row)
        /\ Len(visible') = Len(visible)
        /\ DOMAIN visible' = DOMAIN visible
        /\ \A i \in DOMAIN visible : visible'[i].ip = visible[i].ip
    <2>1. CASE element > Len(visible)
      BY <1>1, <2>1
    <2>2. CASE ~(element > Len(visible))
      <3>1. visible[element] \in Row /\ 0 \in Age
        BY <1>1, <2>2, ElementOfSeq DEF Age
      <3>2. [visible[element] EXCEPT !.heard = 0] \in Row
        BY <3>1 DEF Row
      <3>3. visible' = [visible EXCEPT ![element] = [visible[element] EXCEPT !.heard = 0]]
        BY <2>2
      <3>4. [visible[element] EXCEPT !.heard = 0].ip = visible[element].ip
        BY <3>1 DEF Row
      <3> QED BY <1>1, <2>2, <3>2, <3>3, <3>4, ExceptSeq
    <2> QED BY <2>1, <2>2
  <1>3. place' \notin {"scan", "append", "refresh"} /\ place' \in Places
    BY DEF Raised, Looped, Places
  <1>4. TypeOK'
    BY <1>2, <1>3 DEF IInv, TypeOK
  <1>5. OneRow'
    BY <1>2 DEF IInv, OneRow
  <1> QED BY <1>2, <1>3, <1>4, <1>5
          DEF IInv, ScanInv, AppendInv, RefreshInv, SweepInv

\* The row appended is the first of its node.
LEMMA AppendRowIInv ==
  ASSUME IInv, AppendRow
  PROVE  IInv'
  <1> USE MembershipAssumption DEF AppendRow, sweeper
  <1> DEFINE row == [ip |-> src, heard |-> 0]
  <1>1. /\ visible \in Seq(Row) /\ Len(visible) \in Nat
        /\ src \in Neighbour /\ src \notin Ips
        /\ DOMAIN visible = 1 .. Len(visible)
    BY DEF IInv, TypeOK, AppendInv
  <1>2. row \in Row
    BY <1>1 DEF Row, Age
  <1>3. /\ visible' \in Seq(Row) /\ Len(visible') = Len(visible) + 1
        /\ \A i \in 1 .. Len(visible) : visible'[i] = visible[i]
        /\ visible'[Len(visible) + 1] = row
        /\ DOMAIN visible' = 1 .. Len(visible) + 1
    BY <1>1, <1>2, AppendProperties
  <1>4. place' \notin {"scan", "append", "refresh"} /\ place' \in Places
    BY DEF Looped, Places
  <1>5. TypeOK'
    BY <1>3, <1>4 DEF IInv, TypeOK
  <1>6. OneRow'
    <2>1. \A i \in 1 .. Len(visible) : visible'[i].ip # row.ip
      BY <1>1, <1>3, IpsOfRows
    <2>2. \A i, j \in 1 .. Len(visible) : visible'[i].ip = visible'[j].ip => i = j
      BY <1>1, <1>3 DEF IInv, OneRow
    <2> QED BY <1>1, <1>3, <2>1, <2>2 DEF OneRow
  <1> QED BY <1>1, <1>3, <1>4, <1>5, <1>6
          DEF IInv, ScanInv, AppendInv, RefreshInv, SweepInv, TypeOK

\* A deletion cannot bring two rows of a node together, and leaves a scan under
\* way with a list shorter than it expects.
LEMMA DeleteIInv ==
  ASSUME IInv, Delete
  PROVE  IInv'
  <1> USE MembershipAssumption DEF Delete, listener
  <1>1. /\ visible \in Seq(Row) /\ Len(visible) \in Nat
        /\ member \in 1 .. Len(visible) /\ length \in Nat
    BY LenProperties DEF IInv, TypeOK, SweepInv
  <1>dom. DOMAIN visible = 1 .. Len(visible)
    BY LenProperties DEF IInv, TypeOK
  <1>2. /\ visible' \in Seq(Row) /\ Len(visible') = Len(visible) - 1
        /\ \A i \in 1 .. Len(visible) - 1 :
             visible'[i] = IF i < member THEN visible[i] ELSE visible[i + 1]
    <2>1. visible' = RemoveAt(visible, member)
      BY DEF Delete
    <2> QED BY <1>1, <2>1, RemoveAtProperties
  <1>domAfter. DOMAIN visible' = 1 .. Len(visible) - 1
    BY <1>2, LenProperties
  <1>3. TypeOK'
    BY <1>2 DEF IInv, TypeOK
  <1>4. OneRow'
    <2>1. SUFFICES ASSUME NEW i \in 1 .. Len(visible) - 1, NEW j \in 1 .. Len(visible) - 1,
                          visible'[i].ip = visible'[j].ip
                   PROVE  i = j
      BY <1>domAfter DEF OneRow
    <2> DEFINE at(k) == IF k < member THEN k ELSE k + 1
    <2>2. visible'[i] = visible[at(i)] /\ visible'[j] = visible[at(j)]
      BY <1>2
    <2>3. at(i) \in DOMAIN visible /\ at(j) \in DOMAIN visible
      BY <1>dom, <1>1
    <2>4. at(i) = at(j)
      BY <2>1, <2>2, <2>3 DEF IInv, OneRow
    <2> QED BY <1>1, <2>4
  <1>5. ScanInv'
    <2>1. /\ UNCHANGED <<place, src, element, length>>
          /\ place = "scan" =>
               /\ src \in Neighbour /\ 1 <= element /\ element <= length
               /\ Len(visible) <= length
      BY DEF Delete, IInv, ScanInv
    <2>2. place = "scan" => Len(visible') <= length /\ Len(visible') # length
      BY <1>1, <1>2, <2>1
    <2> QED BY <2>1, <2>2 DEF ScanInv
  <1>6. AppendInv'
    <2>1. Ips' \subseteq Ips
      BY <1>dom, <1>1, <1>2, <1>domAfter DEF Ips
    <2> QED BY <2>1 DEF IInv, AppendInv
  <1> QED BY <1>3, <1>4, <1>5, <1>6 DEF IInv, RefreshInv, SweepInv

\* A sweep starts with the list's length and keeps to it.
LEMMA SweepIInv ==
  ASSUME IInv, StartSweep \/ Check
  PROVE  IInv'
  <1> USE MembershipAssumption DEF listener
  <1>1. /\ visible \in Seq(Row) /\ Len(visible) \in Nat /\ visible' = visible
        /\ member \in Nat /\ bound \in Nat
        /\ UNCHANGED <<place, src, element, length, clock, near, lock, jobs>>
    BY DEF IInv, TypeOK, StartSweep, Check
  <1>2. visible # <<>> => Len(visible) >= 1
    BY <1>1
  <1>3. TypeOK' /\ SweepInv'
    <2>1. CASE StartSweep
      BY <1>1, <1>2, <2>1 DEF IInv, TypeOK, SweepInv, StartSweep
    <2>2. CASE Check
      BY <1>1, <2>2 DEF IInv, TypeOK, SweepInv, Check
    <2> QED BY <2>1, <2>2
  <1> QED BY <1>1, <1>3 DEF IInv, OneRow, ScanInv, AppendInv, RefreshInv, Ips

\* The clock ages the rows and moves none.
LEMMA TickIInv ==
  ASSUME IInv, Tick
  PROVE  IInv'
  <1> USE MembershipAssumption DEF listener, sweeper
  <1>1. /\ visible \in Seq(Row) /\ Len(visible) \in Nat
        /\ DOMAIN visible = 1 .. Len(visible)
        /\ \A i \in DOMAIN visible : visible[i] \in Row
    BY ElementOfSeq DEF IInv, TypeOK
  <1>2. \A age \in Age : Older(age) \in Age
    BY DEF Age, Older
  <1>3. \A i \in DOMAIN visible :
          /\ [visible[i] EXCEPT !.heard = Older(@)] \in Row
          /\ [visible[i] EXCEPT !.heard = Older(@)].ip = visible[i].ip
    BY <1>1, <1>2 DEF Row
  <1>4. /\ visible' \in Seq(Row) /\ Len(visible') = Len(visible)
        /\ DOMAIN visible' = DOMAIN visible
        /\ \A i \in DOMAIN visible : visible'[i].ip = visible[i].ip
    <2>0. visible' = [i \in DOMAIN visible |-> [visible[i] EXCEPT !.heard = Older(@)]]
      BY DEF Tick
    <2>1. visible' \in [1 .. Len(visible) -> Row]
      BY <1>1, <1>3, <2>0
    <2>2. visible' \in Seq(Row)
      BY <1>1, <2>1, SeqDef
    <2>3. DOMAIN visible' = DOMAIN visible
      BY <1>1, <2>1
    <2>4. Len(visible') = Len(visible)
      BY <1>1, <2>2, <2>3, LenProperties
    <2>5. \A i \in DOMAIN visible : visible'[i].ip = visible[i].ip
      BY <1>3, <2>0
    <2> QED BY <2>2, <2>3, <2>4, <2>5
  <1>5. TypeOK'
    BY <1>2, <1>4 DEF IInv, TypeOK, Tick
  <1>6. Ips' = Ips
    BY <1>4 DEF Ips
  <1>7. UNCHANGED <<place, src, element, length, sweep, member, bound>>
    BY DEF Tick
  <1>8. OneRow'
    BY <1>4 DEF IInv, OneRow
  <1>9. ScanInv'
    BY <1>1, <1>4, <1>7 DEF IInv, ScanInv
  <1> QED BY <1>4, <1>5, <1>6, <1>7, <1>8, <1>9
          DEF IInv, AppendInv, RefreshInv, SweepInv

\* The steps that leave the list and both scans alone.
LEMMA OtherIInv ==
  ASSUME IInv,
         \/ HearOwn \/ Load \/ EndRun \/ Shutdown
         \/ \E set \in SUBSET Neighbour : Move(set)
         \/ UNCHANGED vars
  PROVE  IInv'
  <1>1. /\ UNCHANGED <<visible, src, element, length, sweep, member, bound, clock>>
        /\ place' = place \/ place' \in {"recv", "closed", "dead"}
        /\ near' \subseteq Neighbour /\ lock' \in BOOLEAN /\ jobs' \in BOOLEAN
    BY DEF HearOwn, Load, EndRun, Shutdown, Move, vars, listener, sweeper,
           Raised, Looped, IInv, TypeOK
  <1>2. TypeOK'
    BY <1>1 DEF IInv, TypeOK, Places
  <1> QED BY <1>1, <1>2
          DEF IInv, OneRow, ScanInv, AppendInv, RefreshInv, SweepInv, Ips

\* Every step of the node and of its surroundings keeps the invariant.
LEMMA NextIInv == IInv /\ [Next]_vars => IInv'
  BY HearIInv, CompareIInv, RefreshIInv, AppendRowIInv, DeleteIInv, SweepIInv,
     TickIInv, OtherIInv DEF Next, Handle, Sweep

-----------------------------------------------------------------------------
\* The strengthened invariant holds in every behaviour of the node.
THEOREM Invariance == Spec => []IInv
  BY InitIInv, NextIInv, PTL DEF Spec

\* The list, the two scans and the flags keep their types.
THEOREM TypeCorrect == Spec => []TypeOK
  <1>1. IInv => TypeOK
    BY DEF IInv
  <1> QED BY <1>1, Invariance, PTL

\* No neighbour ever has two rows, although the sweep may move rows under the
\* listener's scan at any point of it.
THEOREM OneRowEach == Spec => []OneRow
  <1>1. IInv => OneRow
    BY DEF IInv
  <1> QED BY <1>1, Invariance, PTL

\* The sweep never raises an IndexError.
THEOREM SweepStaysInBounds == Spec => []SweepInBounds
  <1>1. IInv => SweepInBounds
    BY DEF IInv, TypeOK, SweepInv, SweepInBounds
  <1> QED BY <1>1, Invariance, PTL
=============================================================================

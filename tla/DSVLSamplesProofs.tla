------------------------- MODULE DSVLSamplesProofs -------------------------
(***************************************************************************)
(* Proofs about DSVLSamples.  Samples that clients have stay, because the  *)
(* use count of a sample is the number of its holders; with ForceRelease   *)
(* (Forcing # {}) it may be less, so three theorems and the refinement     *)
(* exclude it.  It is never more, and what the clean-up loop skips is at   *)
(* most half: that bounds the samples, with forced releases too.           *)
(***************************************************************************)
EXTENDS DSVLSamples, FiniteSetTheorems, WellFoundedInduction, TLAPS

Holders(n) == {c \in Clients : handle[c] = n}

\* A client has a sample exactly while it uses one.
UsingHolds == \A c \in Clients : pc[c] = "using" <=> handle[c] # None

IInv == TypeOK /\ UsingHolds /\ HeldSamplesLive /\ CountsHolders

-----------------------------------------------------------------------------
(* The clean-up. *)

\* The loop erases only what it may erase.
LEMMA SweptRemovable ==
    ASSUME NEW R PROVE Swept(R) \subseteq R
  BY DEF Swept

\* A held sample has a count above zero and is kept.
LEMMA HeldKept ==
    ASSUME CountsHolders, HeldSamplesLive, NEW c \in Clients, handle[c] # None
    PROVE  handle[c] \in Kept
<1>1. handle[c] \in DOMAIN mb BY DEF HeldSamplesLive
<1>2. c \in {d \in Clients : handle[d] = handle[c]} OBVIOUS
<1>3. IsFiniteSet({d \in Clients : handle[d] = handle[c]})
  BY SamplesAssumption, FS_Subset, {d \in Clients : handle[d] = handle[c]} \subseteq Clients
<1>4. mb[handle[c]] # 0
  BY <1>1, <1>2, <1>3, FS_EmptySet DEF CountsHolders
<1>5. handle[c] \notin Swept(Unused)
  BY <1>4, SweptRemovable DEF Unused
<1> QED BY <1>1, <1>5 DEF Kept

-----------------------------------------------------------------------------
(* Types. *)

LEMMA InitType == Init => TypeOK
<1> SUFFICES ASSUME Init PROVE TypeOK OBVIOUS
<1> USE SamplesAssumption DEF Init
<1>1. DOMAIN mb = {} /\ mb \in [DOMAIN mb -> Nat] OBVIOUS
<1>2. pc \in [Clients -> PCs] BY DEF PCs
<1>3. handle \in [Clients -> Nat \cup {None}] OBVIOUS
<1>4. sample_counter \in Nat /\ m_ESync \in BOOLEAN /\ enabled \in BOOLEAN OBVIOUS
<1> QED BY <1>1, <1>2, <1>3, <1>4 DEF TypeOK

LEMMA TypeStep == TypeOK /\ [Next]_vars => TypeOK'
<1> SUFFICES ASSUME TypeOK, [Next]_vars PROVE TypeOK' OBVIOUS
<1> USE SamplesAssumption DEF TypeOK, PCs
<1>1. CASE SampleCB
  <2>1. Kept \subseteq DOMAIN mb BY DEF Kept
  <2>2. mb' \in [Kept \cup {sample_counter + 1} -> Nat]
    BY <1>1, <2>1 DEF SampleCB, NewEntries
  <2>3. DOMAIN mb' = Kept \cup {sample_counter + 1} BY <2>2
  <2>4. pc' \in [Clients -> PCs] /\ m_ESync' \in BOOLEAN BY <1>1 DEF SampleCB, Signal
  <2> QED BY <1>1, <2>1, <2>2, <2>3, <2>4 DEF SampleCB
<1>2. CASE DisableMemoryBuffer
  <2> DEFINE rest == DOMAIN mb \ Swept(DOMAIN mb)
  <2>1. mb' \in [rest -> Nat] /\ DOMAIN mb' = rest BY <1>2 DEF DisableMemoryBuffer
  <2> HIDE DEF rest
  <2>2. rest \subseteq DOMAIN mb BY DEF rest
  <2> QED BY <1>2, <2>1, <2>2 DEF DisableMemoryBuffer
<1>3. ASSUME NEW c \in Clients, Client(c) \/ WaitForNextSample_Timeout(c) PROVE TypeOK'
  <2>1. CASE WaitForNextSample(c) BY <2>1 DEF WaitForNextSample, Goto
  <2>2. CASE WaitForNextSample_Timeout(c) BY <2>2 DEF WaitForNextSample_Timeout, Goto
  <2>3. CASE WaitForNextSample_Reset(c) BY <2>3 DEF WaitForNextSample_Reset, Goto
  <2>4. CASE CheckoutMemoryBuffer(c) BY <2>4 DEF CheckoutMemoryBuffer, Goto
  <2>5. CASE CheckoutMemoryBuffer_Fails(c) BY <2>5 DEF CheckoutMemoryBuffer_Fails, Goto
  <2>6. CASE CheckinMemoryBuffer(c)
    <3>1. handle[c] \in DOMAIN mb => CountAfter(c) \in Nat BY DEF CountAfter
    <3> QED BY <2>6, <3>1 DEF CheckinMemoryBuffer, Goto
  <2> QED BY <1>3, <2>1, <2>2, <2>3, <2>4, <2>5, <2>6 DEF Client
<1>4. CASE UNCHANGED vars BY <1>4 DEF vars
<1> QED BY <1>1, <1>2, <1>3, <1>4 DEF Next

\* Sample numbers, counts and handles stay what they are declared to be,
\* with any number of clients, forced releases included.
THEOREM TypeCorrect == Spec => []TypeOK
  BY InitType, TypeStep, PTL DEF Spec


-----------------------------------------------------------------------------
(* Who has what. *)

LEMMA InitHolds == Init => UsingHolds /\ HeldSamplesLive /\ CountsHolders
  BY SamplesAssumption DEF Init, UsingHolds, HeldSamplesLive, CountsHolders

LEMMA UsingStep == TypeOK /\ UsingHolds /\ [Next]_vars => UsingHolds'
<1> SUFFICES ASSUME TypeOK, UsingHolds, [Next]_vars PROVE UsingHolds' OBVIOUS
<1> USE SamplesAssumption DEF TypeOK, PCs, UsingHolds
<1>1. CASE SampleCB BY <1>1 DEF SampleCB, Signal
<1>2. CASE DisableMemoryBuffer BY <1>2 DEF DisableMemoryBuffer
<1>3. ASSUME NEW c \in Clients, Client(c) \/ WaitForNextSample_Timeout(c) PROVE UsingHolds'
  <2>1. CASE WaitForNextSample(c) BY <2>1 DEF WaitForNextSample, Goto
  <2>2. CASE WaitForNextSample_Timeout(c) BY <2>2 DEF WaitForNextSample_Timeout, Goto
  <2>3. CASE WaitForNextSample_Reset(c) BY <2>3 DEF WaitForNextSample_Reset, Goto
  <2>4. CASE CheckoutMemoryBuffer(c) BY <2>4 DEF CheckoutMemoryBuffer, Goto
  <2>5. CASE CheckoutMemoryBuffer_Fails(c) BY <2>5 DEF CheckoutMemoryBuffer_Fails, Goto
  <2>6. CASE CheckinMemoryBuffer(c) BY <2>6 DEF CheckinMemoryBuffer, Goto
  <2> QED BY <1>3, <2>1, <2>2, <2>3, <2>4, <2>5, <2>6 DEF Client
<1>4. CASE UNCHANGED vars BY <1>4 DEF vars
<1> QED BY <1>1, <1>2, <1>3, <1>4 DEF Next

\* Finitely many clients hold a sample.
LEMMA HoldersFinite ==
    ASSUME NEW n PROVE IsFiniteSet(Holders(n)) /\ Cardinality(Holders(n)) \in Nat
<1>1. Holders(n) \subseteq Clients BY DEF Holders
<1> QED BY <1>1, SamplesAssumption, FS_Subset, FS_CardinalityType

\* Nobody has the number of a sample that is not in the map.
LEMMA NobodyHolds ==
    ASSUME TypeOK, HeldSamplesLive, NEW n \in Nat, n \notin DOMAIN mb
    PROVE  Cardinality(Holders(n)) = 0
<1>1. Holders(n) = {} BY SamplesAssumption DEF Holders, HeldSamplesLive, TypeOK
<1> QED BY <1>1, FS_EmptySet

\* Check-out and check-in are exact; the clean-up keeps the samples in use.
LEMMA HoldStep == Forcing = {} /\ IInv /\ [Next]_vars => HeldSamplesLive' /\ CountsHolders'
<1> SUFFICES ASSUME Forcing = {}, IInv, [Next]_vars
             PROVE  HeldSamplesLive' /\ CountsHolders'
  OBVIOUS
<1> USE SamplesAssumption
<1> DEFINE Exact == \A n \in DOMAIN mb : mb[n] = Cardinality(Holders(n))
<1>0. Exact BY DEF IInv, CountsHolders, Holders
<1>a. Exact' => CountsHolders' BY DEF CountsHolders, Holders
<1> HIDE DEF Exact
<1>b. ASSUME UNCHANGED <<mb, handle>> PROVE HeldSamplesLive' /\ CountsHolders'
  BY <1>b DEF IInv, HeldSamplesLive, CountsHolders
<1>1. CASE SampleCB
  <2> DEFINE new == sample_counter + 1
  <2>1. handle' = handle /\ mb' = NewEntries BY <1>1 DEF SampleCB
  <2>2. DOMAIN mb' = Kept \cup {new} BY <2>1 DEF NewEntries
  <2>3. HeldSamplesLive'
    BY <2>1, <2>2, HeldKept DEF IInv, HeldSamplesLive
  <2>4. new \in Nat /\ new \notin DOMAIN mb /\ new \notin Kept
    BY DEF IInv, TypeOK, Kept
  <2>5. Cardinality(Holders(new)) = 0 BY <2>4, NobodyHolds DEF IInv
  <2>6. ASSUME NEW n \in DOMAIN mb' PROVE mb'[n] = Cardinality(Holders(n))
    <3>1. CASE n \in Kept
      <4>1. n \in DOMAIN mb /\ mb'[n] = mb[n] BY <3>1, <2>1 DEF Kept, NewEntries
      <4> QED BY <4>1, <1>0 DEF Exact
    <3>2. CASE n = new BY <3>2, <2>1, <2>2, <2>4, <2>5 DEF NewEntries
    <3> QED BY <2>2, <3>1, <3>2
  <2>7. \A n : Holders(n)' = Holders(n) BY <2>1 DEF Holders
  <2>8. Exact' BY <2>6, <2>7 DEF Exact
  <2> QED BY <2>3, <2>8, <1>a
<1>2. CASE DisableMemoryBuffer
  <2> DEFINE rest == DOMAIN mb \ Swept(DOMAIN mb)
  <2>1. handle' = handle /\ mb' = [n \in rest |-> mb[n]] BY <1>2 DEF DisableMemoryBuffer
  <2>2. rest \subseteq DOMAIN mb OBVIOUS
  <2>3. HeldSamplesLive' BY <1>2, <2>1 DEF DisableMemoryBuffer, HeldSamplesLive
  <2>4. \A n : Holders(n)' = Holders(n) BY <2>1 DEF Holders
  <2>5. Exact' BY <2>1, <2>2, <2>4, <1>0 DEF Exact
  <2> QED BY <2>3, <2>5, <1>a
<1>3. ASSUME NEW c \in Clients, Client(c) \/ WaitForNextSample_Timeout(c) PROVE HeldSamplesLive' /\ CountsHolders'
  <2>1. CASE CheckoutMemoryBuffer(c)
    <3>0. PICK s : s = sample_counter OBVIOUS
    <3>1. /\ s \in DOMAIN mb /\ mb' = [mb EXCEPT ![s] = mb[s] + 1]
          /\ handle' = [handle EXCEPT ![c] = s]
      BY <2>1, <3>0 DEF CheckoutMemoryBuffer
    <3>2. handle[c] = None BY <2>1 DEF CheckoutMemoryBuffer, IInv, UsingHolds
    <3>3. DOMAIN mb' = DOMAIN mb BY <3>1
    <3>4. handle \in [Clients -> Nat \cup {None}] /\ s \in Nat BY <3>0 DEF IInv, TypeOK
    <3>5. HeldSamplesLive' BY <3>1, <3>3, <3>4 DEF IInv, HeldSamplesLive
    <3>6. Holders(s)' = Holders(s) \cup {c} /\ c \notin Holders(s)
      BY <3>1, <3>2, <3>4 DEF Holders
    <3>7. Cardinality(Holders(s)') = Cardinality(Holders(s)) + 1
      BY <3>6, FS_AddElement, HoldersFinite
    <3>8. ASSUME NEW n \in DOMAIN mb, n # s PROVE Holders(n)' = Holders(n)
      <4>1. n \in Nat BY DEF IInv, TypeOK
      <4> QED BY <4>1, <3>8, <3>1, <3>2, <3>4 DEF Holders
    <3>9. ASSUME NEW n \in DOMAIN mb' PROVE mb'[n] = Cardinality(Holders(n)')
      <4>1. mb[n] = Cardinality(Holders(n)) /\ mb \in [DOMAIN mb -> Nat]
        BY <3>3, <1>0 DEF Exact, IInv, TypeOK
      <4>2. CASE n = s BY <4>1, <4>2, <3>1, <3>7
      <4>3. CASE n # s BY <4>1, <4>3, <3>1, <3>3, <3>8
      <4> QED BY <4>2, <4>3
    <3>10. Exact' BY <3>9 DEF Exact
    <3> QED BY <3>5, <3>10, <1>a
  <2>2. CASE CheckinMemoryBuffer(c)
    <3>0. PICK s : s = handle[c] OBVIOUS
    <3>1. s # None /\ s \in DOMAIN mb
      BY <2>2, <3>0 DEF CheckinMemoryBuffer, IInv, UsingHolds, HeldSamplesLive
    <3>2. mb' = [mb EXCEPT ![s] = CountAfter(c)] /\ handle' = [handle EXCEPT ![c] = None]
      BY <2>2, <3>0, <3>1 DEF CheckinMemoryBuffer
    <3>3. DOMAIN mb' = DOMAIN mb BY <3>2
    <3>4. /\ handle \in [Clients -> Nat \cup {None}] /\ s \in Nat
          /\ mb \in [DOMAIN mb -> Nat] /\ DOMAIN mb \subseteq Nat
      BY <3>1 DEF IInv, TypeOK
    <3>5. HeldSamplesLive' BY <3>2, <3>3, <3>4 DEF IInv, HeldSamplesLive
    <3>6. Holders(s)' = Holders(s) \ {c} /\ c \in Holders(s)
      BY <3>0, <3>1, <3>2, <3>4 DEF Holders
    <3>7. /\ Cardinality(Holders(s)') = Cardinality(Holders(s)) - 1
          /\ Cardinality(Holders(s)) # 0
      BY <3>6, FS_RemoveElement, FS_EmptySet, HoldersFinite
    <3>8. ASSUME NEW n \in DOMAIN mb, n # s PROVE Holders(n)' = Holders(n)
      BY <3>8, <3>0, <3>2, <3>4 DEF Holders
    <3>9. ASSUME NEW n \in DOMAIN mb' PROVE mb'[n] = Cardinality(Holders(n)')
      <4>1. mb[n] = Cardinality(Holders(n)) BY <3>3, <1>0 DEF Exact
      <4>2. CASE n = s
        <5>1. CountAfter(c) = mb[s] - 1 BY <4>1, <4>2, <3>0, <3>7, HoldersFinite DEF CountAfter
        <5> QED BY <4>1, <4>2, <5>1, <3>1, <3>2, <3>4, <3>7
      <4>3. CASE n # s BY <4>1, <4>3, <3>2, <3>3, <3>8
      <4> QED BY <4>2, <4>3
    <3>10. Exact' BY <3>9 DEF Exact
    <3> QED BY <3>5, <3>10, <1>a
  <2>3. CASE UNCHANGED <<mb, handle>> BY <2>3, <1>b
  <2> QED
    BY <1>3, <2>1, <2>2, <2>3 DEF Client, WaitForNextSample, WaitForNextSample_Timeout,
       WaitForNextSample_Reset, CheckoutMemoryBuffer_Fails
<1>4. CASE UNCHANGED vars BY <1>4, <1>b DEF vars
<1> QED BY <1>1, <1>2, <1>3, <1>4 DEF Next

THEOREM Invariance == Forcing = {} /\ Spec => []IInv
<1>1. Init => IInv BY InitType, InitHolds DEF IInv
<1>2. Forcing = {} /\ IInv /\ [Next]_vars => IInv'
  BY TypeStep, UsingStep, HoldStep DEF IInv
<1>3. CASE Forcing = {}
  <2>1. IInv /\ [Next]_vars => IInv' BY <1>2, <1>3
  <2> QED BY <1>1, <2>1, PTL DEF Spec
<1> QED BY <1>3

\* No sample is released while a client has it: the buffer that a client
\* reads stays valid until it is checked in.
THEOREM SamplesStay == Forcing = {} /\ Spec => []HeldSamplesLive
<1>1. IInv => HeldSamplesLive BY DEF IInv
<1> QED BY <1>1, Invariance, PTL

\* The use count is exact, in whatever order clients check in.
THEOREM CountsExact == Forcing = {} /\ Spec => []CountsHolders
<1>1. IInv => CountsHolders BY DEF IInv
<1> QED BY <1>1, Invariance, PTL

-----------------------------------------------------------------------------
(* The refinement of SamplePool. *)

LEMMA PoolInit == Init => Pool!Init
  BY DEF Init, Pool!Init

LEMMA PoolStep == Forcing = {} /\ IInv /\ [Next]_vars => [Pool!Next]_(Pool!vars)
<1> SUFFICES ASSUME Forcing = {}, IInv, [Next]_vars PROVE [Pool!Next]_(Pool!vars)
  OBVIOUS
<1>a. ASSUME UNCHANGED <<mb, sample_counter, handle>> PROVE UNCHANGED Pool!vars
  BY <1>a DEF Pool!vars
<1>1. CASE SampleCB
  <2>1. Kept \in SUBSET DOMAIN mb /\ DOMAIN mb' = Kept \cup {sample_counter'}
    BY <1>1 DEF SampleCB, NewEntries, Kept
  <2>2. Pool!Held \subseteq Kept BY HeldKept DEF Pool!Held, IInv
  <2>3. Pool!Arrive BY <1>1, <2>1, <2>2 DEF SampleCB, Pool!Arrive
  <2> QED BY <2>3 DEF Pool!Next
<1>2. CASE DisableMemoryBuffer
  <2> DEFINE rest == DOMAIN mb \ Swept(DOMAIN mb)
  <2>1. rest \in SUBSET DOMAIN mb /\ DOMAIN mb' = rest BY <1>2 DEF DisableMemoryBuffer
  <2>2. Pool!Held = {} BY <1>2 DEF DisableMemoryBuffer, Pool!Held
  <2>3. Pool!Drop BY <1>2, <2>1, <2>2 DEF DisableMemoryBuffer, Pool!Drop
  <2> QED BY <2>3 DEF Pool!Next
<1>3. ASSUME NEW c \in Clients, Client(c) \/ WaitForNextSample_Timeout(c) PROVE [Pool!Next]_(Pool!vars)
  <2>1. CASE CheckoutMemoryBuffer(c)
    <3>1. handle[c] = None BY <2>1 DEF CheckoutMemoryBuffer, IInv, UsingHolds
    <3>2. DOMAIN mb' = DOMAIN mb BY <2>1 DEF CheckoutMemoryBuffer
    <3>3. Pool!Take(c) BY <2>1, <3>1, <3>2 DEF CheckoutMemoryBuffer, Pool!Take
    <3> QED BY <3>3 DEF Pool!Next
  <2>2. CASE CheckinMemoryBuffer(c)
    <3>1. handle[c] # None BY <2>2 DEF CheckinMemoryBuffer, IInv, UsingHolds
    <3>2. DOMAIN mb' = DOMAIN mb BY <2>2 DEF CheckinMemoryBuffer
    <3>3. Pool!Return(c) BY <2>2, <3>1, <3>2 DEF CheckinMemoryBuffer, Pool!Return
    <3> QED BY <3>3 DEF Pool!Next
  <2>3. CASE UNCHANGED <<mb, sample_counter, handle>> BY <2>3, <1>a
  <2> QED
    BY <1>3, <2>1, <2>2, <2>3 DEF Client, WaitForNextSample, WaitForNextSample_Timeout,
       WaitForNextSample_Reset, CheckoutMemoryBuffer_Fails
<1>4. CASE UNCHANGED vars BY <1>4, <1>a DEF vars
<1> QED BY <1>1, <1>2, <1>3, <1>4 DEF Next

\* The graph manager is a pool of samples: its counts stand for the pool's
\* knowledge of who has what, whatever the skipping clean-up leaves behind.
THEOREM Implementation == Forcing = {} /\ Spec => ImplementsPool
<1>1. CASE Forcing = {}
  <2>1. IInv /\ [Next]_vars => [Pool!Next]_(Pool!vars) BY <1>1, PoolStep
  <2>2. Spec => []IInv BY <1>1, Invariance
  <2> QED BY <2>1, <2>2, PoolInit, PTL DEF Spec, ImplementsPool, Pool!Spec
<1> QED BY <1>1

-----------------------------------------------------------------------------
(* The newest sample. *)

\* While capturing is on, the last sample that arrived is in the map.
LEMMA NewestStep == TypeOK /\ NewestKept /\ [Next]_vars => NewestKept'
<1> SUFFICES ASSUME TypeOK, NewestKept, [Next]_vars PROVE NewestKept' OBVIOUS
<1>1. CASE SampleCB BY <1>1 DEF SampleCB, NewEntries, NewestKept
<1>2. CASE DisableMemoryBuffer BY <1>2 DEF DisableMemoryBuffer, NewestKept
<1>3. ASSUME NEW c \in Clients, Client(c) \/ WaitForNextSample_Timeout(c) PROVE NewestKept'
  BY <1>3 DEF Client, NewestKept, WaitForNextSample, WaitForNextSample_Timeout,
     WaitForNextSample_Reset, CheckoutMemoryBuffer, CheckoutMemoryBuffer_Fails,
     CheckinMemoryBuffer
<1>4. CASE UNCHANGED vars BY <1>4 DEF vars, NewestKept
<1> QED BY <1>1, <1>2, <1>3, <1>4 DEF Next

\* A check-out fails only before the first sample, "(sample_counter == 0)",
\* and after capturing was switched off.
THEOREM NewestStays == Spec => []NewestKept
<1>1. Init => NewestKept BY DEF Init, NewestKept
<1> QED BY <1>1, TypeCorrect, NewestStep, PTL DEF Spec

-----------------------------------------------------------------------------
(* What the clean-up leaves. *)

LessNat == {p \in Nat \X Nat : p[1] < p[2]}

LEMMA LessNatWF == IsWellFoundedOn(LessNat, Nat)
  BY NatLessThanWellFounded DEF OpToRel, LessNat

\* A non-empty set of numbers below n has a greatest element.
LEMMA GreatestBelow ==
    ASSUME NEW n \in Nat, NEW B, B \subseteq 0..n, B # {}
    PROVE  \E k \in B : \A j \in B : j <= k
<1> DEFINE U == {m \in Nat : \A j \in B : j <= m}
<1>1. U \subseteq Nat /\ n \in U OBVIOUS
<1>2. PICK k \in U : \A m \in U : <<m, k>> \notin LessNat BY <1>1, LessNatWF, WFMin
<1>3. CASE k \in B BY <1>3
<1>4. CASE k \notin B
  <2>1. PICK b \in B : TRUE OBVIOUS
  <2>2. k \in Nat /\ k # 0 BY <1>4, <2>1
  <2>3. k - 1 \in U BY <1>4, <2>2
  <2>4. <<k - 1, k>> \in LessNat BY <2>2 DEF LessNat
  <2> QED BY <1>2, <2>3, <2>4
<1> QED BY <1>3, <1>4

\* The entry before n, and the removable entries directly before n.
IsBefore(k, n) ==
    k \in DOMAIN mb /\ k < n /\ \A j \in DOMAIN mb : j < n => j <= k
Run(R, n) ==
    {k \in DOMAIN mb : k < n /\ \A j \in DOMAIN mb : k <= j /\ j < n => j \in R}

LEMMA RunFinite ==
    ASSUME DOMAIN mb \subseteq Nat, NEW R, NEW n \in Nat
    PROVE  IsFiniteSet(Run(R, n)) /\ Cardinality(Run(R, n)) \in Nat
<1>1. Run(R, n) \subseteq 0..n BY DEF Run
<1>2. IsFiniteSet(0..n) BY FS_Interval
<1> QED BY <1>1, <1>2, FS_Subset, FS_CardinalityType

\* The run before n is one longer than the run before its predecessor, if that
\* may be erased, and empty otherwise.
LEMMA RunStep ==
    ASSUME DOMAIN mb \subseteq Nat, NEW R, NEW n \in Nat, NEW k, IsBefore(k, n)
    PROVE  /\ k \in R => Cardinality(Run(R, n)) = Cardinality(Run(R, k)) + 1
           /\ k \notin R => Cardinality(Run(R, n)) = 0
<1>1. CASE k \in R
  <2>1. Run(R, n) = Run(R, k) \cup {k} /\ k \notin Run(R, k)
    BY <1>1 DEF Run, IsBefore
  <2>2. k \in Nat BY DEF IsBefore
  <2>3. IsFiniteSet(Run(R, k)) BY <2>2, RunFinite
  <2> QED BY <1>1, <2>1, <2>3, FS_AddElement
<1>2. CASE k \notin R
  <2>1. Run(R, n) = {} BY <1>2 DEF Run, IsBefore
  <2> QED BY <1>2, <2>1, FS_EmptySet
<1> QED BY <1>1, <1>2

LEMMA RunFirst ==
    ASSUME DOMAIN mb \subseteq Nat, NEW R, NEW n \in Nat, ~ \E k : IsBefore(k, n)
    PROVE  Cardinality(Run(R, n)) = 0
<1>1. ASSUME NEW r \in Run(R, n) PROVE FALSE
  <2> DEFINE B == {j \in DOMAIN mb : j < n}
  <2>1. B \subseteq 0..n /\ r \in B BY <1>1 DEF Run
  <2>2. PICK k \in B : \A j \in B : j <= k BY <2>1, GreatestBelow
  <2>3. IsBefore(k, n) BY <2>2 DEF IsBefore
  <2> QED BY <2>3
<1> QED BY <1>1, FS_EmptySet

\* The rule of the loop: an entry that may be erased is, unless the entry
\* before it has been.  (The recursion in Swept has a solution: an entry is
\* erased when an even number of removable ones come directly before it.)
LEMMA SweptRule ==
    ASSUME DOMAIN mb \subseteq Nat, NEW R \in SUBSET DOMAIN mb
    PROVE  \A n \in R : n \in Swept(R) <=> \A k \in R : IsBefore(k, n) => k \notin Swept(R)
<1> DEFINE Below(n) == {k \in DOMAIN mb : k < n}
           Solves(g) == g = [n \in Nat |->
                               /\ n \in R
                               /\ \A k \in Below(n) : (\A j \in Below(n) : j <= k) => ~g[k]]
           f == [n \in Nat |-> n \in R /\ Cardinality(Run(R, n)) % 2 = 0]
           h == CHOOSE g : Solves(g)
<1>1. ASSUME NEW n \in R
      PROVE  (Cardinality(Run(R, n)) % 2 = 0) <=> \A k \in R : IsBefore(k, n) => ~f[k]
  <2>1. n \in Nat OBVIOUS
  <2>2. ASSUME NEW k, IsBefore(k, n), k \in R PROVE f[k] <=> Cardinality(Run(R, n)) % 2 # 0
    <3>1. k \in Nat BY <2>2 DEF IsBefore
    <3>2. Cardinality(Run(R, n)) = Cardinality(Run(R, k)) + 1 BY <2>1, <2>2, RunStep
    <3>3. Cardinality(Run(R, k)) \in Nat BY <3>1, RunFinite
    <3>4. Cardinality(Run(R, k)) % 2 = 0 <=> Cardinality(Run(R, n)) % 2 # 0 BY <3>2, <3>3
    <3>5. f[k] <=> Cardinality(Run(R, k)) % 2 = 0 BY <2>2, <3>1
    <3> QED BY <3>4, <3>5
  <2>3. ASSUME NEW k, IsBefore(k, n), k \notin R
        PROVE  Cardinality(Run(R, n)) = 0 /\ \A l : IsBefore(l, n) => l = k
    BY <2>1, <2>3, RunStep DEF IsBefore
  <2>4. CASE \E k \in R : IsBefore(k, n) 
    <3>1. PICK k \in R : IsBefore(k, n) BY <2>4
    <3>2. \A l \in R : IsBefore(l, n) => l = k BY <3>1 DEF IsBefore
    <3> QED BY <2>2, <3>1, <3>2
  <2>5. CASE ~ \E k \in R : IsBefore(k, n) 
    <3>1. Cardinality(Run(R, n)) = 0 BY <2>1, <2>3, <2>5, RunFirst
    <3> HIDE DEF f
    <3> QED BY <2>5, <3>1
  <2> QED BY <2>4, <2>5
<1>2. ASSUME NEW n \in Nat, NEW g
      PROVE  (\A k \in Below(n) : (\A j \in Below(n) : j <= k) => ~g[k])
                <=> \A k : IsBefore(k, n) => ~g[k]
  BY <1>2 DEF IsBefore
<1>3. Solves(f)
  <2> SUFFICES ASSUME NEW n \in Nat
               PROVE  (n \in R /\ Cardinality(Run(R, n)) % 2 = 0)
                        = /\ n \in R
                          /\ \A k \in Below(n) : (\A j \in Below(n) : j <= k) => ~f[k]
    OBVIOUS
  <2>1. ASSUME NEW k, IsBefore(k, n), k \notin R PROVE ~f[k] BY <2>1 DEF IsBefore
  <2>2. (\A k \in R : IsBefore(k, n) => ~f[k]) <=> \A k : IsBefore(k, n) => ~f[k]
    <3> HIDE DEF f
    <3> QED BY <2>1
  <2>3. CASE n \in R
    <3> HIDE DEF f, Below
    <3> QED BY <1>1, <1>2, <2>2, <2>3
  <2>4. CASE n \notin R BY <2>4
  <2> QED BY <2>3, <2>4
<1>4. Solves(h)
  <2> HIDE DEF f, Solves
  <2> QED BY <1>3
<1>5. Swept(R) = {n \in R : h[n]} BY DEF Swept
<1> HIDE DEF h
<1>6. ASSUME NEW n \in R PROVE h[n] <=> \A k : IsBefore(k, n) => ~h[k]
  <2>1. n \in Nat OBVIOUS
  <2>2. h[n] <=> \A k \in Below(n) : (\A j \in Below(n) : j <= k) => ~h[k] BY <1>4, <2>1
  <2> QED BY <1>2, <2>1, <2>2
<1>7. ASSUME NEW k \in DOMAIN mb, h[k] PROVE k \in R BY <1>4, <1>7
<1>8. ASSUME NEW n \in R PROVE (\A k : IsBefore(k, n) => ~h[k]) <=> \A k \in R : IsBefore(k, n) => ~h[k]
  BY <1>7 DEF IsBefore
<1> QED BY <1>5, <1>6, <1>8

\* Of the entries that may be erased at most half are left: before each of them
\* goes one that is erased.
LEMMA SweptHalf ==
    ASSUME IsFiniteSet(DOMAIN mb), DOMAIN mb \subseteq Nat, NEW R \in SUBSET DOMAIN mb
    PROVE  /\ IsFiniteSet(Swept(R)) /\ IsFiniteSet(R \ Swept(R))
           /\ Cardinality(R \ Swept(R)) <= Cardinality(Swept(R))
           /\ Cardinality(Swept(R)) \in Nat /\ Cardinality(R \ Swept(R)) \in Nat
<1> DEFINE E == Swept(R)  L == R \ E
<1>1. E \subseteq R BY DEF Swept
<1>2. IsFiniteSet(E) /\ IsFiniteSet(L) BY <1>1, FS_Subset
<1>3. \A n \in L : \E k \in E : IsBefore(k, n)
  BY SweptRule
<1> HIDE DEF E, L
<1> DEFINE f == [n \in L |-> CHOOSE k \in E : IsBefore(k, n)]
<1>4. \A n \in L : f[n] \in E /\ IsBefore(f[n], n) BY <1>3
<1>5. f \in [L -> E] BY <1>4
<1>6. \A m, n \in L : f[m] = f[n] => m = n
  <2> HIDE DEF f
  <2>1. L \subseteq DOMAIN mb /\ L \subseteq Nat BY DEF L
  <2> SUFFICES ASSUME NEW m \in L, NEW n \in L, f[m] = f[n] PROVE m = n OBVIOUS
  <2>2. IsBefore(f[m], m) /\ IsBefore(f[m], n) BY <1>4
  <2>3. m \in Nat /\ n \in Nat /\ m \in DOMAIN mb /\ n \in DOMAIN mb BY <2>1
  <2>4. ~(m < n) /\ ~(n < m) BY <2>2, <2>3 DEF IsBefore
  <2> QED BY <2>3, <2>4
<1>7. IsInjective(f) BY <1>5, <1>6 DEF IsInjective
<1>8. f \in Injection(L, E) BY <1>5, <1>6 DEF Injection, IsInjective
<1>9. Cardinality(L) <= Cardinality(E) BY <1>2, <1>8, FS_Injection DEF ExistsInjection
<1> QED BY <1>2, <1>9, FS_CardinalityType DEF E, L

\* When k entries are in use, the clean-up leaves no more than the mean of k
\* and the number of entries.
LEMMA KeptBound ==
    ASSUME IsFiniteSet(DOMAIN mb), DOMAIN mb \subseteq Nat
    PROVE  /\ IsFiniteSet(Kept) /\ Cardinality(Kept) \in Nat
           /\ Cardinality(DOMAIN mb \ Unused) \in Nat /\ Cardinality(DOMAIN mb) \in Nat
           /\ 2 * Cardinality(Kept) <= Cardinality(DOMAIN mb \ Unused) + Cardinality(DOMAIN mb)
<1> DEFINE E == Swept(Unused)  L == Unused \ E  H == DOMAIN mb \ Unused
<1>1. Unused \in SUBSET DOMAIN mb BY DEF Unused
<1>2. E \subseteq Unused BY DEF Swept
<1>3. /\ IsFiniteSet(E) /\ IsFiniteSet(L) /\ Cardinality(L) <= Cardinality(E)
      /\ Cardinality(E) \in Nat /\ Cardinality(L) \in Nat
  BY <1>1, SweptHalf
<1> HIDE DEF E
<1>4. IsFiniteSet(H) /\ Cardinality(H) \in Nat BY FS_Subset, FS_CardinalityType
<1>5. Kept = H \cup L /\ H \cap L = {} BY <1>1, <1>2 DEF Kept, E
<1>6. DOMAIN mb = (H \cup L) \cup E /\ (H \cup L) \cap E = {} BY <1>1, <1>2
<1> HIDE DEF H, L
<1>7. /\ IsFiniteSet(H \cup L)
      /\ Cardinality(H \cup L) = Cardinality(H) + Cardinality(L)
  BY <1>3, <1>4, <1>5, FS_Union, FS_EmptySet
<1>8. Cardinality(DOMAIN mb) = Cardinality(H \cup L) + Cardinality(E)
  <2>1. Cardinality((H \cup L) \cup E) = Cardinality(H \cup L) + Cardinality(E) - 0
    BY <1>3, <1>6, <1>7, FS_Union, FS_EmptySet
  <2> QED BY <1>3, <1>4, <1>6, <1>7, <2>1
<1> QED BY <1>3, <1>4, <1>5, <1>7, <1>8 DEF H

-----------------------------------------------------------------------------
(* The allocator never runs out, with forced releases too. *)

\* A count is not above the number of holders; numbers handed out have arrived;
\* and there are not more samples than clients, but for one.
CountsBounded == \A n \in DOMAIN mb : mb[n] <= Cardinality(Holders(n))
HandlesOld == \A c \in Clients : handle[c] # None => handle[c] \in 1..sample_counter
FewSamples ==
    IsFiniteSet(DOMAIN mb) /\ Cardinality(DOMAIN mb) <= Cardinality(Clients) + 1

BInv == TypeOK /\ UsingHolds /\ CountsBounded /\ HandlesOld /\ FewSamples

\* Each sample with a count has a holder of its own.
LEMMA UsedBound ==
    ASSUME TypeOK, CountsBounded, FewSamples
    PROVE  Cardinality(DOMAIN mb \ Unused) <= Cardinality(Clients)
<1> DEFINE H == DOMAIN mb \ Unused
           f == [n \in H |-> CHOOSE c \in Clients : handle[c] = n]
<1>1. ASSUME NEW n \in H PROVE \E c \in Clients : handle[c] = n
  <2>1. n \in DOMAIN mb /\ mb[n] \in Nat /\ mb[n] # 0 BY <1>1 DEF Unused, TypeOK
  <2>2. Cardinality(Holders(n)) # 0 BY <2>1, HoldersFinite DEF CountsBounded
  <2>3. Holders(n) # {} BY <2>2, FS_EmptySet
  <2> QED BY <2>3 DEF Holders
<1> HIDE DEF H
<1>2. \A n \in H : f[n] \in Clients /\ handle[f[n]] = n BY <1>1
<1>3. f \in [H -> Clients] BY <1>2
<1>4. \A m, n \in H : f[m] = f[n] => m = n
  <2> HIDE DEF f
  <2> QED BY <1>2
<1>5. f \in Injection(H, Clients) BY <1>3, <1>4 DEF Injection, IsInjective
<1>6. IsFiniteSet(H) BY FS_Subset DEF H, FewSamples
<1> QED BY <1>5, <1>6, SamplesAssumption, FS_Injection DEF H, ExistsInjection

LEMMA SampleBound == BInv /\ SampleCB => FewSamples' /\ CountsBounded'
<1> SUFFICES ASSUME BInv, SampleCB PROVE FewSamples' /\ CountsBounded' OBVIOUS
<1> DEFINE new == sample_counter + 1
<1>1. DOMAIN mb \subseteq Nat /\ IsFiniteSet(DOMAIN mb) BY DEF BInv, TypeOK, FewSamples
<1>2. mb' = NewEntries /\ handle' = handle BY DEF SampleCB
<1>3. DOMAIN mb' = Kept \cup {new} BY <1>2 DEF NewEntries
<1>4. new \notin Kept BY DEF Kept, BInv, TypeOK
<1>5. IsFiniteSet(Kept \cup {new}) /\ Cardinality(Kept \cup {new}) = Cardinality(Kept) + 1
  BY <1>1, <1>4, KeptBound, FS_AddElement
<1>6. Cardinality(Clients) \in Nat BY SamplesAssumption, FS_CardinalityType
<1>7. Cardinality(Kept) <= Cardinality(Clients)
  BY <1>1, <1>6, KeptBound, UsedBound DEF BInv, FewSamples
<1>8. FewSamples' BY <1>3, <1>5, <1>6, <1>7, KeptBound, <1>1 DEF FewSamples
<1>9. ASSUME NEW n \in Kept \cup {new} PROVE mb'[n] <= Cardinality(Holders(n))
  <2>1. Cardinality(Holders(n)) \in Nat BY HoldersFinite
  <2>2. CASE n \in Kept
    <3>1. mb'[n] = mb[n] /\ n \in DOMAIN mb BY <1>2, <2>2 DEF NewEntries, Kept
    <3> QED BY <3>1 DEF BInv, CountsBounded
  <2>3. CASE n = new BY <1>2, <1>4, <2>1, <2>3 DEF NewEntries
  <2> QED BY <2>2, <2>3
<1>10. \A n : Holders(n)' = Holders(n) BY <1>2 DEF Holders
<1>11. CountsBounded' BY <1>3, <1>9, <1>10 DEF CountsBounded
<1> QED BY <1>8, <1>11

LEMMA ClientBound ==
    ASSUME BInv, NEW c \in Clients, Client(c) \/ WaitForNextSample_Timeout(c)
    PROVE  FewSamples' /\ CountsBounded' /\ HandlesOld'
<1> USE SamplesAssumption
<1>0. ASSUME UNCHANGED <<mb, handle>> PROVE CountsBounded'
  BY <1>0 DEF BInv, CountsBounded, Holders
<1>1. CASE CheckoutMemoryBuffer(c)
  <2>0. PICK s : s = sample_counter OBVIOUS
  <2>1. /\ s \in DOMAIN mb /\ mb' = [mb EXCEPT ![s] = mb[s] + 1]
        /\ handle' = [handle EXCEPT ![c] = s] /\ sample_counter' = sample_counter
    BY <1>1, <2>0 DEF CheckoutMemoryBuffer
  <2>2. handle[c] = None BY <1>1 DEF CheckoutMemoryBuffer, BInv, UsingHolds
  <2>3. DOMAIN mb' = DOMAIN mb BY <2>1
  <2>4. /\ handle \in [Clients -> Nat \cup {None}] /\ s \in Nat
        /\ DOMAIN mb \subseteq 1..s /\ mb \in [DOMAIN mb -> Nat]
    BY <2>0 DEF BInv, TypeOK
  <2>5. FewSamples' BY <2>3 DEF BInv, FewSamples
  <2>6. HandlesOld' BY <2>0, <2>1, <2>4 DEF BInv, HandlesOld
  <2>7. Holders(s)' = Holders(s) \cup {c} /\ c \notin Holders(s)
    BY <2>1, <2>2, <2>4 DEF Holders
  <2>8. Cardinality(Holders(s)') = Cardinality(Holders(s)) + 1
    BY <2>7, FS_AddElement, HoldersFinite
  <2>9. ASSUME NEW n \in DOMAIN mb, n # s PROVE Holders(n)' = Holders(n)
    <3>1. n \in Nat BY <2>4
    <3> QED BY <3>1, <2>9, <2>1, <2>2, <2>4 DEF Holders
  <2>10. ASSUME NEW n \in DOMAIN mb PROVE mb'[n] <= Cardinality(Holders(n)')
    <3>1. mb[n] <= Cardinality(Holders(n)) /\ mb[n] \in Nat
      BY <2>4 DEF BInv, CountsBounded
    <3>2. CASE n = s BY <3>1, <3>2, <2>1, <2>8, HoldersFinite
    <3>3. CASE n # s BY <3>1, <3>3, <2>1, <2>9
    <3> QED BY <3>2, <3>3
  <2>11. CountsBounded' BY <2>3, <2>10 DEF CountsBounded
  <2> QED BY <2>5, <2>6, <2>11
<1>2. CASE CheckinMemoryBuffer(c)
  <2>0. PICK s : s = handle[c] OBVIOUS
  <2>1. /\ handle' = [handle EXCEPT ![c] = None] /\ sample_counter' = sample_counter
        /\ mb' = IF s \in DOMAIN mb THEN [mb EXCEPT ![s] = CountAfter(c)] ELSE mb
    BY <1>2, <2>0 DEF CheckinMemoryBuffer
  <2>2. s # None BY <1>2, <2>0 DEF CheckinMemoryBuffer, BInv, UsingHolds
  <2>3. DOMAIN mb' = DOMAIN mb BY <2>1
  <2>4. /\ handle \in [Clients -> Nat \cup {None}]
        /\ mb \in [DOMAIN mb -> Nat] /\ DOMAIN mb \subseteq Nat
    BY DEF BInv, TypeOK
  <2>5. FewSamples' BY <2>3 DEF BInv, FewSamples
  <2>6. HandlesOld' BY <2>1, <2>4 DEF BInv, HandlesOld
  <2>7. Holders(s)' = Holders(s) \ {c} /\ c \in Holders(s)
    BY <2>0, <2>1, <2>2, <2>4 DEF Holders
  <2>8. /\ Cardinality(Holders(s)') = Cardinality(Holders(s)) - 1
        /\ Cardinality(Holders(s)) # 0
    BY <2>7, FS_RemoveElement, FS_EmptySet, HoldersFinite
  <2>9. ASSUME NEW n \in DOMAIN mb, n # s PROVE Holders(n)' = Holders(n)
    <3>1. n \in Nat BY <2>4
    <3> QED BY <3>1, <2>9, <2>0, <2>1, <2>4 DEF Holders
  <2>10. ASSUME NEW n \in DOMAIN mb PROVE mb'[n] <= Cardinality(Holders(n)')
    <3>1. mb[n] <= Cardinality(Holders(n)) /\ mb[n] \in Nat
      BY <2>4 DEF BInv, CountsBounded
    <3>2. CASE n = s
      <4>1. CountAfter(c) = 0 \/ (mb[s] # 0 /\ CountAfter(c) = mb[s] - 1)
        BY <2>0 DEF CountAfter
      <4>2. mb'[s] = CountAfter(c) BY <3>2, <2>1
      <4> QED BY <3>1, <3>2, <4>1, <4>2, <2>8, HoldersFinite
    <3>3. CASE n # s BY <3>1, <3>3, <2>1, <2>9
    <3> QED BY <3>2, <3>3
  <2>11. CountsBounded' BY <2>3, <2>10 DEF CountsBounded
  <2> QED BY <2>5, <2>6, <2>11
<1>3. CASE UNCHANGED <<mb, handle, sample_counter>>
  BY <1>0, <1>3 DEF BInv, FewSamples, HandlesOld
<1> QED
  BY <1>1, <1>2, <1>3 DEF Client, WaitForNextSample, WaitForNextSample_Timeout,
     WaitForNextSample_Reset, CheckoutMemoryBuffer_Fails

LEMMA DisableBound == BInv /\ DisableMemoryBuffer => FewSamples' /\ CountsBounded'
<1> SUFFICES ASSUME BInv, DisableMemoryBuffer PROVE FewSamples' /\ CountsBounded' OBVIOUS
<1> DEFINE rest == DOMAIN mb \ Swept(DOMAIN mb)
<1>1. handle' = handle /\ mb' = [n \in rest |-> mb[n]] BY DEF DisableMemoryBuffer
<1>2. rest \subseteq DOMAIN mb /\ DOMAIN mb' = rest BY <1>1
<1>3. IsFiniteSet(rest) /\ Cardinality(rest) <= Cardinality(DOMAIN mb)
  BY <1>2, FS_Subset DEF BInv, FewSamples
<1> HIDE DEF rest
<1>4. /\ Cardinality(Clients) \in Nat /\ Cardinality(rest) \in Nat
      /\ Cardinality(DOMAIN mb) \in Nat
  BY <1>3, SamplesAssumption, FS_CardinalityType DEF BInv, FewSamples
<1>5. FewSamples' BY <1>2, <1>3, <1>4 DEF BInv, FewSamples
<1>6. \A n : Holders(n)' = Holders(n) BY <1>1 DEF Holders
<1>7. CountsBounded' BY <1>1, <1>2, <1>6 DEF BInv, CountsBounded
<1> QED BY <1>5, <1>7

LEMMA BoundStep == BInv /\ [Next]_vars => BInv'
<1> SUFFICES ASSUME BInv, [Next]_vars PROVE BInv' OBVIOUS
<1>1. TypeOK' /\ UsingHolds' BY TypeStep, UsingStep DEF BInv
<1>2. CASE SampleCB
  <2>1. HandlesOld' BY <1>2 DEF SampleCB, BInv, HandlesOld, TypeOK
  <2> QED BY <1>1, <1>2, <2>1, SampleBound DEF BInv
<1>3. CASE DisableMemoryBuffer
  <2>1. HandlesOld' BY <1>3 DEF DisableMemoryBuffer, BInv, HandlesOld
  <2> QED BY <1>1, <1>3, <2>1, DisableBound DEF BInv
<1>4. ASSUME NEW c \in Clients, Client(c) \/ WaitForNextSample_Timeout(c) PROVE BInv'
  BY <1>1, <1>4, ClientBound DEF BInv
<1>5. CASE UNCHANGED vars
  BY <1>1, <1>5 DEF vars, BInv, FewSamples, HandlesOld, CountsBounded, Holders
<1> QED BY <1>2, <1>3, <1>4, <1>5 DEF Next

LEMMA InitBound == Init => BInv
<1> SUFFICES ASSUME Init PROVE BInv OBVIOUS
<1>1. TypeOK /\ UsingHolds BY InitType, InitHolds
<1>2. DOMAIN mb = {} BY DEF Init
<1>3. Cardinality(Clients) \in Nat BY SamplesAssumption, FS_CardinalityType
<1>4. FewSamples BY <1>2, <1>3, FS_EmptySet DEF FewSamples
<1>5. CountsBounded /\ HandlesOld BY <1>2 DEF Init, CountsBounded, HandlesOld
<1> QED BY <1>1, <1>4, <1>5 DEF BInv

\* However clients interleave, the samples in the map are at most one more than
\* the clients: the loop that skips entries still removes enough of them.
THEOREM SamplesBounded == Spec => []FewSamples
<1>1. BInv => FewSamples BY DEF BInv
<1> QED BY <1>1, InitBound, BoundStep, PTL DEF Spec

\* The allocator that the constructor asks for, with
\* MIN_ALLOCATOR_BUFFERS_PER_CLIENT = 3 buffers for each client, is never
\* used up: capturing cannot stall on samples that nobody uses.
THEOREM NeverStalls ==
    Clients # {} /\ Buffers >= 3 * Cardinality(Clients) /\ Spec => []CaptureNeverStalls
<1>1. CASE Clients # {} /\ Buffers >= 3 * Cardinality(Clients)
  <2>1. Cardinality(Clients) \in Nat /\ Cardinality(Clients) # 0
    BY <1>1, SamplesAssumption, FS_CardinalityType, FS_EmptySet
  <2>2. ASSUME FewSamples PROVE CaptureNeverStalls
    <3>1. Cardinality(DOMAIN mb) \in Nat BY <2>2, FS_CardinalityType DEF FewSamples
    <3> QED BY <1>1, <2>1, <2>2, <3>1, SamplesAssumption DEF FewSamples, CaptureNeverStalls
  <2>3. FewSamples => CaptureNeverStalls BY <2>2
  <2> QED BY <2>3, SamplesBounded, PTL
<1> QED BY <1>1
=============================================================================

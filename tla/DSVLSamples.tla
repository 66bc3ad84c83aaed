---------------------------- MODULE DSVLSamples ----------------------------
(***************************************************************************)
(* The samples of DSVL's graph manager: the capture thread brings them in  *)
(* (SampleCB), the application's threads wait for the next one             *)
(* (WaitForNextSample), check the newest one out and in again.  SampleCB,  *)
(* CheckoutMemoryBuffer, CheckinMemoryBuffer and DisableMemoryBuffer hold  *)
(* m_CSec and are one step each; the wait and the ResetEvent after it hold *)
(* no lock.                                                                *)
(***************************************************************************)
EXTENDS Naturals, FiniteSets

CONSTANTS
    Clients,       \* the threads that use samples
    Forcing,       \* those that give them back with ForceRelease
    Timeouts,      \* whether waits have a timeout
    Buffers,       \* m_currentAllocatorBuffers
    MaxSamples,    \* bound of the model: samples that arrive
    None

ASSUME SamplesAssumption ==
    /\ IsFiniteSet(Clients) /\ Forcing \subseteq Clients
    /\ Timeouts \in BOOLEAN
    /\ Buffers \in Nat /\ MaxSamples \in Nat
    /\ None \notin Nat

VARIABLES
    mb,              \* std::map mb, from sample numbers to use counts
    sample_counter,
    m_ESync,         \* the manual-reset event
    enabled,         \* the callback is set
    pc,              \* where each client is
    handle           \* MemoryBufferHandle::n of each client, or None

vars == <<mb, sample_counter, m_ESync, enabled, pc, handle>>

PCs == {"idle", "wait", "woken", "timed_out", "checkout", "using"}

TypeOK ==
    /\ sample_counter \in Nat
    /\ DOMAIN mb \subseteq 1..sample_counter
    /\ mb \in [DOMAIN mb -> Nat]
    /\ m_ESync \in BOOLEAN /\ enabled \in BOOLEAN
    /\ pc \in [Clients -> PCs]
    /\ handle \in [Clients -> Nat \cup {None}]

\* EnableMemoryBuffer has been called.
Init ==
    /\ mb = [n \in {} |-> 0] /\ sample_counter = 0
    /\ m_ESync = FALSE /\ enabled = TRUE
    /\ pc = [c \in Clients |-> "idle"]
    /\ handle = [c \in Clients |-> None]

-----------------------------------------------------------------------------
(* The capture thread. *)

\* The loop erases an entry, goes on to the one after it and increments the
\* iterator once more: the entry after an erased one is not looked at.
\* (Incrementing end() stays at end() in the library the project is built
\* with.)  Removable says which entries the loop erases when it sees them.
Swept(Removable) ==
    LET Below(n) == {k \in DOMAIN mb : k < n}
        Erased[n \in Nat] ==
          /\ n \in Removable
          /\ \A k \in Below(n) : (\A j \in Below(n) : j <= k) => ~Erased[k]
    IN  {n \in Removable : Erased[n]}

Unused == {n \in DOMAIN mb : mb[n] = 0}

\* Faulty: nothing is cleaned up.
Kept_All == DOMAIN mb

\* Faulty: by the age of a sample, not by its use.
Kept_Newest == {n \in DOMAIN mb : n = sample_counter}

\* The entries left after the clean-up.
Kept == DOMAIN mb \ Swept(Unused)

NewEntries == [n \in Kept \cup {sample_counter + 1} |-> IF n \in Kept THEN mb[n] ELSE 0]

\* Faulty: without SetEvent.
Signal_None ==
    /\ m_ESync' = m_ESync
    /\ pc' = pc

\* SetEvent releases all that wait and stays set.
Signal ==
    /\ m_ESync' = TRUE
    /\ pc' = [c \in Clients |-> IF pc[c] = "wait" THEN "woken" ELSE pc[c]]

\* A sample arrives: it needs one of the allocator's buffers.
SampleCB ==
    /\ enabled /\ sample_counter < MaxSamples
    /\ Cardinality(DOMAIN mb) < Buffers
    /\ mb' = NewEntries
    /\ sample_counter' = sample_counter + 1
    /\ Signal
    /\ UNCHANGED <<enabled, handle>>

\* The application switches capturing off when it has no sample checked out.
DisableMemoryBuffer ==
    /\ enabled /\ \A c \in Clients : handle[c] = None
    /\ mb' = LET rest == DOMAIN mb \ Swept(DOMAIN mb) IN [n \in rest |-> mb[n]]
    /\ enabled' = FALSE
    /\ UNCHANGED <<sample_counter, m_ESync, pc, handle>>

-----------------------------------------------------------------------------
(* A client. *)

Goto(c, l) == pc' = [pc EXCEPT ![c] = l]

WaitForNextSample(c) ==
    /\ pc[c] = "idle" /\ Goto(c, IF m_ESync THEN "woken" ELSE "wait")
    /\ UNCHANGED <<mb, sample_counter, m_ESync, enabled, handle>>

\* The wait times out; or a WM_QUIT ends it, without a reset of the event.
WaitForNextSample_Timeout(c) ==
    /\ pc[c] = "wait" /\ Timeouts
    /\ Goto(c, "timed_out") \/ Goto(c, "idle")
    /\ UNCHANGED <<mb, sample_counter, m_ESync, enabled, handle>>

\* ResetEvent, in either case; after a timeout the caller has no sample.
WaitForNextSample_Reset(c) ==
    /\ \/ pc[c] = "woken" /\ Goto(c, "checkout")
       \/ pc[c] = "timed_out" /\ Goto(c, "idle")
    /\ m_ESync' = FALSE
    /\ UNCHANGED <<mb, sample_counter, enabled, handle>>

\* Faulty: the sample is handed out without use_count++.
CheckoutMemoryBuffer_Uncounted(c) ==
    /\ pc[c] = "checkout" /\ sample_counter \in DOMAIN mb
    /\ handle' = [handle EXCEPT ![c] = sample_counter]
    /\ Goto(c, "using")
    /\ UNCHANGED <<mb, sample_counter, m_ESync, enabled>>

CheckoutMemoryBuffer(c) ==
    /\ pc[c] = "checkout" /\ sample_counter \in DOMAIN mb
    /\ mb' = [mb EXCEPT ![sample_counter] = @ + 1]
    /\ handle' = [handle EXCEPT ![c] = sample_counter]
    /\ Goto(c, "using")
    /\ UNCHANGED <<sample_counter, m_ESync, enabled>>

\* return(E_INVALIDARG)
CheckoutMemoryBuffer_Fails(c) ==
    /\ pc[c] = "checkout" /\ sample_counter \notin DOMAIN mb
    /\ Goto(c, "idle")
    /\ UNCHANGED <<mb, sample_counter, m_ESync, enabled, handle>>

\* Faulty: the count is cleared by every check-in.
CountAfter_Cleared(c) == 0

CountAfter(c) ==
    IF c \in Forcing \/ mb[handle[c]] = 0 THEN 0 ELSE mb[handle[c]] - 1

CheckinMemoryBuffer(c) ==
    /\ pc[c] = "using"
    /\ mb' = IF handle[c] \in DOMAIN mb THEN [mb EXCEPT ![handle[c]] = CountAfter(c)] ELSE mb
    /\ handle' = [handle EXCEPT ![c] = None]
    /\ Goto(c, "idle")
    /\ UNCHANGED <<sample_counter, m_ESync, enabled>>

Client(c) ==
    \/ WaitForNextSample(c) \/ WaitForNextSample_Reset(c)
    \/ CheckoutMemoryBuffer(c) \/ CheckoutMemoryBuffer_Fails(c) \/ CheckinMemoryBuffer(c)

Next ==
    \/ SampleCB \/ DisableMemoryBuffer
    \/ \E c \in Clients : Client(c) \/ WaitForNextSample_Timeout(c)

Spec == Init /\ [][Next]_vars

\* The camera delivers while it has a buffer, and clients go on; no wait has
\* to time out.
FairSpec == Spec /\ WF_vars(SampleCB) /\ \A c \in Clients : WF_vars(Client(c))

-----------------------------------------------------------------------------
(* Properties. *)

\* "samples get released only if there are no active instances": a sample that
\* some client has checked out is still there.
HeldSamplesLive == \A c \in Clients : handle[c] # None => handle[c] \in DOMAIN mb

\* The use count of a sample is the number of clients that have it, whatever
\* the order of their check-outs and check-ins.
CountsHolders ==
    \A n \in DOMAIN mb : mb[n] = Cardinality({c \in Clients : handle[c] = n})

\* A check-out fails "(sample_counter == 0)" only, as long as capturing is on:
\* the newest sample is never cleaned up.
NewestKept == enabled /\ sample_counter > 0 => sample_counter \in DOMAIN mb

\* Samples that linger, although nobody uses them, never use up the allocator:
\* capturing goes on while every client has a sample.
CaptureNeverStalls == Cardinality(DOMAIN mb) < Buffers

\* The map with its counts implements a pool that knows who has what.
Pool == INSTANCE SamplePool WITH live <- DOMAIN mb, newest <- sample_counter, has <- handle
ImplementsPool == Pool!Spec

\* A wait ends when a sample is yet to come, although clients clear the event
\* for each other.
WaitEnds ==
    \A c \in Clients :
      pc[c] = "wait" /\ sample_counter < MaxSamples ~> pc[c] # "wait" \/ ~enabled

\* "constantly clean up": when a sample arrives the unused ones before it go.
\* Not so, the loop skips the entry after an erased one.
UnusedReleased ==
    [][sample_counter' # sample_counter => \A n \in Unused : n \notin DOMAIN mb']_vars

\* DisableMemoryBuffer releases the samples whatever their use count.  Not so
\* either, for the same reason.
DisableReleasesAll == ~enabled => DOMAIN mb = {}

\* WaitForNextSample "behaves just like WaitForSingleObject": if it times out a
\* sample that arrived since is reported by the next wait.  Not so, when the
\* sample arrives between the timeout and the ResetEvent.
NoSampleMissed ==
    [][\A c \in Clients : pc[c] = "timed_out" /\ pc'[c] = "idle" /\ m_ESync => m_ESync']_vars
=============================================================================

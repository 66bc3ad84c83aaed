------------------------------ MODULE CmdrIsoch ------------------------------
(***************************************************************************)
(* The isochronous buffer requests of the 1394cmdr kernel driver.  A       *)
(* request of the application is kept, with the driver's data about it, on *)
(* the list IsochDetachData while the bus driver has its buffer.  Whoever  *)
(* takes it off the list, under IsochSpinLock, has to complete it: the     *)
(* bus driver's callback, the completion of a failed attachment, the       *)
(* tear-down of the stream or the removal of the device.                   *)
(***************************************************************************)
EXTENDS Naturals, FiniteSets

CONSTANTS
    Requests,      \* bound of the model: the IOCTL_ATTACH_BUFFER requests
    NoMemory,      \* whether ExAllocatePool can fail in t1394_IsochCleanup
    None

ASSUME CmdrAssumption == NoMemory \in BOOLEAN /\ None \notin Requests

Cleaners == {"teardown", "removal"}
Resources == {"bandwidth", "channel", "resource"}

VARIABLES
    bShutdown, bListening,
    held,               \* the resources whose handles are not NULL
    IsochDetachData,    \* the requests on the list
    attach,             \* attach[r]: where t1394Cmdr_IsochAttachBuffer is
    bus,                \* bus[r]: what the bus driver does with r
    data,               \* data[r]: the allocated data of r
    completed,          \* completed[r]: how often the request was completed
    popped,             \* popped[t]: the request that t has taken off the list
    detaching,          \* the requests whose detachment the bus driver has
    stream,             \* where the set-up or tear-down of the stream is
    removal,            \* where t1394Cmdr_PnpRemoveDevice is
    busySetup           \* history: the tear-down is part of a refused set-up

requests == <<IsochDetachData, attach, bus, data, completed, popped, detaching>>
state == <<bShutdown, bListening, held, stream, removal, busySetup>>
vars == <<requests, state>>

AttachPCs == {"none", "check", "insert", "submit", "returned", "refused"}

TypeOK ==
    /\ bShutdown \in BOOLEAN /\ bListening \in BOOLEAN /\ busySetup \in BOOLEAN
    /\ held \in SUBSET Resources
    /\ IsochDetachData \in SUBSET Requests /\ detaching \in SUBSET Requests
    /\ attach \in [Requests -> AttachPCs]
    /\ bus \in [Requests -> {"none", "attaching", "attached"}]
    /\ data \in [Requests -> {"none", "live", "freed"}]
    /\ completed \in [Requests -> Nat]
    /\ popped \in [Cleaners -> Requests \cup {None}]
    /\ stream \in {"idle", "teardown", "detach", "free"}
    /\ removal \in {"idle", "detach", "removed"}

Init ==
    /\ bShutdown = FALSE /\ bListening = FALSE /\ busySetup = FALSE /\ held = {}
    /\ IsochDetachData = {} /\ detaching = {}
    /\ attach = [r \in Requests |-> "none"] /\ bus = [r \in Requests |-> "none"]
    /\ data = [r \in Requests |-> "none"] /\ completed = [r \in Requests |-> 0]
    /\ popped = [t \in Cleaners |-> None]
    /\ stream = "idle" /\ removal = "idle"

-----------------------------------------------------------------------------
(* The end of a request. *)

\* t1394_IsochDetachCompletionRoutine: IoCompleteRequest, and all is freed.
Complete(r) ==
    /\ completed' = [completed EXCEPT ![r] = @ + 1]
    /\ data' = [data EXCEPT ![r] = "freed"]

\* The bus driver is asked to detach the buffer; without memory for that
\* request nothing more happens.
t1394_IsochCleanup(r) ==
    \/ detaching' = detaching \cup {r}
    \/ NoMemory /\ UNCHANGED detaching

DetachCompletion(r) ==
    /\ r \in detaching /\ detaching' = detaching \ {r}
    /\ bus' = [bus EXCEPT ![r] = "none"]
    /\ Complete(r)
    /\ UNCHANGED <<IsochDetachData, attach, popped, state>>

-----------------------------------------------------------------------------
(* t1394Cmdr_IsochAttachBuffer, in the thread of the application. *)

\* t1394Cmdr_IoControl has seen no shutdown, and there is a stream.  (A
\* request that fails earlier is completed at once and never seen again.)
AttachBuffer(r) ==
    /\ attach[r] = "none" /\ ~bShutdown /\ "resource" \in held
    /\ attach' = [attach EXCEPT ![r] = "check"]
    /\ data' = [data EXCEPT ![r] = "live"]
    /\ UNCHANGED <<IsochDetachData, bus, completed, popped, detaching, state>>

\* In a shutdown the data is freed, and t1394Cmdr_IoControl does not complete
\* a request that ends with STATUS_NO_SUCH_DEVICE.
AttachBuffer_Check(r) ==
    /\ attach[r] = "check"
    /\ IF bShutdown
       THEN /\ attach' = [attach EXCEPT ![r] = "refused"]
            /\ data' = [data EXCEPT ![r] = "freed"]
       ELSE attach' = [attach EXCEPT ![r] = "insert"] /\ UNCHANGED data
    /\ UNCHANGED <<IsochDetachData, bus, completed, popped, detaching, state>>

AttachBuffer_Insert(r) ==
    /\ attach[r] = "insert"
    /\ attach' = [attach EXCEPT ![r] = "submit"]
    /\ IsochDetachData' = IsochDetachData \cup {r}
    /\ UNCHANGED <<bus, data, completed, popped, detaching, state>>

AttachBuffer_Submit(r) ==
    /\ attach[r] = "submit"
    /\ attach' = [attach EXCEPT ![r] = "returned"]
    /\ bus' = [bus EXCEPT ![r] = "attaching"]
    /\ UNCHANGED <<IsochDetachData, data, completed, popped, detaching, state>>

-----------------------------------------------------------------------------
(* The bus driver and its callbacks. *)

\* The buffer is attached: t1394_IsochAttachCompletionRoutine does nothing.
AttachCompletion_Success(r) ==
    /\ bus[r] = "attaching" /\ bus' = [bus EXCEPT ![r] = "attached"]
    /\ UNCHANGED <<IsochDetachData, attach, data, completed, popped, detaching, state>>

AttachCompletion_Failure(r) ==
    /\ bus[r] = "attaching" /\ bus' = [bus EXCEPT ![r] = "none"]
    /\ IF r \in IsochDetachData
       THEN IsochDetachData' = IsochDetachData \ {r} /\ Complete(r)
       ELSE UNCHANGED <<IsochDetachData, completed, data>>
    /\ UNCHANGED <<attach, popped, detaching, state>>

\* Faulty: whatever others have done with the request.
IsochCallback_Unchecked(r) ==
    /\ bus[r] = "attached" /\ bListening /\ bus' = [bus EXCEPT ![r] = "none"]
    /\ IsochDetachData' = IsochDetachData \ {r} /\ t1394_IsochCleanup(r)
    /\ UNCHANGED <<attach, data, completed, popped, state>>

\* The buffer is filled.  The spin lock is held to the end.
IsochCallback(r) ==
    /\ bus[r] = "attached" /\ bListening /\ bus' = [bus EXCEPT ![r] = "none"]
    /\ IF ~bShutdown /\ r \in IsochDetachData
       THEN IsochDetachData' = IsochDetachData \ {r} /\ t1394_IsochCleanup(r)
       ELSE UNCHANGED <<IsochDetachData, detaching>>
    /\ UNCHANGED <<attach, data, completed, popped, state>>

-----------------------------------------------------------------------------
(* Emptying the list, in the tear-down and in the removal. *)

\* Faulty: the list is read, not shortened.
Pop_Peek(t) ==
    /\ popped[t] = None
    /\ \E r \in IsochDetachData : popped' = [popped EXCEPT ![t] = r]
    /\ UNCHANGED <<IsochDetachData, attach, bus, data, completed, detaching, state>>

\* RemoveHeadList; which request is at the head is left open.
Pop(t) ==
    /\ popped[t] = None
    /\ \E r \in IsochDetachData :
          /\ popped' = [popped EXCEPT ![t] = r]
          /\ IsochDetachData' = IsochDetachData \ {r}
    /\ UNCHANGED <<attach, bus, data, completed, detaching, state>>

\* Faulty: the request is put aside.
CleanUp_Forgets(t) ==
    /\ popped[t] # None /\ popped' = [popped EXCEPT ![t] = None]
    /\ UNCHANGED <<IsochDetachData, attach, bus, data, completed, detaching, state>>

CleanUp(t) ==
    /\ popped[t] # None
    /\ t1394_IsochCleanup(popped[t])
    /\ popped' = [popped EXCEPT ![t] = None]
    /\ UNCHANGED <<IsochDetachData, attach, bus, data, completed, state>>

Empty(t) == IsochDetachData = {} /\ popped[t] = None

-----------------------------------------------------------------------------
(* The stream. *)

IsochListen ==
    /\ stream = "idle" /\ ~bShutdown /\ "resource" \in held /\ bListening' = TRUE
    /\ UNCHANGED <<requests, bShutdown, held, stream, removal, busySetup>>

\* All that could be allocated; a subscriber needs no bandwidth or channel.
IsochSetupStream ==
    /\ stream = "idle" /\ ~bShutdown /\ held = {}
    /\ held' \in {Resources, {"resource"}}
    /\ UNCHANGED <<requests, bShutdown, bListening, stream, removal, busySetup>>

\* Anything allocated already is "busy"; that, like a failed allocation,
\* ends in t1394_IsochTearDownStream.
IsochSetupStream_Fails ==
    /\ stream = "idle" /\ ~bShutdown /\ stream' = "teardown"
    /\ IF held # {}
       THEN busySetup' = TRUE /\ UNCHANGED held
       ELSE busySetup' = FALSE /\ held' \in {{}, {"bandwidth"}, {"bandwidth", "channel"}}
    /\ UNCHANGED <<requests, bShutdown, bListening, removal>>

IsochTearDownStream ==
    /\ stream = "idle" /\ ~bShutdown /\ stream' = "teardown" /\ busySetup' = FALSE
    /\ UNCHANGED <<requests, bShutdown, bListening, held, removal>>

\* IsochStop, whose failure ends the tear-down.
IsochStop ==
    /\ stream = "teardown"
    /\ IF "resource" \in held
       THEN \/ stream' = "detach" /\ bListening' = FALSE
            \/ stream' = "idle" /\ UNCHANGED bListening
       ELSE stream' = "detach" /\ UNCHANGED bListening
    /\ UNCHANGED <<requests, bShutdown, held, removal, busySetup>>

TearDown_Detach == stream = "detach" /\ (Pop("teardown") \/ CleanUp("teardown"))

TearDown_Detached ==
    /\ stream = "detach" /\ Empty("teardown") /\ stream' = "free"
    /\ UNCHANGED <<requests, bShutdown, bListening, held, removal, busySetup>>

\* Bandwidth, resource and channel, in this order, until one cannot be freed.
TearDown_Free ==
    /\ stream = "free" /\ stream' = "idle"
    /\ held' \in {held, held \ {"bandwidth"}, held \ {"bandwidth", "resource"}, {}}
    /\ UNCHANGED <<requests, bShutdown, bListening, removal, busySetup>>

-----------------------------------------------------------------------------
(* Power management and removal. *)

SetPower ==
    /\ removal = "idle" /\ bShutdown' \in BOOLEAN \ {bShutdown}
    /\ UNCHANGED <<requests, bListening, held, stream, removal, busySetup>>

PnpRemoveDevice ==
    /\ removal = "idle" /\ removal' = "detach" /\ bShutdown' = TRUE
    /\ UNCHANGED <<requests, bListening, held, stream, busySetup>>

PnpRemove_Detach == removal = "detach" /\ (Pop("removal") \/ CleanUp("removal"))

PnpRemove_Detached ==
    /\ removal = "detach" /\ Empty("removal") /\ removal' = "removed"
    /\ UNCHANGED <<requests, bShutdown, bListening, held, stream, busySetup>>

-----------------------------------------------------------------------------
Thread(r) ==
    \/ AttachBuffer_Check(r) \/ AttachBuffer_Insert(r) \/ AttachBuffer_Submit(r)

Cleaner ==
    \/ IsochStop \/ TearDown_Detach \/ TearDown_Detached \/ TearDown_Free
    \/ PnpRemove_Detach \/ PnpRemove_Detached

Next ==
    \/ \E r \in Requests :
          \/ AttachBuffer(r) \/ Thread(r)
          \/ AttachCompletion_Success(r) \/ AttachCompletion_Failure(r)
          \/ IsochCallback(r) \/ DetachCompletion(r)
    \/ IsochListen \/ IsochSetupStream \/ IsochSetupStream_Fails \/ IsochTearDownStream
    \/ SetPower \/ PnpRemoveDevice
    \/ Cleaner

Spec == Init /\ [][Next]_vars

\* Threads in the kernel run on, and the bus driver completes a detachment.
FairSpec ==
    /\ Spec /\ WF_vars(TearDown_Detach) /\ WF_vars(PnpRemove_Detach)
    /\ \A r \in Requests : WF_vars(DetachCompletion(r))

-----------------------------------------------------------------------------
(* Properties. *)

\* The thread that attaches has the data until it is on the list.
Attaching == {r \in Requests : attach[r] \in {"check", "insert"}}

PoppedBy(t) == {popped[t]} \ {None}

Owned ==
    Attaching \cup IsochDetachData \cup detaching
        \cup PoppedBy("teardown") \cup PoppedBy("removal")

Exclusive ==
    /\ \A r \in Owned : data[r] = "live"
    /\ Attaching \cap IsochDetachData = {}
    /\ (Attaching \cup IsochDetachData) \cap detaching = {}
    /\ (Attaching \cup IsochDetachData \cup detaching)
          \cap (PoppedBy("teardown") \cup PoppedBy("removal")) = {}
    /\ PoppedBy("teardown") \cap PoppedBy("removal") = {}

NoneLost == ~NoMemory => \A r \in Requests : data[r] = "live" => r \in Owned

\* A request has at most one owner among the attaching thread, the list, the
\* two threads that empty it and the bus driver that detaches it; the data of
\* one that any of them has is not freed; and, unless memory runs out, none
\* whose data is not freed is without an owner, who will complete it.
OneOwner == Exclusive /\ NoneLost

\* Callback, failed attachment, tear-down and removal race for a request:
\* it is completed at most once, and exactly when its data is freed, but for
\* those refused in a shutdown.
CompletedOnce ==
    \A r \in Requests :
        completed[r] = IF data[r] = "freed" /\ attach[r] # "refused" THEN 1 ELSE 0

\* "Detaches and frees any DMA buffers": a request that is on the list when
\* the tear-down empties it is completed.
TearDownCompletes ==
    \A r \in Requests : stream = "detach" /\ r \in IsochDetachData ~> completed[r] = 1

\* "if already busy, punt and let the user clean things up": a set-up that
\* finds resources allocated detaches and frees nothing.
BusySetupKeepsStream == busySetup => stream \notin {"detach", "free"}

\* "our pnp cleanup will take care of everything else": after the removal no
\* request of a thread that is through is left open.
RemovalCompletesAll ==
    removal = "removed" =>
        \A r \in Requests :
            attach[r] \in {"returned", "refused"} => completed[r] = 1 \/ r \in detaching
=============================================================================

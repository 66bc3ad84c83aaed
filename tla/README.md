# A TLA+ model of ARTK-Projects

The repository is a collection of augmented-reality programs and the libraries
they are built on. What is hard to get right and hard to test in it is shared
state: PTAM (`src/PTAM`), a tracker and a mapper in two threads that share map and
flags without a lock, and the libraries that bring images from a camera, in which
a driver or a capture thread and the application pass buffers to each other. This
project models these parts, checks them with TLC and proves their safety
properties with TLAPS. The inventory also covers what is left out.

## 1. Inventory

### PTAM

| part | state | operations | talks to |
|---|---|---|---|
| Tracker thread (`System.cc`, `Tracker.cc`) | stage of the initial map, spacebar flag, current key frame, point vectors and counters of a frame, lost-frame counters, queued commands | `TrackFrame`, `TrackForInitialMap`, `TrackMap`, `AssessTrackingQuality`, `AttemptRecovery`, `AddNewKeyFrame`, `Reset`, `GUICommandHandler` | reads the map; calls `MapMaker::InitFromStereo` (in its own thread), `AddKeyFrame`, `RequestReset`, `ResetDone` |
| Map-maker thread (`MapMaker.cc`) | key-frame, failure and new-point queues, convergence, reset and abort flags, queued commands | `run` and its jobs: `BundleAdjustRecent`, `ReFindNewlyMade`, `BundleAdjustAll`, `ReFindFromFailureQueue`, `HandleBadPoints`, `AddKeyFrameFromTopOfQueue`; `Reset`; `GUICommandHandler` with SaveMap | changes the map, or writes it to files; runs the bundle adjuster |
| Map (`Map.cc`, `KeyFrame.h`, `MapPoint.h`, `MapMaker.h`) | points, trash, key frames, `bGood`; per point the key frames that measure it or must not be retried; per key frame its measurements | `Reset`, `MoveBadPointsToTrash`, `EmptyTrash` | both threads |
| Bundle adjuster (`Bundle.cc`) | damping, counters, outliers | `Compute`, `Do_LM_Step` | reads the map maker's abort flag |
| GUI parser thread | - | `Tracker::GUICommandCallBack`, `MapMaker::GUICommandCallBack` | pushes commands at the tracker and at the map maker |
| Relocaliser, patch finder, homography, camera model | none between calls that others depend on | numerical | tracker, map maker |
| Calibrator, windows, menus, AR demos | drawing, settings | numerical and OpenGL | - |

What is hard: three threads, plain `bool`s and `std::vector`s instead of locks; a reset
that has to stop a long computation; a map that is built by one thread and maintained by
another; two-sided records (point and key frame) updated by hand by six jobs; raw pointers
that one thread holds while the other removes the points; point vectors that a frame chops
up by hand. What makes it correct: the map is never wiped while someone uses it, nor built
while someone changes it; resets end; queued key frames are served; both sides of the
records agree; no pointer outlives its point; a point is searched once and counted once in
a frame.

### Cameras and markers

| part | state | operations | hard behaviour | module |
|---|---|---|---|---|
| DSVL (`DSVL_GraphManager.cpp`) | reference-counted samples, event, counter | `SampleCB`, `WaitForNextSample`, `CheckoutMemoryBuffer`, `CheckinMemoryBuffer`, `DisableMemoryBuffer` | capture callback against several clients; the event is reset outside the lock; erasing from a map in a loop | `DSVLSamples` |
| 1394camera (`1394CamAcq.cpp`, `isochapi.c`) | ring of frame buffers, current buffer, device handle | `StartImageAcquisitionEx`, `AcquireImageEx`, `StopImageAcquisition`, `InitCamera` | starts that fail half-way, timeouts and retries, buffers of several parts, two copies of one order | `CamAcquisition` |
| 1394cmdr (`isochapi.c`, `pnp.c`, `power.c`) | list of buffer requests, handles of the stream, shutdown flag | attachment, callback, set-up, listening, tear-down, power changes, removal | five parties that may finish one request | `CmdrIsoch` |
| ARToolKit DV capture (`VideoLinuxDV/video.c`) | three buffers, count of packets, status | capture thread, start, stop, read, close, bus resets | lost packets, restarts, buffers that change roles | `VideoLinuxDV` |
| ARToolKit marker detection (`arDetectMarker.c`) | `prev_info`, the last sightings | `arDetectMarker` | ageing, taking over of identifications, unchecked arrays | `ArDetectMarker` |
| ARToolKit labelling, patterns, poses | per call | algorithms on images | - | left out |
| ARToolKit's other video back ends | handles of drivers and platform libraries | calls into them | - | left out |
| ARTK_Alive, examples | one-threaded GLUT applications | drawing, loading | - | left out |
| pthreads-win32, libcvd, TooN, GLEW, GLUT, assets, binaries | - | - | third-party and data | left out |

The library 1394camera hands its buffers to the driver 1394cmdr with one request
per part, and waits in its clean-up for the driver to complete them: the
assumption `FreeResources` of `CamAcquisition` (a tear-down completes what is
attached) is the property `TearDownCompletes` of `CmdrIsoch`. DSVL and
`VideoLinuxDV` are two ways in which ARToolKit's `arVideoGetImage` gets an image,
which `arDetectMarker` then searches. `ARTK_Alive_src/lib/SRC` and
`ARToolKit/DSVL` are copies of parts listed above.

`PROJECT.json` lists the hazards of the code, line by line, with the properties
that watch them.

## 2. Modules

| module | models |
|---|---|
| `MapLifecycle` | Abstract: what tracker and map maker promise each other about the life of the map and of a reset. |
| `PTAMThreads` | The signalling, one step per read or write of a shared variable. |
| `MapData`, `MCMapData` | The map's contents and book-keeping, one action per job of `MapMaker::run()` and per phase of the tracker. |
| `Tracker`, `MCTracker` | What the tracker does within a frame: trails, the choice of points, quality, key frames, recovery. |
| `SamplePool` | Abstract: samples arrive in order, a client gets the newest, and what it has is not released. |
| `DSVLSamples`, `MCDSVLSamples` | DSVL's samples, use counts and event. |
| `CamAcquisition` | The ring of buffers of the 1394 camera library. |
| `CmdrIsoch`, `MCCmdrIsoch` | The isochronous buffer requests of the kernel driver. |
| `VideoSource` | Abstract: images come in the order of the camera, complete, and none twice. |
| `VideoLinuxDV` | The capture thread, the three buffers and the application of the DV back end. |
| `ArDetectMarker`, `MCArDetectMarker` | The history of markers. |
| `...Proofs` | Inductive invariant, theorems and refinement of the module of that name. |

The `MC` modules add the symmetry of points, key frames, clients, requests or
patterns. Definitions whose comment begins with "Faulty" are plausible errors of
the definition after them; they show that a property would notice.

### PTAMThreads and the code

State: the flags `mbResetRequested`, `mbResetDone`, `mbBundleAbortRequested`,
`mbBundleRunning`, `mbBundleRunningIsRecent`, `mbBundleConverged_Full`,
`mbBundleConverged_Recent`, `mMap.bGood`, the stage and spacebar flag of the
tracker and its command queue are as in the code. `nKeyFrames` and `nQueued`
stand for the vectors `vpKeyFrames` and `mvpKeyFrameQueue`, `nSaves` for the map
maker's command queue, which only ever holds SaveMap; `lm` for the local
`Bundle` object. The code between two accesses to shared variables is folded
into the next step; accesses that no other thread can tell apart are not split.

Tracker: `Reset_*` is `Tracker::Reset()` with `RequestReset()` in its two
stores and the polling loop; `TrackFrame`, `TrackMap_*`, `AddKeyFrame_*` the
branch with a good map; `TrackForInitialMap_*` and `InitFromStereo_*` the branch
without; `NoMoreCommands`, `HandleSpace`, `HandleReset`, `EraseCommand` the loop
at the end of a frame. A command is erased after its handler has returned, as in
the code, so a reset inside a handler sees it still queued.

Map maker: `CheckReset` is the `CHECK_RESET` macro at its eight places
(`AfterCheck` gives their order); `Commands_*` is the command loop that comes before
the test of `IsGood()` (`MapMaker.cc:76-81`), and `SaveMap_*` the two loops over points
and key frames in its handler, which change nothing but read a map that may be under
construction; `Wipe_*` is `MapMaker::Reset()` in the order of
its stores; `BundleAdjustRecent`, `BundleAdjustAll`, `BundleAdjust_*`, `Compute_*`
are an adjustment from its guard in `run()` to the clearing of its flags;
`AddKeyFrame_Pop` and `AddKeyFrame_Integrate` take a key frame from the queue.

Whether trails survive, a homography is found, an iteration is accepted or the
adjustment converges is nondeterministic. `mbBundleRunningIsRecent`, which no
constructor initialises, starts with either value. `Compute()` never returns a
negative value (`Do_LM_Step` always returns true), so the branch of
`BundleAdjust()` for it is not modelled.

### MapData and the code

`mMeasurements[k][p]` is the `Source` of the measurement of point `p` in key
frame `k`, or none; `Source` is abstracted to what `BundleAdjust()` tells apart:
ROOT, those that are retried (TRACKER, EPIPOLAR), those that are not (REFIND,
TRAIL), and the uninitialised value that the tracker leaves. The two sets of
`MapMakerData`, the trash, `bBad` and the three queues are as in the code; the
failure and new-point queues are sets, since their order changes nothing that a
property sees. `tracked` is what the tracker holds: first all points that it
projects, then those it found.

Each job is one action with everything it calls: `HandleOutliers` is the loop at
the end of `BundleAdjust()` (which outliers are erased and which make their
point bad depends on the order in which they are met; `Erasable` allows what
any order can give); `Integrate` is `AddKeyFrameFromTopOfQueue()` with
`ReFindInSingleKeyFrame()` and `AddSomeMapPoints()`. Jobs are atomic against the
tracker, because the tracker only reads the points and appends to the queue;
what it may see in the middle of a job is a matter of the unlocked vectors,
which are not modelled. A reset is one action while the tracker waits, which is
what `PTAMThreads` proves it to be. Addresses can be reused after a reset.
Asserts are not compiled in, as in the Windows release build; the ones about
book-keeping are properties instead.

`Cardinality(outliers) <= MaxOutliers` bounds how many outliers one adjustment
reports.

### Tracker and the code

`pc` splits a frame where one stage hands its points to the next: `TrackFrame` is
the projection of all points into `avPVS` (`MakePVS`); `SkipCoarse` and `TryCoarse`
the coarse stage, `SearchTop` the top level, `SearchFine` the rest with the limit
on patches; `AssessTrackingQuality` the counters; `AddNewKeyFrame` and `NoKeyFrame`
the decision at the end. Where a point projects to and whether it is found is any
choice. The four vectors are the set `pvs` with the level of each point;
`vIterationSet` also records the stage that attached a point. What the next frame
overwrites before reading it is forgotten in `EndFrame`. The map maker only
answers (a key frame is needed, the queue has room, the initial map was made);
`PTAMThreads` models how the two wait for each other. `mnLostFrames` is counted up
to one above the limit that is compared with.

### DSVLSamples and the code

The functions that hold `m_CSec` are one step each; `WaitForNextSample` is the wait
and, without the lock, the `ResetEvent` after it. `mb` is the `std::map` of samples
with their use counts. `Swept` is the loop that erases from the map it iterates
over, and so skips the entry after each erased one (incrementing an iterator at
the end is taken to leave it there). A sample needs one of the allocator's
buffers. The application disables the buffer when it has no sample checked out.

### CamAcquisition and the code

`queue` is the list from `m_pLastBuffer` to `m_pFirstBuffer`, `isoch` the parts at
the driver in the order in which they were attached. `StartImageAcquisitionEx_Fails`
covers the points where a start can fail; every one ends in
`StopImageAcquisition`, whose two steps are the release (video stream, resources,
current buffer) and the waiting clean-up. `AcquireImageEx` is split at its wait and
at the top of its loop. Frame numbers stop at `MaxFrames`; `PartialFailures` and
`TearDownFailures` switch on failures of the driver. `InitCamera` tears down what an
acquisition left at the driver.

### CmdrIsoch and the code

Being on `IsochDetachData` is modelled as membership in a set: which request is at
the head is left open. `attach` is the thread of the application in
`t1394Cmdr_IsochAttachBuffer` (test of `bShutdown`, insertion, submission), `bus`
the bus driver, `popped` what tear-down or removal have taken off the list.
`IsochCallback` keeps the spin lock to its end and is one step. One thread at a time
sets up or tears down the stream, as the library does. "bandwidth" stands for both
bandwidth handles, which are allocated and freed together.

### VideoLinuxDV and the code

`data[b][i]` is the frame to which the packet in place `i` of buffer `b` belongs;
`N` packets make a frame, and a buffer holds `Size > N` of them. `RawISOHandler` has
one disjunct for each way a packet is treated: `Header` (a first packet, which in
the middle of a frame restarts it), `Ignored`, `Middle`, `Last` (the exchange under
the mutex). A packet that nobody receives is lost; with `HeadersLost` the first
packet of a frame can be lost while someone receives. `GetImage` is the part of
`ar2VideoBufferReadDV` under the mutex and the test of the size, `GetImage_Decode`
the decoding after it. `dv_parse_header` is given the uninitialised image instead of
the buffer (`video.c:373`): whether the first images are refused is any choice.
After the tenth bus reset `status` is 0 while the capture thread may still run, so a
second one can be started: `Threads` bounds how many. Closing joins the newest of them, whose
handle is the only one kept. The handler is one step,
also with two threads.

### ArDetectMarker and the code

One action is one call. The squares that `arDetectMarker2` and `arGetMarkerInfo`
return are any sequence of squares. Those with an area are at different places. Those
that lie in a larger one get the area 0, and the loop that removes them skips the entry
after each removed one (`arDetectMarker2.c:79-86`), so `Images` has squares of area 0 as
well. The loops over history and squares are folds in the order of the code. The centres
lie on a line, and areas are comparable when they are equal, so `Near` is a distance of at
most one between squares of one area. A square of area 0 is near nothing, itself
included: the quotients of areas and distances are infinite or not numbers, and the
comparisons with them come out as for a square that is far away. Confidences have three
values, one below the limit of 0.5.

## 3. What is checked

| run | bounds | distinct states | shows |
|---|---|---|---|
| `threads` | queue 3, recent from 4, 2 iterations, 6 key frames, 2 commands, 1 SaveMap | 1,011,700 | types; wipe, building, jobs and frames exclude each other; no map over a map; a reset returns to nothing; refinement of `MapLifecycle`; `ResetServed`, `QueueServed` |
| `data_points` | 2 points, 3 key frames, queue 1, recent from 3, 2 outliers | 363,481 (symmetry) | the book-keeping and pointer properties of `MapData` |
| `data_keyframes` | 1 point, 4 key frames, queue 2 | 964,994 | `BadPointsLeave` |
| `tracker_frames` | 4 points, coarse 1 to 2, 3 patches, 3 trails | 199,448 (symmetry) | a point is searched once, counters agree with measurements, the limit on patches, quality of key frames |
| `dsvl_clients` | 2 clients, 7 samples, 6 buffers, timeouts | 5,858 | checked-out samples stay, counts are exact, capture goes on, refinement of `SamplePool`, `WaitEnds` |
| `cam_ring` | 3 buffers of 2 parts, 5 frames, 2 handles | 233,540 | buffers are kept, list and driver agree, frames in order, `AcquireEnds` |
| `cmdr_requests` | 2 requests | 75,524 | one owner, no request lost, one completion, `TearDownCompletes` |
| `detect_history` | 2 patterns, 3 places, areas 0 and 1, 2 squares, 3 confidences | 4,452 (symmetry) | one entry per pattern, a marker without a square near it was seen lately, no marker vanishes at once |
| `dv_capture` | 3 packets, buffers of 4, 3 frames, 2 threads | 181,740 | whole images, refinement of `VideoSource`, `CloseEnds` |
| `threads_hang`, `tracker_top_level`, `cmdr_removal` | as above, or smaller | - | violated, see below |

Why the bounds are enough. `RecentMin` is 8 in the code: what matters is that maps below
and above it occur. Two iterations give an adjustment that ends by convergence, by its
limit and by an abort. Two commands are needed for two resets in a row and for the two
spacebar presses. A good map has two key frames from the start, so four to six leave room
for a full queue. One SaveMap is enough for the command loop to run at any time: the next
one changes nothing but how often. An outlier is erased from a point with three
measurements, which three key frames allow; two points are needed for a failure queue with
one good and one bad point; four key frames are two in the map and a queue of two. Four
points give each of the tracker's stages more points than its limit. Two clients hold at
most two samples, and the map keeps at most three (`SamplesBounded`), which is half of the
six buffers: the limit itself is met when samples are kept that should not be, as in the
faulty `Kept_All`. Three buffers are one with the application, one being filled and one
waiting; two parts give a half-filled buffer. Two requests are one on the list and one
taken off it. Three packets are a first, a middle and a last one; three frames fill three
buffers. Two squares and two patterns give a pattern that is seen twice and two that
compete for a place. All safety and action properties of the runs are moreover proved for
all values (section 4).

Fairness. `PTAMThreads` and `MapData` have weak fairness of each thread, taken as a whole:
both are scheduled by the operating system and neither waits for a lock. The user
(`GUICommandCallBack`) need not do anything, but stops saving the map at some time
(`SavesEnd`). This is needed: the command loop has no `CHECK_RESET` and ends only with an
empty queue, so a user who always has a new SaveMap waiting keeps the map maker from
resets and from its key frames, and `ResetServed` and `QueueServed` fail without it. The
tracker may fail to find trails for ever, and an adjustment may never converge.
`DSVLSamples`: the camera delivers while it has a buffer, and clients go on; no wait has
to time out. `CamAcquisition`: a thread inside a call goes on when it can, and the camera
sends while it streams; no timeout or error ever has to occur, so `AcquireEnds` is about
an infinite timeout too. `CmdrIsoch`: kernel threads that empty the list go on, and the
bus driver completes a detachment. `VideoLinuxDV`: the capture threads go on, because
`raw1394_loop_iterate` returns with any packet of the channel, and so does a joining
application.

`CHECK_DEADLOCK FALSE` stands where the system may stop: `DSVLSamples` after
`DisableMemoryBuffer` or the last sample, with all clients waiting; `CamAcquisition` in
a clean-up that waits for a tear-down that failed (below); `CmdrIsoch` after the
removal; `VideoLinuxDV` when the source is closed. Deadlock is checked in all other
runs. The type invariants of the modules without `TypeOK` in a run are proved.

### Where the code does not do what it says

1. `threads_hang`: a reset can be lost and the tracker wait for ever.
   `MapMaker::Reset()` stores `mbResetDone = true` before
   `mbResetRequested = false` (`MapMaker.cc:52-53`). Between the two the tracker can
   leave its loop, handle a second queued reset command and store
   `mbResetRequested = true`, which the map maker then erases. Swapping the two
   stores removes the race. `ResetServed` says what holds: a request not yet in
   this window is served.
2. `tracker_top_level`: points of the top level can be left out of a frame. When that
   level has fewer points than the coarse stage may take, they go to
   `vNextToSearch`, which is then overwritten by those of the next level
   (`Tracker.cc:535-551`), against "do all of these" (`Tracker.cc:599`).
3. `cmdr_removal`: a request can survive the removal of the device. One that meets
   `bShutdown` is on no list and is not completed (`isochapi.c:2043`, `ioctl.c:1151`),
   and one that has passed the test is put on a list that nobody empties again,
   against "our pnp cleanup will take care of everything else" (`isochapi.c:2025`).

### Claims the code does not meet

The modules state more claims of docs and comments. TLC refutes each with the
configuration named, kept beside the runs; they concern less than the three above,
or follow from one line.

| configuration | claim | what happens |
|---|---|---|
| `PTAMThreads_missedAbort` | `KeyFrameInterruptsBundle` (`MapMaker.cc:442`) | A key frame queued between the check of the queue and `mbBundleRunning = true` (line 775) does not interrupt the adjustment, which runs to its end. |
| `PTAMThreads_staleAbort` | `AbortOnlyForKeyFrame` (`Bundle.cc:110`) | An abort for an adjustment that has just ended (line 865) stops the next one before its first iteration. It is repeated later. |
| `PTAMThreads_tryAgain` | `UserCanTryAgain` (`MapMaker.cc:222`, "try again") | After a failed `InitFromStereo` the spacebar is ignored until a reset (`Tracker.cc:341`). |
| `PTAMThreads_saveMap` | `NoSaveDuringBuild` (`MapMaker.cc:83`, "Nothing to do if there is no map yet!") | The command loop comes before this test: SaveMap walks through `vpPoints` and `vpKeyFrames` while `InitFromStereo` fills them in the tracker's thread. |
| `MCMapData_trash` | `TrashNotMeasured` (`MapMaker.cc:145`) | Queued key frames and the failure queue still name a point in the trash, which is measured again. `NoDanglingPoints` shows that this stays harmless. |
| `MCTracker_matches` | `EnoughMatches` (`HomographyInit.cc:66`) | Trails are counted before they are rejected (`Tracker.cc:414`): ten good trails may leave fewer than four matches. |
| `MCDSVLSamples_sweep`, `_disable` | `UnusedReleased`, `DisableReleasesAll` | The loop skips the entry after an erased one (`DSVL_GraphManager.cpp:269`, `576`). `CaptureNeverStalls` shows that the samples that linger are few while capturing. |
| `MCDSVLSamples_timeout` | `NoSampleMissed` (`DSVL_GraphManager.h:222`) | `ResetEvent` after a timeout erases the signal of a sample that came in between. |
| `MCDSVLSamples_forced` | `HeldSamplesLive` (`DSVL_GraphManager.h:237`) | A check-in with `ForceRelease` releases what another client has. |
| `CamAcquisition_attached` | `CurrentNotAttached` (`1394CamAcq.cpp:51`) | When a later part cannot be attached the earlier ones stay at the driver, and the buffer stays the current one. |
| `CamAcquisition_busy` | `BusyKeepsAcquiring` (`1394Camera.h:104`) | A refused second start stops the running acquisition. |
| `CamAcquisition_init` | `AcquiringIsInitialized` (`1394Camera.cpp:400`) | A refused `InitCamera` leaves the acquiring camera uninitialised. |
| `CamAcquisition_handles` | `HandlesClosed` (`1394CamAcq.cpp:423`) | A start that fails with the device open leaves its handle open. |
| `CamAcquisition_blocks` | `SignalledDoesNotBlock` (`1394CamAcq.cpp:516`) | `AcquireImageEx(TRUE)` takes the ready frame and then waits for another. |
| `CamAcquisition_stop` | `StopEnds` (`1394CamAcq.cpp:418`) | When the driver cannot tear the stream down, the clean-up waits for ever. |
| `MCCmdrIsoch_noMemory` | `TearDownCompletes` (`isochapi.c:226`) | Without memory for the detach request the clean-up drops the buffer request (line 1734). |
| `MCCmdrIsoch_busy` | `BusySetupKeepsStream` (`isochapi.c:88`) | A set-up that is refused because the stream is busy tears that stream down. |
| `VideoLinuxDV_restart` | `Restartable` (`video.h:180`: "can be call many times") | After `ar2VideoCapStop` the status is 2, with which `ar2VideoCapStart` refuses. |
| `VideoLinuxDV_headers` | `WholeImage`, with `HeadersLost` | When the first packet of a frame is lost, packets of two frames are counted as one. No document promises otherwise. |
| `MCArDetectMarker_nested` | `AddedBackUnseen` (`arDetectMarker.c:151-165`) | A square of area 0 that is identified is added to the markers a second time, in the image in which it was seen. No document promises otherwise. |
| `MCArDetectMarker_number` | `NumberInImage` (`ar.h:359`: "the number of detected markers in the image") | Markers of the history are counted too. |

Read, but not stated as a property: the history and the markers returned are
arrays of `AR_SQUARE_MAX` = 30 without a check, while up to 50 patterns can be loaded and
`OnePerPattern` is the only bound; `ar2VideoClose` of a source that does not capture
frees nothing.

## 4. What is proved

`PTAMThreadsProofs` assumes `ConstantsAssumption` only. None of the safety
properties is inductive: that a wipe happens only while the tracker waits depends on
what each flag means in between. `IInv` is `TypeOK` with

- `Handshake`: a request that the map maker has not yet acted on, and a wipe,
  find the tracker waiting and `mbResetDone` false; when `mbResetDone` is true
  while the tracker waits, everything is empty already. The
  exception `mm = "clear_request"` is the window of finding 1;
- `WipeProgress`: what has been cleared at each point of a wipe;
- `MapKnown`: a good map has two key frames; jobs and frames have a good map;
  initialisation does not. Here the unlocked `bGood` does the work of a lock: only
  the tracker sets it, only a wipe clears it, and a wipe has the tracker waiting.
  SaveMap is outside of this protection, since it does not ask for it;
- `StageKnown`: before the stage COMPLETE there is no map;
- `QueueKnown`: room between the check and the push.

`TypeCorrect`, `WipeIsAlone`, `BuildIsAlone`, `FrameKeepsMap`, `QueueBounded`,
`MapFromNothing` and `ResetClean` follow from it. `BuildIsAlone` is about what changes the
map, wipes and jobs; that SaveMap may read it meanwhile is one of the claims above.
`Implementation` shows that every step maps to a step of `MapLifecycle` or leaves it
alone: the map is "good" with `bGood`, "none" without key frames and "partial" otherwise;
a reset is asked from the request to the answer.

`MapDataProofs` assumes `DataAssumption`: finitely many points and key
frames, any number of each, and any limits. `IInv` is `TypeOK` with `Phase` (what the
tracker's phase says of the map), `KeyFrameUse` (a key frame is in the map or
waits once), `WorkQueues`, and `Entries`, one statement for each pair of key
frame and point: a measurement belongs to a used key frame and an allocated
point, is recorded with its point once the key frame is in the map, and exactly
so for points of the map; records and exclusions are disjoint and name neither
deleted points nor unused key frames. The last part is what makes it
inductive: a new point or key frame at a reused address starts with clean
records. `MeasurementsRecorded`, `RecordsExact`, `RetryExcludesMeasured`,
`NoDanglingPoints` and `SourceInitialised` follow. `GoodPointsWellMeasured` needs a
second induction on top of it (`GoodPointsStep`), with the counting of erased
outliers in `BundleAdjustGood`: because the record is exact, erasing only while
`GoodMeasCount()` is above two leaves two measurements.

`TrackerProofs` assumes `TrackerAssumption`: finitely many points and any limits.
`Fresh` says which points each stage may still search: what is in `pvs` has not been
searched, and what left it is not searched again; `Counted` that the counters are the
numbers of found points by level, which needs the cardinality of unions of the stages.
`NoPointTwice`, `PatchesLimited`, `CountersExact` and `GoodFramesMeasured` follow, as do
`LostFramesBad` (lost frames are counted exactly after bad frames, and only with a map)
and `RecoveryEnds` (the wider search after a recovery lasts one frame).

`DSVLSamplesProofs` shows, while no client forces a release (`Forcing = {}`), with
any number of clients, samples and buffers: a client has a sample exactly while it
uses one, and the use count is the number of holders, so the loop, whatever it skips,
erases only what nobody has. `SamplesStay`, `CountsExact` and the refinement
`Implementation` follow; `NewestStays` needs no assumption. The other half is what the
loop leaves behind. It skips an entry only after one that it erased (`SweptRule`), so of
the samples that nobody has it leaves at most half (`SweptHalf`), and of all at most the
mean of their number and that of those in use (`KeptBound`). With at most one sample in use
per client, the map never has more than one for each client and the newest one
(`SamplesBounded`, with forced releases too).
`NeverStalls` is the consequence: with three buffers per client, which is
`MIN_ALLOCATOR_BUFFERS_PER_CLIENT` (`DSVL_GraphManager.cpp:221-225`), the camera always
finds a free one.

`CamAcquisitionProofs` shows, for any number of buffers and parts and all failures,
that each step moves one buffer between the list and the current one
(`KeepsBuffers`), that the list is not empty where its head is read unchecked
(`ListNotEmpty`) and that nothing is left after an acquisition (`StopEmpties`).
`DriverKeepsStep`, `FramesOrdered` and `CurrentIsFree` concern the order: the parts at the
driver are the parts of the list in its order, of the head those still to be
filled; the stamps of filled buffers grow along the list. They
assume `AttachedAsAWhole`: either no attachment fails or a buffer is one part. Without
it a buffer whose second part is refused leaves its first part at the driver, and
`CamAcquisition_attached` shows what comes of that.

`CmdrIsochProofs` treats being on the list as a token: with `DataOfAttach` (what the
data of a request not yet made, or refused, is) `OneOwner` and `CompletedOnce` are
inductive, with or without memory and for any set of requests. The second part of
`OneOwner`, `NoneLost`, is the one that fails without memory: `t1394_IsochCleanup` is then
the end of a request that nobody has completed.

`VideoLinuxDVProofs` follows a frame through the three buffers. `RolesDistinct` (the
capture thread and the application never have the same buffer) needs nothing. For
`WholeImages` and `Implementation`, under `~HeadersLost`, the invariant says that
`buff_in` holds packets of the frame that is being sent whenever it holds as many as
were counted (`FrameIn`); it may hold more, after a restart, but then the size that is
published is not that of a frame, because `Size > N` (`Counted`); that only a start of
capturing, which resets the count, makes anyone receive again (`Received`); that
`buff_wait` holds the newest complete frame if it holds one (`FrameWait`); and that what
is decoded is older than that and newer than the last image (`FrameOut`).

`ArDetectMarkerProofs` assumes `DetectAssumption`: any patterns, places and
confidences, and a `CountMax` above 1. A call is four loops over the squares or the
history, which the module writes as folds. Each loop gets a lemma that describes its
values from one element to the next (`InheritTrace`, `AgeTrace`, `EnterTrace`, `AddBackTrace`),
and an invariant of the loop, proved by induction over the elements: `AgedTo` (what the
history is after forgetting the old), `EnteredTo` (one entry per pattern, the newest
count 1), `AddedTo` (what is added back). The invariant between calls
is `HInv`: `TypeOK`, one entry per pattern, and `CountsCalls`, by which an entry's count is
one more than the number of calls that did not report its pattern. `CountsCalls` connects the
history with what has been seen; without it `AddedBackRecent` is not inductive. An entry
that is added back is near no square; if its pattern was seen in the same image, it is the
entry of that square, and a square is near itself unless its area is 0.
`TypeCorrect`, `HistoryOnePerPattern`, `AddedBackWereSeen` and the action property
`IdentifiedPersist` follow.

Inductions, here and in `DSVLSamplesProofs`, take the least number at which a set of
numbers goes wrong (`Least`, from the well-foundedness of the natural numbers), since the
library's induction rules take operators, which the provers cannot instantiate.

Only model-checked: the liveness properties `BadPointsLeave`, `WaitEnds`, `AcquireEnds`,
`TearDownCompletes`, `CloseEnds`, `ResetServed` and `QueueServed` (fairness and ENABLED
are beyond the prover), and the violated claims. Conversely `SourceInitialised`,
`LostIsBad`, `RecoveryForOneFrame`, `NewestKept`, `PollsABuffer`, `StoppedIsEmpty`,
`CurrentNotAttached` (under `AttachedAsAWhole`), `FewSamples` and most type invariants are
proved and not repeated by a run.

## 5. What is not modelled

- Torn or concurrent accesses to `std::vector` (both command queues, key-frame queue,
  points): undefined behaviour without a small set of outcomes. Vectors are
  atomic here. So are the handlers of two capture threads of `VideoLinuxDV`.
- Weak memory: each store is seen at once and in program order.
- The end of PTAM (destructors, `stop()`, `quit`).
- Poses, images, depths, and with them whether the initial adjustment converges (the
  loop at `MapMaker.cc:331` has no other end) and the asserts on measurement counts in
  `RefreshSceneDepth` (`MapMaker.cc:1156`) and `MEstimator.h`.
- Whether a camera faster than the loop keeps `AcquireImageEx(TRUE)` in it for ever
  (`1394CamAcq.cpp:390`): there is no time in the models.
- Numerical and drawing code: relocaliser, patch finder, homography, camera model,
  calibrator, windows, labelling, pattern matching, poses. Nothing in it is kept
  between calls that another part depends on.
- `arDetectMarkerLite`, which keeps no history, and the stereo functions `ars*`, which
  repeat `arDetectMarker` for two images.
- The other video back ends: Mac OS X, which polls QuickTime in a thread of its own
  under one mutex (next in section 6), and the ones that only call a driver (V4L) or a
  platform library; DSVL's filter graph; registers, controls and dialogs of 1394camera; the asynchronous part of
  1394cmdr.
- ARTK_Alive and the examples: one thread, drawing and loaders.
- Vendored code (pthreads-win32, libcvd, TooN, GLEW, GLUT), which is most of the
  repository's lines, and data.

## 6. Plan

Done: all modules above with their proofs, in the order signalling, map data, tracker,
samples, camera ring, driver, DV capture, markers.

Left, for anyone who goes on:

1. `CamAcquisition` over `CmdrIsoch`: the driver of the first replaced by the second, so
   that the completion of a tear-down is a step of the composition and not an assumption.
2. The V4L double buffer, and the capture thread of the Mac OS X back end.
3. The label merging of `arLabeling.c` as a bounded check against connectedness.
4. The primitives of pthreads-win32 (mutex, condition variable, barrier).

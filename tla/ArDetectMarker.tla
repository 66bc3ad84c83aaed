--------------------------- MODULE ArDetectMarker ---------------------------
(***************************************************************************)
(* arDetectMarker: the squares found in an image, each with the pattern    *)
(* that matches it best and a confidence, are compared with a history of   *)
(* identified markers.  A square near an earlier marker takes over the     *)
(* better identification of the two, and an earlier marker near which the  *)
(* image has no square is reported for some more frames.                   *)
(***************************************************************************)
EXTENDS Integers, Sequences, SequencesExt

CONSTANTS
    Patterns,     \* the ids of the loaded patterns
    Places,       \* the centres of squares, numbers on a line
    Areas,        \* their areas, of which only equal ones are comparable
    Confidences,  \* cf, in steps
    CfMin,        \* a lower confidence identifies nothing (0.5)
    CountMax,     \* calls after which an unseen marker is forgotten (4)
    MaxSquares,   \* bound of the model: squares in an image
    NoId          \* the id -1

ASSUME DetectAssumption ==
    /\ Places \subseteq Int /\ Areas \subseteq Nat \ {0}
    /\ Confidences \subseteq Nat /\ CfMin \in Nat
    /\ CountMax \in Nat \ {0, 1} /\ MaxSquares \in Nat /\ NoId \notin Patterns

VARIABLES
    prev_info,     \* the history: a sequence of markers with their count
    wmarker_info,  \* the markers returned by the last call
    squares,       \* how many of them are squares of the image
    unseen         \* history: calls since a square was the pattern p

vars == <<prev_info, wmarker_info, squares, unseen>>

Marker == [id : Patterns \cup {NoId}, cf : Confidences, pos : Places,
           area : Areas \cup {0}]
Entry == [id : Patterns, cf : Confidences, pos : Places, area : Areas \cup {0},
          count : 1..(CountMax - 1)]

TypeOK ==
    /\ prev_info \in Seq(Entry) /\ wmarker_info \in Seq(Marker)
    /\ squares \in 0..MaxSquares
    /\ unseen \in [Patterns -> 0..CountMax]

Init ==
    /\ prev_info = <<>> /\ wmarker_info = <<>> /\ squares = 0
    /\ unseen = [p \in Patterns |-> CountMax]

-----------------------------------------------------------------------------
(* The squares of an image, from arDetectMarker2 and arGetMarkerInfo. *)

\* Of squares that lie in one another the largest keeps its area.  The others
\* get the area 0 and are removed by a loop that skips the entry after each
\* removed one, so that some of them stay; which of all squares arGetMarkerInfo
\* then drops is open.
Distinct(w) ==
    \A i, j \in DOMAIN w : i # j /\ w[i].area # 0 /\ w[j].area # 0 => w[i].pos # w[j].pos

\* Which pattern matches a square badly does not matter, and nor does the place of
\* a square of area 0 (Near).
Square == {m \in Marker : /\ m.id = NoId <=> m.cf < CfMin
                          /\ m.area = 0 => m.pos = CHOOSE x \in Places : TRUE}

Images == UNION {{w \in [1..n -> Square] : Distinct(w)} : n \in 0..MaxSquares}

Distance(m, n) == IF m.pos < n.pos THEN n.pos - m.pos ELSE m.pos - n.pos

\* The areas are comparable and the centres close.  A square of area 0 is near
\* nothing, itself included: it is divided by, and each comparison with what
\* comes of that goes the other way.
Near(m, n) == m.area = n.area /\ n.area # 0 /\ Distance(m, n) <= 1

-----------------------------------------------------------------------------
(* arDetectMarker. *)

\* cid: the first of the nearest squares near an earlier marker; 0 if none.
Nearest(e, w) ==
    LET near == {j \in DOMAIN w : Near(e, w[j])} IN
    IF near = {} THEN 0
    ELSE CHOOSE j \in near : \A k \in near :
             \/ Distance(e, w[j]) < Distance(e, w[k])
             \/ Distance(e, w[j]) = Distance(e, w[k]) /\ j <= k

\* Faulty: the square takes over the id but not the confidence.
Inherit_IdOnly(w, e) ==
    LET cid == Nearest(e, w) IN
    IF cid # 0 /\ w[cid].cf < e.cf THEN [w EXCEPT ![cid].id = e.id] ELSE w

Inherit(w, e) ==
    LET cid == Nearest(e, w) IN
    IF cid # 0 /\ w[cid].cf < e.cf
    THEN [w EXCEPT ![cid].cf = e.cf, ![cid].id = e.id]
    ELSE w

\* What is not identified well enough has no id.
Identified(w) ==
    [i \in DOMAIN w |-> IF w[i].cf < CfMin THEN [w[i] EXCEPT !.id = NoId] ELSE w[i]]

\* Faulty: one call too long.
Forgotten_OffByOne(count) == count > CountMax

Forgotten(count) == count >= CountMax

Older(e) == [e EXCEPT !.count = @ + 1]

\* The entries are counted up, and those not forgotten are moved to the front.
Age(kept, e) == IF Forgotten(Older(e).count) THEN kept ELSE Append(kept, Older(e))

Aged(h) == FoldLeft(Age, <<>>, h)

AsEntry(m) == [id |-> m.id, cf |-> m.cf, pos |-> m.pos, area |-> m.area, count |-> 1]

\* Faulty: an earlier sighting elsewhere stays.
Enter_Always(h, m) == IF m.id = NoId THEN h ELSE Append(h, AsEntry(m))

\* Each identified marker replaces the sighting of the same pattern.
Enter(h, m) ==
    IF m.id = NoId THEN h
    ELSE IF \E j \in DOMAIN h : h[j].id = m.id
         THEN [j \in DOMAIN h |-> IF h[j].id = m.id THEN AsEntry(m) ELSE h[j]]
         ELSE Append(h, AsEntry(m))

AsMarker(e) == [id |-> e.id, cf |-> e.cf, pos |-> e.pos, area |-> e.area]

\* A marker of the history with nothing near it is reported again.
AddBack(w, e) ==
    IF \E j \in DOMAIN w : Near(e, w[j]) THEN w ELSE Append(w, AsMarker(e))

arDetectMarker(image) ==
    LET found == Identified(FoldLeft(Inherit, image, prev_info))
        seen  == {found[i].id : i \in DOMAIN found}
    IN  /\ prev_info' = FoldLeft(Enter, Aged(prev_info), found)
        /\ wmarker_info' = FoldLeft(AddBack, found, prev_info')
        /\ squares' = Len(image)
        /\ unseen' = [p \in Patterns |->
                         IF p \in seen THEN 0
                         ELSE IF unseen[p] < CountMax THEN unseen[p] + 1 ELSE CountMax]

Next == \E image \in Images : arDetectMarker(image)

Spec == Init /\ [][Next]_vars

-----------------------------------------------------------------------------
(* Properties. *)

\* The fixed array of the history has one entry for each pattern at most,
\* whatever squares a pattern was seen on, and the array of markers at most
\* that many more than the image has squares.
OnePerPattern ==
    /\ \A i, j \in DOMAIN prev_info : prev_info[i].id = prev_info[j].id => i = j
    /\ Len(wmarker_info) <= squares + Len(prev_info)

\* A marker that is reported although no square of the image is near it was
\* seen in one of the last two images.  If a square of this image is that
\* pattern, it is one of area 0, and its marker is reported twice.
AddedBackRecent ==
    \A k \in (squares + 1)..Len(wmarker_info) :
        LET m == wmarker_info[k] IN
        /\ unseen[m.id] <= CountMax - 2
        /\ unseen[m.id] = 0 => m.area = 0

\* An identified marker does not vanish from one image to the next: its pattern
\* is reported, or a square near its place has at least its confidence, or
\* its place is taken by another marker of the history.
MarkersPersist ==
    [][\A i \in DOMAIN prev_info : prev_info[i].count < CountMax - 1 =>
          \E k \in DOMAIN wmarker_info' :
              \/ wmarker_info'[k].id = prev_info[i].id
              \/ /\ Near(prev_info[i], wmarker_info'[k])
                 /\ wmarker_info'[k].cf >= prev_info[i].cf \/ k > squares']_vars

\* What the last loop of arDetectMarker compares the markers for: one that is
\* added to the squares of the image is none of them.  A square of area 0 that is
\* identified is added to itself.
AddedBackUnseen ==
    \A k \in (squares + 1)..Len(wmarker_info) : unseen[wmarker_info[k].id] # 0

\* arDetectMarker returns "the number of detected markers in the image".
NumberInImage == Len(wmarker_info) = squares
=============================================================================

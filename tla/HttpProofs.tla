----------------------------- MODULE HttpProofs -----------------------------
(***************************************************************************)
(* The attempts of a request.  One body state is shared by all the clones of *)
(* a body: it lies with one of them or in between.  The invariant says what *)
(* the clone that has the state still has to replay, that a clone which    *)
(* never had it starts from the beginning, and that the state in between can *)
(* be replayed whenever an attempt will take it.                           *)
(***************************************************************************)
EXTENDS HttpRequest, TLAPS

Places == {"start", "inspect", "policies", "filters", "wrap", "loop", "prepare", "buffer",
           "call", "done"}
Early == {"start", "inspect", "policies", "filters", "wrap"}
Attempting == {"prepare", "buffer", "call"}

SrcState == [len : 0 .. MaxChunks, trailers : BOOLEAN, read : Nat, failed : BOOLEAN]
SharedState ==
    [replay : Seq(Nat), idx : 0 .. MaxBuffered, trailers : BOOLEAN, completed : BOOLEAN,
     budget : Nat]
CloneState ==
    [phase : {"none", "next", "sent", "lingers", "copied", "emptied", "dropped"},
     body : BOOLEAN, trailers : BOOLEAN]
SeenState == [data : Seq(Nat), end : {"open", "capped", "trailers", "done", "error"}]

BodyTypes ==
    /\ src \in SrcState
    /\ src.read <= src.len
    /\ shared \in SharedState
    /\ clone \in [Clone -> CloneState]
    /\ seen \in [Clone -> SeenState]

LoopTypes ==
    /\ cfg \in Config /\ late \in BOOLEAN /\ pc \in Places
    /\ owner \in Clone \cup {Shared}
    /\ attempts \in 1 .. MaxRetries + 1 /\ current \in 0 .. attempts - 1
    /\ lastRes \in Outcome \cup {None} /\ latest \in Outcome \cup {None}
    /\ result \in Outcome \cup {None}
    /\ panicked = FALSE

\* The replay buffer has what was read of the client's body, until that is too
\* much.
Recorded ==
    /\ shared.budget = IF src.read <= MaxBuffered THEN MaxBuffered + 1 - src.read ELSE 0
    /\ Len(shared.replay) = IF src.read <= MaxBuffered THEN src.read ELSE 0
    /\ \A k \in 1 .. Len(shared.replay) : shared.replay[k] = k
    /\ shared.completed => src.read = src.len /\ shared.trailers = src.trailers
    /\ ~shared.completed => ~shared.trailers

\* What attempt i was given is the beginning of what was read.
GivenInOrder(i) ==
    /\ Len(seen[i].data) <= src.read
    /\ \A k \in 1 .. Len(seen[i].data) : seen[i].data[k] = k
    /\ seen[i].end \in {"done", "trailers"} =>
         Len(seen[i].data) = src.len /\ (seen[i].end = "trailers" <=> src.trailers)
    /\ seen[i].end # "capped"
    /\ clone[i].phase \in {"none", "next"} => seen[i] = Unread

\* The clone that holds the state knows how far it has come.
HoldsState(i) ==
    /\ clone[i].phase \in {"next", "sent", "lingers"}
    /\ clone[i].body => src.read <= MaxBuffered /\ shared.idx = Len(seen[i].data)
    /\ ~clone[i].body /\ seen[i].end = "open" => Len(seen[i].data) = src.read
    /\ ~clone[i].trailers /\ seen[i].end = "open" => ~shared.completed

\* A clone that has never held the state replays from the beginning.
Fresh(i) == clone[i].body /\ clone[i].trailers /\ seen[i] = Unread

Held ==
    /\ \A i \in Clone : owner = i => HoldsState(i)
    /\ \A i \in Clone : clone[i].phase = "lingers" => owner = i
    /\ \A i \in Clone : clone[i].phase \in {"next", "sent"} /\ owner # i => Fresh(i)
    /\ owner = Shared => shared.idx = 0
    /\ owner = Shared /\ pc \in Attempting /\ clone[current].phase = "sent"
         => src.read <= MaxBuffered

\* Where the retry loop is, which clones exist.
Control ==
    /\ pc \in Early => /\ shared = NewState /\ owner = Shared /\ src.read = 0
                       /\ \A i \in Clone : clone[i] = NoClone
                       /\ current = 0 /\ attempts = 1 /\ latest = None /\ lastRes = None
    /\ pc = "loop" => /\ clone[current].phase = "next"
                      /\ \A i \in Clone : i > current => clone[i].phase = "none"
                      /\ current = 0 => owner = 0
                      /\ current > 0 => latest \in Retryable /\ lastRes = latest
    /\ pc \in Attempting =>
         /\ owner \in {current, Shared}
         /\ clone[current].phase \in {"sent", "copied", "emptied"}
         /\ pc # "call" => clone[current].phase = "sent"
         /\ \A i \in Clone : i > current =>
              clone[i].phase = IF i = current + 1 /\ ~LastAttempt THEN "next" ELSE "none"
    /\ pc \notin Early =>
         \A i \in Clone : i < current => clone[i].phase \notin {"none", "next", "sent"}
    /\ pc = "done" => /\ \A i \in Clone : clone[i].phase \notin {"next", "sent"}
                      /\ latest # None => result = latest

HttpInv ==
    /\ BodyTypes /\ LoopTypes /\ Recorded /\ (\A i \in Clone : GivenInOrder(i))
    /\ Held /\ Control

(* The invariant says what the attempts need. *)
LEMMA HttpInvSound == HttpInv => AttemptsSound
<1> SUFFICES ASSUME HttpInv PROVE AttemptsSound
  OBVIOUS
<1> USE SizesAssumption DEF HttpInv
<1>1. HttpTypeOK
  <2>1. shared.budget \in 0 .. MaxBuffered + 1
    BY DEF Recorded, BodyTypes, SrcState, SharedState, CloneState, SeenState
  <2>2. src.len \in 0 .. MaxChunks /\ src.read \in 0 .. src.len /\ shared.idx \in 0 .. MaxBuffered
    BY DEF BodyTypes, SrcState, SharedState, CloneState, SeenState
  <2>3. {lastRes, latest, result} \subseteq Outcome \cup {None}
    BY DEF LoopTypes
  <2>4. owner \in Clone => clone[owner].phase \in {"next", "sent", "lingers"}
    BY DEF Held, HoldsState
  <2> QED  BY <2>1, <2>2, <2>3, <2>4 DEF HttpTypeOK, LoopTypes
<1>2. BodyIntact
  <2> SUFFICES ASSUME NEW i \in Clone
      PROVE  /\ Len(seen[i].data) <= src.len
             /\ \A k \in DOMAIN seen[i].data : seen[i].data[k] = k
             /\ seen[i].end \in {"done", "trailers"} =>
                  Len(seen[i].data) = src.len /\ (seen[i].end = "trailers" <=> src.trailers)
    BY DEF BodyIntact
  <2>1. seen[i].data \in Seq(Nat) /\ src.read \in Nat /\ src.len \in Nat /\ src.read <= src.len
    BY DEF BodyTypes, SrcState, SharedState, CloneState, SeenState
  <2>2. DOMAIN seen[i].data = 1 .. Len(seen[i].data) /\ Len(seen[i].data) \in Nat
    BY <2>1
  <2> QED  BY <2>1, <2>2 DEF GivenInOrder
<1>3. AttemptsCanReplay
  BY DEF AttemptsCanReplay, LoopTypes, GivenInOrder
<1>4. LatestIsReturned
  BY DEF LatestIsReturned, Control
<1> QED  BY <1>1, <1>2, <1>3, <1>4 DEF AttemptsSound

(* Before the request is looked at nothing has been read or sent. *)
LEMMA HttpInitInv == HttpInit => HttpInv
<1> SUFFICES ASSUME HttpInit PROVE HttpInv
  OBVIOUS
<1> USE SizesAssumption, OwnersAssumption
<1>1. <<>> \in Seq(Nat) /\ Len(<<>>) = 0
  OBVIOUS
<1>2. NewState \in SharedState
  BY <1>1 DEF NewState, SharedState
<1>3. Unread \in SeenState
  BY <1>1 DEF Unread, SeenState
<1>4. BodyTypes
  BY <1>2, <1>3 DEF HttpInit, Untouched, BodyTypes, SrcState, SharedState, CloneState, SeenState, Config, NoClone
<1>5. LoopTypes
  <2>1. attempts \in 1 .. MaxRetries + 1 /\ current \in 0 .. attempts - 1
    BY DEF HttpInit, Untouched
  <2>2. cfg \in Config /\ late \in BOOLEAN /\ pc \in Places /\ panicked = FALSE
    BY Zenon DEF HttpInit, Untouched, Places
  <2> QED  BY <2>1, <2>2 DEF HttpInit, Untouched, LoopTypes
<1>6. Recorded
  BY <1>1 DEF HttpInit, Untouched, Recorded, NewState, Config
<1>7. \A i \in Clone : GivenInOrder(i)
  BY <1>1 DEF HttpInit, Untouched, GivenInOrder, Unread, NoClone, Config
<1>8. Held
  BY DEF HttpInit, Untouched, Held, NoClone, NewState, Attempting
<1>9. Control
  BY DEF HttpInit, Untouched, Control, Early, Attempting
<1> QED  BY <1>4, <1>5, <1>6, <1>7, <1>8, <1>9 DEF HttpInv

-----------------------------------------------------------------------------
(* ReplayBody::poll_frame                                                  *)

(* One more chunk, in order. *)
LEMMA GivenOne ==
    ASSUME NEW d \in Seq(Nat), NEW n \in Nat, n = Len(d) + 1, \A k \in 1 .. Len(d) : d[k] = k,
           NEW e, e = Append(d, n)
    PROVE  e \in Seq(Nat) /\ Len(e) = n /\ \A k \in 1 .. Len(e) : e[k] = k
<1>1. e \in Seq(Nat) /\ Len(e) = Len(d) + 1 /\ Len(d) \in Nat
  OBVIOUS
<1>2. e[Len(d) + 1] = n /\ \A k \in 1 .. Len(d) : e[k] = d[k]
  OBVIOUS
<1>3. ASSUME NEW k \in 1 .. Len(e) PROVE e[k] = k
  <2>1. k \in 1 .. Len(d) \/ k = Len(d) + 1
    BY <1>1
  <2> QED  BY <1>2, <2>1
<1> QED  BY <1>1, <1>3

\* The clone that is polled holds the state, or is about to replay all of it.
LEMMA PollsWithState ==
    ASSUME HttpInv, NEW i \in Clone, clone[i].phase \in {"sent", "lingers"},
           owner = i \/ (owner = Shared /\ src.read <= MaxBuffered)
    PROVE  HoldsState(i)
<1>1. CASE owner = i
  BY <1>1 DEF HttpInv, Held
<1>2. CASE owner # i
  <2>1. owner = Shared /\ src.read <= MaxBuffered /\ shared.idx = 0
    BY <1>2 DEF HttpInv, Held
  <2>2. clone[i].phase = "sent" /\ Fresh(i)
    BY <1>2 DEF HttpInv, Held
  <2>3. Len(Unread.data) = 0
    BY DEF Unread
  <2> QED  BY <2>1, <2>2, <2>3 DEF Fresh, HoldsState
<1> QED  BY <1>1, <1>2

(* A clone that has nothing left to replay. *)
LEMMA ClearedIsClone ==
    ASSUME BodyTypes, NEW i \in Clone,
           clone' = [clone EXCEPT ![i].body = FALSE, ![i].trailers = FALSE]
    PROVE  clone' \in [Clone -> CloneState]
<1>1. PICK c \in CloneState : c = clone[i]
  BY DEF BodyTypes
<1>2. PICK d \in CloneState : d = [c EXCEPT !.body = FALSE, !.trailers = FALSE]
  BY Zenon DEF CloneState
<1>3. clone' = [clone EXCEPT ![i] = d]
  BY Zenon, <1>1, <1>2
<1> QED  BY Zenon, <1>3 DEF BodyTypes

(* ReplayBody::poll_frame, for the clone that has or takes the state: a chunk
   of the buffer, a fresh one, which is recorded while there is room, or the
   end. *)
LEMMA PollKeepsBody ==
    ASSUME HttpInv, NEW i \in Clone, clone[i].phase \in {"sent", "lingers"},
           owner \in {i, Shared}, HoldsState(i), PollFrame(i)
    PROVE  /\ owner' = i /\ UNCHANGED panicked /\ BodyTypes' /\ Recorded'
           /\ HoldsState(i)' /\ GivenInOrder(i)'
           /\ src'.len = src.len /\ src'.trailers = src.trailers /\ src'.read >= src.read
           /\ \A j \in Clone : /\ clone'[j].phase = clone[j].phase
                               /\ j # i => clone'[j] = clone[j] /\ seen'[j] = seen[j]
<1> USE SizesAssumption
<1>1. BodyTypes /\ Recorded /\ GivenInOrder(i)
  BY DEF HttpInv
<1>2. owner' = i /\ UNCHANGED panicked /\ seen[i].end = "open"
  BY DEF PollFrame
<1>3. PICK s : s = shared
  OBVIOUS
<1>4. PICK x : x = seen[i]
  OBVIOUS
<1>5. PICK c : c = clone[i]
  OBVIOUS
<1>6. /\ x.data \in Seq(Nat) /\ x.end = "open" /\ Len(x.data) \in Nat
      /\ x \in SeenState
      /\ c.body \in BOOLEAN /\ c.trailers \in BOOLEAN
      /\ s.replay \in Seq(Nat) /\ Len(s.replay) \in Nat /\ s.idx \in Nat /\ s.budget \in Nat
      /\ src.read \in Nat /\ src.len \in Nat /\ src.read <= src.len
  BY <1>1, <1>2, <1>3, <1>4, <1>5 DEF BodyTypes, SrcState, SharedState, CloneState, SeenState
<1>7. /\ Len(x.data) <= src.read /\ \A k \in 1 .. Len(x.data) : x.data[k] = k
      /\ c.body => src.read <= MaxBuffered /\ s.idx = Len(x.data)
      /\ ~c.body => Len(x.data) = src.read
      /\ ~c.trailers => ~s.completed
  BY <1>1, <1>3, <1>4, <1>5, <1>6 DEF GivenInOrder, HoldsState
<1>8. /\ s.budget = IF src.read <= MaxBuffered THEN MaxBuffered + 1 - src.read ELSE 0
      /\ Len(s.replay) = IF src.read <= MaxBuffered THEN src.read ELSE 0
      /\ \A k \in 1 .. Len(s.replay) : s.replay[k] = k
      /\ s.completed => src.read = src.len /\ s.trailers = src.trailers
      /\ ~s.completed => ~s.trailers
  BY <1>1, <1>3 DEF Recorded
<1>9. c.body => s.budget > 0 /\ Len(s.replay) = src.read
  BY <1>6, <1>7, <1>8
<1>10. CASE /\ c.body /\ shared.idx < Len(shared.replay)
            /\ shared' = [shared EXCEPT !.idx = @ + 1]
            /\ seen' = Give(i, shared.replay[shared.idx + 1])
            /\ UNCHANGED <<src, clone>>
  <2>1. PICK n \in Nat : n = s.idx + 1
    BY <1>6
  <2>2. n = Len(x.data) + 1 /\ n <= Len(s.replay) /\ n \in 1 .. Len(s.replay)
    <3>1. s.idx < Len(s.replay) /\ s.idx = Len(x.data)
      BY Zenon, <1>3, <1>7, <1>10
    <3>2. s.idx \in Nat /\ Len(s.replay) \in Nat
      BY Zenon, <1>6
    <3> QED
      BY <2>1, <3>1, <3>2
  <2>3. s.replay[n] = n
    BY <1>8, <2>2
  <2>4. PICK e : e = Append(x.data, n)
    BY Zenon
  <2>5. e \in Seq(Nat) /\ Len(e) = n /\ \A k \in 1 .. Len(e) : e[k] = k
    BY <1>6, <1>7, <2>2, <2>4, GivenOne
  <2>6. seen' = [seen EXCEPT ![i].data = e]
    BY <1>3, <1>4, <1>10, <2>1, <2>3, <2>4 DEF Give
  <2>7. /\ seen'[i].data = e /\ seen'[i].end = "open"
        /\ \A j \in Clone : j # i => seen'[j] = seen[j]
        /\ seen' \in [Clone -> SeenState]
    BY Zenon, <1>1, <1>4, <1>6, <2>5, <2>6 DEF BodyTypes, SrcState, SharedState, CloneState, SeenState
  <2>8. shared'.idx = n /\ shared'.replay = s.replay /\ shared'.budget = s.budget
        /\ shared'.completed = s.completed /\ shared'.trailers = s.trailers
    BY <1>1, <1>3, <1>10, <2>1 DEF BodyTypes, SrcState, SharedState, CloneState, SeenState
  <2>9. n \in 0 .. MaxBuffered
    BY <1>6, <1>7, <1>8, <1>10, <2>2
  <2>10. shared' \in SharedState
    BY Zenon, <1>1, <1>3, <1>10, <2>1, <2>9 DEF BodyTypes, SrcState, SharedState, CloneState, SeenState
  <2>11. BodyTypes'
    BY Zenon, <1>1, <1>10, <2>7, <2>10 DEF BodyTypes, SrcState, SharedState, CloneState, SeenState
  <2>12. Recorded'
    BY <1>1, <1>3, <1>10, <2>8 DEF Recorded
  <2>13. HoldsState(i)' /\ GivenInOrder(i)'
    BY Zenon, <1>5, <1>6, <1>7, <1>9, <1>10, <2>2, <2>5, <2>7, <2>8 DEF HoldsState, GivenInOrder
  <2> QED  BY <1>2, <1>6, <1>10, <2>7, <2>11, <2>12, <2>13
<1>11. ~(c.body /\ shared.idx >= Len(shared.replay) /\ IsCapped(shared))
  BY <1>3, <1>9 DEF IsCapped
<1>12. ASSUME NEW how \in {"trailers", "done", "error"}, seen' = End(i, how),
              clone' = [clone EXCEPT ![i].body = FALSE, ![i].trailers = FALSE],
              UNCHANGED src, shared' \in SharedState,
              Recorded',
              how # "error" => Len(x.data) = src.len /\ (how = "trailers" <=> src.trailers)
       PROVE  /\ BodyTypes' /\ HoldsState(i)' /\ GivenInOrder(i)'
              /\ \A j \in Clone : /\ clone'[j].phase = clone[j].phase
                                  /\ j # i => clone'[j] = clone[j] /\ seen'[j] = seen[j]
  <2>1. /\ seen'[i].data = x.data /\ seen'[i].end = how
        /\ \A j \in Clone : j # i => seen'[j] = seen[j]
        /\ seen' \in [Clone -> SeenState]
    BY ZenonT(30), <1>1, <1>4, <1>12 DEF BodyTypes, SeenState, End
  <2>2. /\ clone'[i].phase = c.phase /\ clone'[i].body = FALSE
        /\ \A j \in Clone : j # i => clone'[j] = clone[j]
    BY <1>1, <1>5, <1>12 DEF BodyTypes, SrcState, SharedState, CloneState, SeenState
  <2>3. clone' \in [Clone -> CloneState]
    BY Zenon, <1>1, <1>12, ClearedIsClone
  <2>4. BodyTypes'
    BY Zenon, <1>1, <1>12, <2>1, <2>3 DEF BodyTypes, SrcState, SharedState, CloneState, SeenState
  <2>5. HoldsState(i)'
    BY <1>5, <2>1, <2>2 DEF HoldsState
  <2>6. GivenInOrder(i)'
    BY <1>5, <1>7, <1>12, <2>1, <2>2 DEF GivenInOrder
  <2> QED  BY <1>5, <2>1, <2>2, <2>4, <2>5, <2>6
<1>13. CASE /\ c.body => shared.idx >= Len(shared.replay) /\ ~IsCapped(shared)
            /\ clone' = [clone EXCEPT ![i].body = FALSE, ![i].trailers = FALSE]
            /\ \/ /\ c.trailers /\ shared.trailers
                  /\ seen' = End(i, "trailers") /\ UNCHANGED <<src, shared>>
               \/ /\ ~(c.trailers /\ shared.trailers) /\ shared.completed
                  /\ seen' = End(i, "done") /\ UNCHANGED <<src, shared>>
               \/ /\ ~shared.completed /\ src.failed
                  /\ seen' = End(i, "error") /\ UNCHANGED <<src, shared>>
               \/ /\ ~shared.completed /\ ~src.failed /\ src.read < src.len
                  /\ src' = [src EXCEPT !.read = @ + 1]
                  /\ shared' = RecordBytes(shared, src.read + 1)
                  /\ seen' = Give(i, src.read + 1)
               \/ /\ ~shared.completed /\ ~src.failed /\ src.read = src.len
                  /\ shared' = [shared EXCEPT !.completed = TRUE,
                                      !.trailers = src.trailers]
                  /\ seen' = End(i, IF src.trailers THEN "trailers" ELSE "done")
                  /\ UNCHANGED src
  <2>1. Len(x.data) = src.read
    BY <1>3, <1>6, <1>7, <1>9, <1>13
  <2>2. ASSUME UNCHANGED <<src, shared>> PROVE Recorded' /\ shared' \in
           SharedState
    BY <1>1, <2>2 DEF Recorded, BodyTypes, SrcState, SharedState, CloneState, SeenState
  <2>3. CASE c.trailers /\ shared.trailers /\ seen' = End(i, "trailers") /\ UNCHANGED <<src, shared>>
    <3>1. Len(x.data) = src.len /\ src.trailers
      BY Zenon, <1>3, <1>8, <2>1, <2>3
    <3>2. src'.len = src.len /\ src'.trailers = src.trailers /\ src'.read >= src.read
      BY <1>6, <2>3
    <3>3. shared' \in SharedState /\ Recorded' /\ UNCHANGED src
      BY <2>2, <2>3
    <3> QED  BY Zenon, <1>2, <1>12, <1>13, <2>3, <3>1, <3>2, <3>3
  <2>4. CASE /\ ~(c.trailers /\ shared.trailers) /\ shared.completed
             /\ seen' = End(i, "done") /\ UNCHANGED <<src, shared>>
    <3>1. Len(x.data) = src.len /\ ~src.trailers
      BY Zenon, <1>1, <1>3, <1>7, <1>8, <2>1, <2>4 DEF BodyTypes, SrcState, SharedState, CloneState, SeenState
    <3>2. src'.len = src.len /\ src'.trailers = src.trailers /\ src'.read >= src.read
      BY <1>6, <2>4
    <3>3. shared' \in SharedState /\ Recorded' /\ UNCHANGED src
      BY <2>2, <2>4
    <3> QED  BY Zenon, <1>2, <1>12, <1>13, <2>4, <3>1, <3>2, <3>3
  <2>5. CASE ~shared.completed /\ src.failed /\ seen' = End(i, "error") /\ UNCHANGED <<src, shared>>
    <3>2. src'.len = src.len /\ src'.trailers = src.trailers /\ src'.read >= src.read
      BY <1>6, <2>5
    <3>3. shared' \in SharedState /\ Recorded' /\ UNCHANGED src
      BY <2>2, <2>5
    <3> QED  BY Zenon, <1>2, <1>12, <1>13, <2>5, <3>2, <3>3
  <2>6. CASE /\ ~shared.completed /\ ~src.failed /\ src.read < src.len
             /\ src' = [src EXCEPT !.read = @ + 1]
             /\ shared' = RecordBytes(shared, src.read + 1)
             /\ seen' = Give(i, src.read + 1)
    <3>1. PICK n \in Nat : n = src.read + 1
      BY <1>6
    <3>2. n = Len(x.data) + 1 /\ n <= src.len
      BY <1>6, <2>1, <2>6, <3>1
    <3>3. PICK e : e = Append(x.data, n)
      BY Zenon
    <3>4. e \in Seq(Nat) /\ Len(e) = n /\ \A k \in 1 .. Len(e) : e[k] = k
      BY <1>6, <1>7, <3>2, <3>3, GivenOne
    <3>5. seen' = [seen EXCEPT ![i].data = e]
      BY <1>4, <2>6, <3>1, <3>3 DEF Give
    <3>6. /\ seen'[i].data = e /\ seen'[i].end = "open"
          /\ \A j \in Clone : j # i => seen'[j] = seen[j]
          /\ seen' \in [Clone -> SeenState]
      BY Zenon, <1>1, <1>4, <1>6, <3>4, <3>5 DEF BodyTypes, SrcState, SharedState, CloneState, SeenState
    <3>7. /\ clone'[i].phase = c.phase /\ clone'[i].body = FALSE
          /\ \A j \in Clone : j # i => clone'[j] = clone[j]
      BY <1>1, <1>5, <1>13 DEF BodyTypes, SrcState, SharedState, CloneState, SeenState
    <3>8. clone' \in [Clone -> CloneState]
      BY Zenon, <1>1, <1>13, ClearedIsClone
    <3>9. /\ src'.len = src.len /\ src'.read = n /\ src'.trailers = src.trailers
          /\ src' \in SrcState
      BY Zenon, <1>1, <2>6, <3>1 DEF BodyTypes, SrcState, SharedState, CloneState, SeenState
    <3>10. PICK left \in Nat : left = IF s.budget > 0 THEN s.budget - 1 ELSE 0
      BY <1>6
    <3>11. left = IF n <= MaxBuffered THEN MaxBuffered + 1 - n ELSE 0
      <4>1. s.budget = IF src.read <= MaxBuffered THEN MaxBuffered + 1 - src.read ELSE 0
        BY Zenon, <1>8
      <4>2. src.read \in Nat
        BY Zenon, <1>6
      <4> QED
        BY <3>1, <3>10, <4>1, <4>2
    <3>12. PICK r : r = Append(s.replay, n)
      BY Zenon
    <3>13. n <= MaxBuffered =>
             r \in Seq(Nat) /\ Len(r) = n /\ \A k \in 1 .. Len(r) : r[k] = k
      <4> SUFFICES ASSUME n <= MaxBuffered
          PROVE  r \in Seq(Nat) /\ Len(r) = n /\ \A k \in 1 .. Len(r) : r[k] = k
        OBVIOUS
      <4>1. n = Len(s.replay) + 1
        BY <1>6, <1>8, <3>1
      <4> QED  BY <1>6, <1>8, <3>12, <4>1, GivenOne
    <3>14. PICK t : t = IF left = 0 THEN <<>> ELSE r
      OBVIOUS
    <3>15. t \in Seq(Nat) /\ Len(t) = (IF n <= MaxBuffered THEN n ELSE 0)
           /\ \A k \in 1 .. Len(t) : t[k] = k
      <4>1. <<>> \in Seq(Nat) /\ Len(<<>>) = 0
        OBVIOUS
      <4>2. CASE n <= MaxBuffered
        <5>1. left # 0
          BY <3>11, <4>2
        <5> QED  BY <3>13, <3>14, <4>2, <5>1
      <4>3. CASE ~(n <= MaxBuffered)
        BY <3>11, <3>14, <4>1, <4>3
      <4> QED  BY <4>2, <4>3
    <3>16. shared' = [s EXCEPT !.budget = left, !.replay = t]
      BY <1>3, <2>6, <3>1, <3>10, <3>12, <3>14 DEF RecordBytes
    <3>17. /\ shared'.budget = left /\ shared'.replay = t /\ shared'.completed = s.completed
           /\ shared'.trailers = s.trailers
           /\ shared' \in SharedState
      BY Zenon, <1>1, <1>3, <3>15, <3>16 DEF BodyTypes, SrcState, SharedState, CloneState, SeenState
    <3>18. BodyTypes'
      BY Zenon, <3>2, <3>6, <3>8, <3>9, <3>17 DEF BodyTypes, SrcState, SharedState, CloneState, SeenState
    <3>19. Recorded'
      BY Zenon, <1>3, <1>8, <2>6, <3>9, <3>11, <3>15, <3>17 DEF Recorded
    <3>20. HoldsState(i)'
      BY Zenon, <1>3, <1>5, <2>6, <3>4, <3>6, <3>7, <3>9, <3>17 DEF HoldsState
    <3>21. GivenInOrder(i)'
      BY <1>5, <3>4, <3>6, <3>7, <3>9 DEF GivenInOrder
    <3>22. n >= src.read
      BY <1>6, <3>1
    <3> QED  BY <1>2, <1>5, <3>6, <3>7, <3>9, <3>18, <3>19, <3>20, <3>21, <3>22
  <2>7. CASE /\ ~shared.completed /\ ~src.failed /\ src.read = src.len
             /\ shared' = [shared EXCEPT !.completed = TRUE,
                                 !.trailers = src.trailers]
             /\ seen' = End(i, IF src.trailers THEN "trailers" ELSE "done")
             /\ UNCHANGED src
    <3>1. /\ shared'.budget = s.budget /\ shared'.replay = s.replay /\ shared'.completed = TRUE
          /\ shared'.trailers = src.trailers
          /\ shared' \in SharedState
      BY Zenon, <1>1, <1>3, <2>7 DEF BodyTypes, SrcState, SharedState, CloneState, SeenState
    <3>2. Recorded'
      BY <1>8, <2>7, <3>1 DEF Recorded
    <3>3. PICK how \in {"trailers", "done", "error"} :
             how = IF src.trailers THEN "trailers" ELSE "done"
      OBVIOUS
    <3>4. seen' = End(i, how)
      BY <2>7, <3>3
    <3>5. how # "error" => Len(x.data) = src.len /\ (how = "trailers" <=> src.trailers)
      BY <2>1, <2>7, <3>3
    <3> QED  BY Zenon, <1>2, <1>6, <1>12, <1>13, <2>7, <3>1, <3>2, <3>4, <3>5
  <2> QED  BY Zenon, <1>13, <2>3, <2>4, <2>5, <2>6, <2>7
<1> QED  BY Zenon, <1>5, <1>10, <1>11, <1>13 DEF PollFrame

(* ... and the other clones are not touched by it. *)
LEMMA PollKeeps ==
    ASSUME HttpInv, NEW i \in Clone, clone[i].phase \in {"sent", "lingers"},
           owner = i \/ (owner = Shared /\ pc \in Attempting /\ i = current),
           PollFrame(i), UNCHANGED <<cfg, pc, loopVars, late>>
    PROVE  HttpInv'
<1> USE OwnersAssumption
<1>1. /\ BodyTypes /\ LoopTypes /\ Recorded /\ (\A j \in Clone : GivenInOrder(j))
      /\ Held /\ Control
  BY DEF HttpInv
<1>2. HoldsState(i)
  BY Zenon, <1>1, PollsWithState DEF Held
<1>3. /\ owner' = i /\ UNCHANGED panicked /\ BodyTypes' /\ Recorded'
      /\ HoldsState(i)' /\ GivenInOrder(i)'
      /\ src'.len = src.len /\ src'.trailers = src.trailers /\ src'.read >= src.read
      /\ \A j \in Clone : /\ clone'[j].phase = clone[j].phase
                          /\ j # i => clone'[j] = clone[j] /\ seen'[j] = seen[j]
  BY <1>2, PollKeepsBody
<1>4. UNCHANGED <<cfg, pc, attempts, current, lastRes, latest, result, late>>
  BY DEF loopVars
<1>5. LoopTypes'
  BY <1>1, <1>3, <1>4 DEF LoopTypes
<1>6. ASSUME NEW j \in Clone PROVE GivenInOrder(j)'
  <2>1. CASE j = i
    BY Zenon, <1>3, <2>1
  <2>2. CASE j # i
    <3>1. clone'[j] = clone[j] /\ seen'[j] = seen[j] /\ GivenInOrder(j)
      BY <1>1, <1>3, <2>2
    <3>2. seen[j].data \in Seq(Nat) /\ src.read \in Nat /\ src'.read \in Nat
      BY <1>1, <1>3 DEF BodyTypes, SrcState, SeenState
    <3>3. Len(seen[j].data) \in Nat
      BY <3>2
    <3>4. Len(seen'[j].data) <= src'.read
      BY <1>3, <3>1, <3>2, <3>3 DEF GivenInOrder
    <3> QED  BY <1>3, <3>1, <3>4 DEF GivenInOrder
  <2> QED  BY <2>1, <2>2
<1>7. i # Shared
  OBVIOUS
<1>8. \A j \in Clone : clone[j].phase = "lingers" => j = i
  BY <1>1, <1>7 DEF Held
<1>9. \A j \in Clone : j # i /\ clone[j].phase \in {"next", "sent"} => Fresh(j)
  BY <1>1, <1>7 DEF Held
<1>10. Held'
  <2>1. \A j \in Clone : j # i => (Fresh(j) => Fresh(j)')
    BY <1>3 DEF Fresh
  <2>2. \A j \in Clone : clone'[j].phase \in {"next", "sent"} /\ j # i => Fresh(j)'
    BY <1>3, <1>9, <2>1
  <2>3. (\A j \in Clone : owner = j => HoldsState(j))'
    BY <1>3
  <2>4. (\A j \in Clone : clone[j].phase = "lingers" => owner = j)'
    BY <1>3, <1>8
  <2>5. (\A j \in Clone : clone[j].phase \in {"next", "sent"} /\ owner # j => Fresh(j))'
    BY <1>3, <2>2
  <2>6. owner' # Shared
    BY Zenon, <1>3, <1>7
  <2> QED  BY <2>3, <2>4, <2>5, <2>6 DEF Held
<1>11. Control'
  <2>1. pc \notin Early
    BY <1>1 DEF Control, NoClone
  <2>2. pc = "loop" /\ current = 0 => owner' = 0
    BY Zenon, <1>1, <1>3 DEF Control, Attempting
  <2>3. pc \in Attempting => owner' \in {current, Shared}
    BY Zenon, <1>1, <1>3 DEF Control
  <2>4. current \in Clone
    BY <1>1, SizesAssumption DEF LoopTypes, Clone
  <2>5. \A j \in Clone : clone'[j].phase = clone[j].phase
    BY Zenon, <1>3
  <2> QED  BY Zenon, <1>1, <1>4, <2>1, <2>2, <2>3, <2>4, <2>5 DEF Control, LastAttempt
<1> QED  BY <1>3, <1>5, <1>6, <1>10, <1>11 DEF HttpInv

\* Clones are dropped, or linger in the upstream connection; the state is put
\* back where its holder is dropped.
LEMMA DropKeepsBody ==
    ASSUME HttpInv, NEW gone \in SUBSET Clone, GiveBack(gone), UNCHANGED <<src, seen>>,
           clone' \in [Clone -> CloneState],
           \A j \in Clone : clone'[j].body = clone[j].body /\ clone'[j].trailers = clone[j].trailers,
           \A j \in gone : clone'[j].phase \in {"copied", "emptied", "dropped"},
           \A j \in Clone \ gone : \/ clone'[j].phase = clone[j].phase
                                   \/ owner = j /\ clone'[j].phase = "lingers"
    PROVE  /\ BodyTypes' /\ Recorded' /\ (\A j \in Clone : GivenInOrder(j)')
           /\ \A j \in Clone : owner' = j => HoldsState(j)'
           /\ \A j \in Clone : clone'[j].phase = "lingers" => owner' = j
           /\ \A j \in Clone : clone'[j].phase \in {"next", "sent"} /\ owner' # j => Fresh(j)'
           /\ owner' = Shared => shared'.idx = 0
           /\ owner' = IF owner \in gone THEN Shared ELSE owner
<1> USE OwnersAssumption, SizesAssumption
<1>1. BodyTypes /\ LoopTypes /\ Recorded /\ (\A j \in Clone : GivenInOrder(j)) /\ Held
  BY DEF HttpInv
<1>2. owner' = IF owner \in gone THEN Shared ELSE owner
  BY DEF GiveBack
<1>3. /\ shared'.replay = shared.replay /\ shared'.budget = shared.budget
      /\ shared'.completed = shared.completed /\ shared'.trailers = shared.trailers
      /\ shared'.idx = IF owner \in gone THEN 0 ELSE shared.idx
      /\ shared' \in SharedState
  <2>1. shared \in SharedState /\ 0 \in 0 .. MaxBuffered
    BY <1>1 DEF BodyTypes
  <2>2. PICK s \in SharedState : s = [shared EXCEPT !.idx = 0]
    BY Zenon, <2>1 DEF SharedState
  <2>3. /\ s.replay = shared.replay /\ s.budget = shared.budget
        /\ s.completed = shared.completed /\ s.trailers = shared.trailers /\ s.idx = 0
    BY <2>1, <2>2 DEF SharedState
  <2>4. shared' = IF owner \in gone THEN s ELSE shared
    BY <2>2 DEF GiveBack
  <2> QED  BY <2>1, <2>3, <2>4
<1>4. BodyTypes'
  BY Zenon, <1>1, <1>3 DEF BodyTypes
<1>5. Recorded'
  BY Zenon, <1>1, <1>3 DEF Recorded
<1>6. ASSUME NEW j \in Clone PROVE GivenInOrder(j)'
  <2>1. clone'[j].phase \in {"none", "next"} => clone[j].phase \in {"none", "next"}
    OBVIOUS
  <2>2. GivenInOrder(j)
    BY Zenon, <1>1
  <2> QED  BY Zenon, <2>1, <2>2 DEF GivenInOrder
<1>7. ASSUME NEW j \in Clone, owner' = j PROVE HoldsState(j)'
  <2>1. owner = j /\ j \notin gone
    BY Zenon, <1>2, <1>7
  <2>2. HoldsState(j)
    BY Zenon, <1>1, <2>1 DEF Held
  <2>3. clone'[j].phase \in {"next", "sent", "lingers"}
    BY <2>1, <2>2 DEF HoldsState
  <2>4. shared'.idx = shared.idx
    BY <1>3, <2>1
  <2> QED  BY <1>3, <2>2, <2>3, <2>4 DEF HoldsState
<1>8. ASSUME NEW j \in Clone, clone'[j].phase = "lingers" PROVE owner' = j
  <2>1. j \notin gone
    BY Zenon, <1>8
  <2>2. owner = j
    BY <1>1, <1>8, <2>1 DEF Held
  <2> QED  BY <1>2, <2>1, <2>2
<1>9. ASSUME NEW j \in Clone, clone'[j].phase \in {"next", "sent"}, owner' # j PROVE Fresh(j)'
  <2>1. j \notin gone /\ clone[j].phase = clone'[j].phase
    BY <1>9
  <2>2. owner # j
    BY Zenon, <1>2, <1>9, <2>1
  <2>3. Fresh(j)
    BY Zenon, <1>1, <1>9, <2>1, <2>2 DEF Held
  <2> QED  BY <2>3 DEF Fresh
<1>10. owner' = Shared => shared'.idx = 0
  BY <1>1, <1>2, <1>3 DEF Held
<1> QED  BY Zenon, <1>2, <1>4, <1>5, <1>6, <1>7, <1>8, <1>9, <1>10

-----------------------------------------------------------------------------
(* The retry loop                                                          *)

(* Dropping clones changes their phase alone. *)
LEMMA DroppedIs ==
    ASSUME NEW c \in [Clone -> CloneState], NEW gone \in SUBSET Clone
    PROVE  /\ Dropped(c, gone) \in [Clone -> CloneState]
           /\ \A j \in Clone : /\ Dropped(c, gone)[j].body = c[j].body
                               /\ Dropped(c, gone)[j].trailers = c[j].trailers
                               /\ Dropped(c, gone)[j].phase =
                                    IF j \in gone THEN "dropped" ELSE c[j].phase
<1>1. ASSUME NEW j \in Clone
      PROVE  /\ [c[j] EXCEPT !.phase = "dropped"] \in CloneState
             /\ [c[j] EXCEPT !.phase = "dropped"].phase = "dropped"
             /\ [c[j] EXCEPT !.phase = "dropped"].body = c[j].body
             /\ [c[j] EXCEPT !.phase = "dropped"].trailers = c[j].trailers
  <2>1. PICK d \in CloneState : d = c[j]
    OBVIOUS
  <2> QED  BY <2>1 DEF CloneState
<1> QED  BY <1>1 DEF Dropped

(* So does giving one another phase. *)
LEMMA PhaseIs ==
    ASSUME NEW c \in [Clone -> CloneState], NEW i \in Clone, NEW d,
           NEW ph \in {"sent", "next", "lingers", "copied", "emptied"},
           d = [c EXCEPT ![i].phase = ph]
    PROVE  /\ d \in [Clone -> CloneState]
           /\ \A j \in Clone : /\ d[j].body = c[j].body /\ d[j].trailers = c[j].trailers
                               /\ d[j].phase = IF j = i THEN ph ELSE c[j].phase
<1>1. PICK x \in CloneState : x = c[i]
  OBVIOUS
<1>2. PICK y \in CloneState : y = [x EXCEPT !.phase = ph]
  BY Zenon DEF CloneState
<1>3. y.phase = ph /\ y.body = x.body /\ y.trailers = x.trailers
  BY <1>2 DEF CloneState
<1>4. d = [c EXCEPT ![i] = y]
  BY Zenon, <1>1, <1>2
<1> QED  BY <1>1, <1>3, <1>4

(* An attempt ends: its body is dropped or lingers, and the loop returns or
   goes on with the next clone. *)
LEMMA EndAttemptKeeps ==
    ASSUME HttpInv, pc \in Attempting, NEW res \in Outcome, EndAttempt(res)
    PROVE  HttpInv'
<1> USE OwnersAssumption, SizesAssumption
<1>1. BodyTypes /\ LoopTypes /\ Held /\ Control
  BY DEF HttpInv
<1>2. current \in Clone /\ current \in Nat /\ attempts \in Nat
  BY <1>1 DEF LoopTypes, Clone
<1>3. PICK lingers \in BOOLEAN :
      LET over == LastAttempt \/ res \notin Retryable
          gone == (IF lingers THEN {} ELSE {current})
                     \cup {i \in Clone : over /\ clone[i].phase = "next"}
          left == Dropped(clone, gone)
      IN
      /\ lingers => pc = "call" /\ owner = current /\ clone[current].phase = "sent"
      /\ clone' = IF lingers THEN [left EXCEPT ![current].phase = "lingers"] ELSE left
      /\ GiveBack(gone)
      /\ latest' = res
      /\ IF over
         THEN pc' = "done" /\ result' = res /\ UNCHANGED <<current, lastRes>>
         ELSE pc' = "loop" /\ lastRes' = res /\ current' = current + 1 /\ UNCHANGED result
      /\ UNCHANGED <<cfg, src, seen, attempts, late, panicked>>
  BY Zenon DEF EndAttempt
<1>4. PICK over \in BOOLEAN : over = (LastAttempt \/ res \notin Retryable)
  BY Zenon
<1>5. PICK gone \in SUBSET Clone :
         gone = (IF lingers THEN {} ELSE {current})
                     \cup {i \in Clone : over /\ clone[i].phase = "next"}
  BY Zenon, <1>2
<1>6. PICK left \in [Clone -> CloneState] : left = Dropped(clone, gone)
  BY <1>1, DroppedIs DEF BodyTypes
<1>7. \A j \in Clone : /\ left[j].body = clone[j].body /\ left[j].trailers = clone[j].trailers
                       /\ left[j].phase = IF j \in gone THEN "dropped" ELSE clone[j].phase
  BY <1>1, <1>6, DroppedIs DEF BodyTypes
<1>8. /\ lingers => pc = "call" /\ owner = current /\ clone[current].phase = "sent"
      /\ clone' = IF lingers THEN [left EXCEPT ![current].phase = "lingers"] ELSE left
      /\ GiveBack(gone)
      /\ latest' = res
      /\ over => pc' = "done" /\ result' = res /\ UNCHANGED <<current, lastRes>>
      /\ ~over => pc' = "loop" /\ lastRes' = res /\ current' = current + 1 /\ UNCHANGED result
      /\ UNCHANGED <<cfg, src, seen, attempts, late, panicked>>
  BY Zenon, <1>3, <1>4, <1>5, <1>6
<1>9. lingers => current \notin gone
  BY <1>5, <1>8
<1>10. /\ clone' \in [Clone -> CloneState]
       /\ \A j \in Clone : /\ clone'[j].body = clone[j].body
                           /\ clone'[j].trailers = clone[j].trailers
                           /\ clone'[j].phase = IF j = current /\ lingers THEN "lingers"
                                                ELSE IF j \in gone THEN "dropped"
                                                ELSE clone[j].phase
  <2>1. CASE lingers
    <3>1. clone' = [left EXCEPT ![current].phase = "lingers"]
      BY <1>8, <2>1
    <3>2. /\ clone' \in [Clone -> CloneState]
          /\ \A j \in Clone : /\ clone'[j].body = left[j].body /\ clone'[j].trailers = left[j].trailers
                              /\ clone'[j].phase = IF j = current THEN "lingers" ELSE left[j].phase
      BY <1>2, <3>1, PhaseIs
    <3> QED  BY <1>7, <2>1, <3>2
  <2>2. CASE ~lingers
    BY <1>7, <1>8, <2>2
  <2> QED  BY Zenon, <2>1, <2>2
<1>11. /\ BodyTypes' /\ Recorded' /\ (\A j \in Clone : GivenInOrder(j)')
       /\ \A j \in Clone : owner' = j => HoldsState(j)'
       /\ \A j \in Clone : clone'[j].phase = "lingers" => owner' = j
       /\ \A j \in Clone : clone'[j].phase \in {"next", "sent"} /\ owner' # j => Fresh(j)'
       /\ owner' = Shared => shared'.idx = 0
       /\ owner' = IF owner \in gone THEN Shared ELSE owner
  <2>1. \A j \in gone : clone'[j].phase \in {"copied", "emptied", "dropped"}
    BY <1>9, <1>10
  <2>2. \A j \in Clone \ gone : \/ clone'[j].phase = clone[j].phase
                                \/ owner = j /\ clone'[j].phase = "lingers"
    BY <1>8, <1>10
  <2> QED  BY <1>8, <1>10, <2>1, <2>2, DropKeepsBody
<1>12. pc' \in {"done", "loop"}
  BY Zenon, <1>8
<1>13. Held'
  BY <1>11, <1>12 DEF Held, Attempting
<1>14. ~over => current' = current + 1 /\ current + 1 <= attempts - 1 /\ res \in Retryable
  <2>1. ~over => current # attempts - 1 /\ res \in Retryable
    BY Zenon, <1>4 DEF LastAttempt
  <2>2. current <= attempts - 1
    BY <1>1, <1>2 DEF LoopTypes
  <2>3. current # attempts - 1 => current + 1 <= attempts - 1
    BY <1>2, <2>2
  <2> QED  BY <1>8, <2>1, <2>3
<1>15. LoopTypes'
  <2>1. current' \in 0 .. attempts' - 1
    BY <1>1, <1>2, <1>8, <1>14 DEF LoopTypes
  <2>2. owner' \in Clone \cup {Shared}
    BY <1>1, <1>11 DEF LoopTypes
  <2>3. lastRes' \in Outcome \cup {None} /\ latest' \in Outcome \cup {None}
        /\ result' \in Outcome \cup {None}
    BY <1>1, <1>8 DEF LoopTypes
  <2>4. pc' \in Places
    BY <1>12 DEF Places
  <2> QED  BY <1>1, <1>8, <2>1, <2>2, <2>3, <2>4 DEF LoopTypes
<1>16. Control'
  <2>0. /\ clone[current].phase \in {"sent", "copied", "emptied"}
        /\ \A i \in Clone : i > current =>
              clone[i].phase = IF i = current + 1 /\ ~LastAttempt THEN "next" ELSE "none"
        /\ \A i \in Clone : i < current => clone[i].phase \notin {"none", "next", "sent"}
    BY <1>1 DEF Control, Attempting, Early
  <2>1. clone'[current].phase \in {"lingers", "dropped"}
    BY <1>2, <1>5, <1>10
  <2>2. \A i \in Clone : i < current => clone'[i].phase \notin {"none", "next", "sent"}
    BY Zenon, <1>2, <1>10, <2>0
  <2>3. CASE over
    <3>1. pc' = "done" /\ current' = current /\ result' = res /\ latest' = res
      BY <1>8, <2>3
    <3>2. ASSUME NEW i \in Clone PROVE clone'[i].phase \notin {"next", "sent"}
      <4>1. CASE i > current
        <5>1. clone[i].phase = "next" => i \in gone
          BY <1>5, <2>3
        <5>2. clone[i].phase \in {"next", "none"}
          BY <2>0, <4>1
        <5> QED  BY Zenon, <1>10, <5>1, <5>2
      <4>2. CASE i < current
        BY <2>2, <4>2
      <4>3. CASE i = current
        BY Zenon, <2>1, <4>3
      <4> QED  BY <1>2, <4>1, <4>2, <4>3 DEF Clone
    <3> QED  BY <2>2, <3>1, <3>2 DEF Control, Early, Attempting
  <2>4. CASE ~over
    <3>1. pc' = "loop" /\ current' = current + 1 /\ latest' = res /\ lastRes' = res
          /\ res \in Retryable
      BY <1>8, <1>14, <2>4
    <3>2. ~LastAttempt /\ current + 1 \in Clone
      <4>1. ~LastAttempt
        BY Zenon, <1>4, <2>4
      <4>2. attempts <= MaxRetries + 1 /\ current + 1 <= attempts - 1
        BY <1>1, <1>14, <2>4 DEF LoopTypes
      <4>3. current + 1 \in 0 .. MaxRetries
        BY <1>2, <4>2
      <4> QED  BY <4>1, <4>3 DEF Clone
    <3>3. clone'[current + 1].phase = "next"
      <4>1. clone[current + 1].phase = "next"
        BY <1>2, <2>0, <3>2
      <4>2. current + 1 \notin gone /\ current + 1 # current
        BY <1>2, <1>5, <2>4
      <4> QED  BY <1>10, <3>2, <4>1, <4>2
    <3>4. ASSUME NEW i \in Clone, i > current + 1 PROVE clone'[i].phase = "none"
      <4>1. i > current /\ i # current + 1 /\ i # current
        BY <1>2, <3>4 DEF Clone
      <4>2. clone[i].phase = "none"
        BY <2>0, <4>1
      <4>3. i \notin gone
        BY <1>5, <2>4, <4>1
      <4> QED  BY <1>10, <4>1, <4>2, <4>3
    <3>5. ASSUME NEW i \in Clone, i < current + 1
          PROVE  clone'[i].phase \notin {"none", "next", "sent"}
      <4>1. i < current \/ i = current
        BY <1>2, <3>5 DEF Clone
      <4> QED  BY <2>1, <2>2, <4>1
    <3>6. current + 1 # 0
      BY <1>2
    <3> QED  BY <3>1, <3>3, <3>4, <3>5, <3>6 DEF Control, Early, Attempting
  <2> QED  BY Zenon, <2>3, <2>4
<1> QED  BY <1>11, <1>13, <1>15, <1>16 DEF HttpInv

(* The call is made with a body of its own. *)
LEMMA CallWithKeeps ==
    ASSUME HttpInv, pc = "buffer", NEW body \in {"copied", "emptied"}, CallWith(body)
    PROVE  HttpInv'
<1> USE OwnersAssumption, SizesAssumption
<1>1. BodyTypes /\ LoopTypes /\ Held /\ Control
  BY DEF HttpInv
<1>2. current \in Clone /\ {current} \in SUBSET Clone
  BY <1>1 DEF LoopTypes, Clone
<1>3. /\ pc' = "call" /\ GiveBack({current})
      /\ clone' = [clone EXCEPT ![current].phase = body]
      /\ UNCHANGED <<cfg, src, seen, attempts, current, lastRes, latest, result, late, panicked>>
  BY DEF CallWith, loopVars
<1>4. /\ clone' \in [Clone -> CloneState]
      /\ \A j \in Clone : /\ clone'[j].body = clone[j].body /\ clone'[j].trailers = clone[j].trailers
                          /\ clone'[j].phase = IF j = current THEN body ELSE clone[j].phase
  BY <1>1, <1>2, <1>3, PhaseIs DEF BodyTypes
<1>5. /\ BodyTypes' /\ Recorded' /\ (\A j \in Clone : GivenInOrder(j)')
      /\ \A j \in Clone : owner' = j => HoldsState(j)'
      /\ \A j \in Clone : clone'[j].phase = "lingers" => owner' = j
      /\ \A j \in Clone : clone'[j].phase \in {"next", "sent"} /\ owner' # j => Fresh(j)'
      /\ owner' = Shared => shared'.idx = 0
      /\ owner' = IF owner \in {current} THEN Shared ELSE owner
  <2>1. \A j \in {current} : clone'[j].phase \in {"copied", "emptied", "dropped"}
    BY <1>2, <1>4
  <2>2. \A j \in Clone \ {current} : \/ clone'[j].phase = clone[j].phase
                                     \/ owner = j /\ clone'[j].phase = "lingers"
    BY <1>4
  <2> QED  BY <1>2, <1>3, <1>4, <2>1, <2>2, DropKeepsBody
<1>6. clone'[current].phase \in {"copied", "emptied"}
  BY <1>2, <1>4
<1>7. Held'
  BY <1>3, <1>5, <1>6 DEF Held
<1>8. LoopTypes'
  BY <1>1, <1>3, <1>5 DEF LoopTypes, Places
<1>9. Control'
  <2>1. owner' \in {current, Shared}
    BY Zenon, <1>1, <1>5 DEF Control, Attempting
  <2>2. /\ \A i \in Clone : i > current =>
              clone[i].phase = IF i = current + 1 /\ ~LastAttempt THEN "next" ELSE "none"
        /\ \A i \in Clone : i < current => clone[i].phase \notin {"none", "next", "sent"}
    BY <1>1 DEF Control, Attempting, Early
  <2>3. LastAttempt' = LastAttempt
    BY <1>3 DEF LastAttempt
  <2>4. \A i \in Clone : i > current \/ i < current => clone'[i].phase = clone[i].phase
    <3>1. \A i \in Clone : i > current \/ i < current => i # current
      BY <1>2 DEF Clone
    <3> QED  BY <1>4, <3>1
  <2> QED  BY Zenon, <1>3, <1>6, <2>1, <2>2, <2>3, <2>4 DEF Control, Attempting, Early
<1> QED  BY <1>5, <1>7, <1>8, <1>9 DEF HttpInv

(* A body that lingered is dropped, and the state is given back. *)
LEMMA UpstreamDropsKeeps ==
    ASSUME HttpInv, NEW i \in Clone, UpstreamDrops(i)
    PROVE  HttpInv'
<1> USE OwnersAssumption, SizesAssumption
<1>1. BodyTypes /\ LoopTypes /\ Held /\ Control
  BY DEF HttpInv
<1>2. current \in Clone /\ {i} \in SUBSET Clone /\ i # Shared
  BY <1>1 DEF LoopTypes, Clone
<1>3. /\ clone[i].phase = "lingers" /\ clone' = Dropped(clone, {i}) /\ GiveBack({i})
      /\ UNCHANGED <<cfg, pc, src, seen, attempts, current, lastRes, latest, result, late,
                     panicked>>
  BY Zenon DEF UpstreamDrops, loopVars
<1>4. /\ clone' \in [Clone -> CloneState]
      /\ \A j \in Clone : /\ clone'[j].body = clone[j].body /\ clone'[j].trailers = clone[j].trailers
                          /\ clone'[j].phase = IF j \in {i} THEN "dropped" ELSE clone[j].phase
  BY <1>1, <1>2, <1>3, DroppedIs DEF BodyTypes
<1>5. /\ BodyTypes' /\ Recorded' /\ (\A j \in Clone : GivenInOrder(j)')
      /\ \A j \in Clone : owner' = j => HoldsState(j)'
      /\ \A j \in Clone : clone'[j].phase = "lingers" => owner' = j
      /\ \A j \in Clone : clone'[j].phase \in {"next", "sent"} /\ owner' # j => Fresh(j)'
      /\ owner' = Shared => shared'.idx = 0
      /\ owner' = IF owner \in {i} THEN Shared ELSE owner
  <2>1. \A j \in {i} : clone'[j].phase \in {"copied", "emptied", "dropped"}
    BY <1>4
  <2>2. \A j \in Clone \ {i} : \/ clone'[j].phase = clone[j].phase
                               \/ owner = j /\ clone'[j].phase = "lingers"
    BY <1>4
  <2> QED  BY Zenon, <1>2, <1>3, <1>4, <2>1, <2>2, DropKeepsBody
<1>6. owner = i
  BY Zenon, <1>1, <1>3 DEF Held
<1>7. pc \notin Early /\ pc \notin Attempting
  <2>1. pc \notin Early
    BY <1>1, <1>3 DEF Control, NoClone
  <2>2. pc \in Attempting => i = current
    BY <1>1, <1>2, <1>6 DEF Control
  <2>3. pc \in Attempting => clone[current].phase \in {"sent", "copied", "emptied"}
    BY <1>1 DEF Control
  <2> QED  BY Zenon, <1>3, <2>1, <2>2, <2>3
<1>8. Held'
  BY Zenon, <1>3, <1>5, <1>7 DEF Held
<1>9. LoopTypes'
  BY Zenon, <1>1, <1>3, <1>5 DEF LoopTypes
<1>10. pc = "loop" => i # current /\ current # 0
  BY <1>1, <1>3, <1>6 DEF Control
<1>11. Control'
  <2>1. pc = "loop" => /\ clone'[current].phase = "next"
                       /\ \A j \in Clone : j > current => clone'[j].phase = "none"
    BY Zenon, <1>1, <1>2, <1>3, <1>4, <1>10 DEF Control
  <2>2. \A j \in Clone : j < current => clone'[j].phase \notin {"none", "next", "sent"}
    BY Zenon, <1>1, <1>4, <1>7 DEF Control
  <2>3. pc = "done" => \A j \in Clone : clone'[j].phase \notin {"next", "sent"}
    BY Zenon, <1>1, <1>4 DEF Control
  <2>4. pc = "done" => (latest # None => result = latest)
    BY <1>1 DEF Control
  <2>5. pc = "loop" => (current > 0 => latest \in Retryable /\ lastRes = latest)
    BY <1>1 DEF Control
  <2> QED  BY Zenon, <1>3, <1>7, <1>10, <2>1, <2>2, <2>3, <2>4, <2>5 DEF Control
<1> QED  BY <1>5, <1>8, <1>9, <1>11 DEF HttpInv

(* The top of the loop: the test of is_capped is what makes the state of the
   clone replayable. *)
LEMMA StartAttemptKeeps ==
    ASSUME HttpInv, StartAttempt
    PROVE  HttpInv'
<1> USE OwnersAssumption, SizesAssumption
<1>1. BodyTypes /\ LoopTypes /\ Recorded /\ Held /\ Control /\ \A j \in Clone : GivenInOrder(j)
  BY DEF HttpInv
<1>2. current \in Clone /\ {current} \in SUBSET Clone /\ current \in Nat /\ attempts \in Nat
  BY <1>1 DEF LoopTypes, Clone
<1>3. /\ pc = "loop" /\ clone[current].phase = "next"
      /\ \A i \in Clone : i > current => clone[i].phase = "none"
      /\ \A i \in Clone : i < current => clone[i].phase \notin {"none", "next", "sent"}
      /\ current = 0 => owner = 0
      /\ current > 0 => latest \in Retryable /\ lastRes = latest
  BY Zenon, <1>1 DEF StartAttempt, Control, Early
<1>4. IsCapped(shared) <=> ~(src.read <= MaxBuffered)
  <2>1. src.read \in Nat /\ MaxBuffered \in Nat
    BY <1>1 DEF BodyTypes, SrcState
  <2>2. src.read <= MaxBuffered => MaxBuffered + 1 - src.read # 0
    BY <2>1
  <2> QED  BY <1>1, <2>2 DEF Recorded, IsCapped
<1>5. UNCHANGED <<cfg, src, seen, attempts, current, latest, late>>
  BY Zenon DEF StartAttempt
<1>6. CASE CloneIsCapped(current) \in {{}, {TRUE}}
  <2>1. /\ pc' = "done" /\ result' = lastRes /\ panicked' = (lastRes = None)
        /\ clone' = Dropped(clone, {current}) /\ GiveBack({current}) /\ UNCHANGED lastRes
    BY <1>6 DEF StartAttempt, GiveUp
  <2>2. current > 0
    <3> SUFFICES ASSUME current = 0 PROVE FALSE
      BY <1>2
    <3>1. owner = current /\ HoldsState(current) /\ seen[current] = Unread
      BY <1>1, <1>2, <1>3 DEF Held, GivenInOrder
    <3>2. Len(Unread.data) = 0 /\ Unread.end = "open"
      BY Zenon DEF Unread
    <3>3. src.read <= MaxBuffered
      BY <3>1, <3>2 DEF HoldsState
    <3>4. CloneIsCapped(current) = {FALSE}
      <4>1. CloneIsCapped(current) = {IsCapped(shared)}
        BY <3>1 DEF CloneIsCapped
      <4>2. IsCapped(shared) \in BOOLEAN
        BY DEF IsCapped
      <4>3. IsCapped(shared) = FALSE
        BY <1>4, <3>3, <4>2
      <4> QED  BY Zenon, <4>1, <4>3
    <3> QED  BY Zenon, <1>6, <3>4
  <2>3. lastRes # None /\ lastRes = latest
    BY Zenon, <1>3, <2>2, NoneAssumption DEF Outcome
  <2>4. /\ clone' \in [Clone -> CloneState]
        /\ \A j \in Clone : /\ clone'[j].body = clone[j].body
                            /\ clone'[j].trailers = clone[j].trailers
                            /\ clone'[j].phase = IF j \in {current} THEN "dropped" ELSE clone[j].phase
    BY <1>1, <1>2, <2>1, DroppedIs DEF BodyTypes
  <2>5. /\ BodyTypes' /\ Recorded' /\ (\A j \in Clone : GivenInOrder(j)')
        /\ \A j \in Clone : owner' = j => HoldsState(j)'
        /\ \A j \in Clone : clone'[j].phase = "lingers" => owner' = j
        /\ \A j \in Clone : clone'[j].phase \in {"next", "sent"} /\ owner' # j => Fresh(j)'
        /\ owner' = Shared => shared'.idx = 0
        /\ owner' = IF owner \in {current} THEN Shared ELSE owner
    <3>1. \A j \in {current} : clone'[j].phase \in {"copied", "emptied", "dropped"}
      BY <1>2, <2>4
    <3>2. \A j \in Clone \ {current} : \/ clone'[j].phase = clone[j].phase
                                       \/ owner = j /\ clone'[j].phase = "lingers"
      BY <2>4
    <3> QED  BY Zenon, <1>2, <1>5, <2>1, <2>4, <3>1, <3>2, DropKeepsBody
  <2>6. Held'
    BY Zenon, <2>1, <2>5 DEF Held, Attempting
  <2>7. LoopTypes'
    <3>1. owner' \in Clone \cup {Shared}
      BY <1>1, <2>5 DEF LoopTypes
    <3>2. panicked' = FALSE /\ pc' \in Places /\ result' \in Outcome \cup {None}
          /\ lastRes' \in Outcome \cup {None}
      BY Zenon, <1>1, <2>1, <2>3 DEF LoopTypes, Places
    <3> QED  BY Zenon, <1>1, <1>5, <3>1, <3>2 DEF LoopTypes
  <2>8. Control'
    <3>1. ASSUME NEW i \in Clone PROVE clone'[i].phase \notin {"next", "sent"}
      <4>1. i > current \/ i < current \/ i = current
        BY <1>2 DEF Clone
      <4> QED  BY Zenon, <1>2, <1>3, <2>4, <4>1
    <3>2. ASSUME NEW i \in Clone, i < current PROVE clone'[i].phase # "none"
      BY <1>3, <2>4, <3>2
    <3> QED  BY Zenon, <1>5, <2>1, <2>3, <3>1, <3>2 DEF Control, Early, Attempting
  <2> QED  BY <2>5, <2>6, <2>7, <2>8 DEF HttpInv
<1>7. CASE CloneIsCapped(current) \notin {{}, {TRUE}}
  <2>1. /\ pc' = "prepare" /\ lastRes' = None
        /\ clone' = [i \in Clone |->
                 CASE i = current -> [clone[i] EXCEPT !.phase = "sent"]
                   [] i = current + 1 /\ ~LastAttempt ->
                        [phase |-> "next", body |-> TRUE, trailers |-> TRUE]
                   [] OTHER -> clone[i]]
        /\ UNCHANGED <<owner, shared, result, panicked>>
    BY <1>7 DEF StartAttempt
  <2>2. owner \in {current, Shared} /\ src.read <= MaxBuffered
    <3>1. owner \in {current, Shared}
      BY Zenon, <1>7 DEF CloneIsCapped
    <3>2. CloneIsCapped(current) = {IsCapped(shared)}
      BY <3>1 DEF CloneIsCapped
    <3>3. IsCapped(shared) \in BOOLEAN
      BY DEF IsCapped
    <3>4. ~IsCapped(shared)
      BY Zenon, <1>7, <3>2, <3>3
    <3> QED  BY <1>4, <3>1, <3>4
  <2>3. PICK c \in CloneState : c = [clone[current] EXCEPT !.phase = "sent"]
    <3>1. PICK d \in CloneState : d = clone[current]
      BY <1>1, <1>2 DEF BodyTypes
    <3> QED  BY Zenon, <3>1 DEF CloneState
  <2>4. c.phase = "sent" /\ c.body = clone[current].body /\ c.trailers = clone[current].trailers
    <3>1. PICK d \in CloneState : d = clone[current]
      BY <1>1, <1>2 DEF BodyTypes
    <3> QED  BY <2>3, <3>1 DEF CloneState
  <2>5. PICK nx \in CloneState : nx = [phase |-> "next", body |-> TRUE, trailers |-> TRUE]
    BY Zenon DEF CloneState
  <2>6. nx.phase = "next" /\ nx.body = TRUE /\ nx.trailers = TRUE
    BY <2>5
  <2>7. current + 1 # current
    BY <1>2
  <2>8. \A i \in Clone : clone'[i] = IF i = current THEN c
                                     ELSE IF i = current + 1 /\ ~LastAttempt THEN nx ELSE clone[i]
    BY <2>1, <2>3, <2>5, <2>7
  <2>9. clone' \in [Clone -> CloneState]
    <3>1. DOMAIN clone' = Clone /\ clone' = [i \in Clone |-> clone'[i]]
      BY <2>1
    <3>2. \A i \in Clone : clone'[i] \in CloneState
      BY <1>1, <2>8 DEF BodyTypes
    <3> QED  BY <3>1, <3>2
  <2>10. BodyTypes' /\ Recorded'
    BY <1>1, <1>5, <2>1, <2>9 DEF BodyTypes, Recorded
  <2>11. ASSUME NEW j \in Clone PROVE GivenInOrder(j)'
    <3>1. clone'[j].phase \in {"none", "next"} => seen[j] = Unread
      <4>1. CASE j = current
        BY Zenon, <2>4, <2>8, <4>1
      <4>2. CASE j = current + 1 /\ ~LastAttempt
        <5>1. clone[j].phase = "none"
          BY <1>2, <1>3, <4>2
        <5> QED  BY <1>1, <5>1 DEF GivenInOrder
      <4>3. CASE j # current /\ ~(j = current + 1 /\ ~LastAttempt)
        BY <1>1, <2>8, <4>3 DEF GivenInOrder
      <4> QED  BY <4>1, <4>2, <4>3
    <3>2. GivenInOrder(j)
      BY Zenon, <1>1
    <3> QED  BY <1>5, <2>1, <3>1, <3>2 DEF GivenInOrder
  <2>12. Held'
    <3>1. ASSUME NEW j \in Clone, owner' = j PROVE HoldsState(j)'
      <4>1. j = current /\ owner = current
        BY <2>1, <2>2, <3>1
      <4>2. HoldsState(current)
        BY <1>1, <1>2, <4>1 DEF Held
      <4>3. clone'[j] = c
        BY <1>2, <2>8, <4>1
      <4> QED  BY <1>5, <2>1, <2>4, <4>1, <4>2, <4>3 DEF HoldsState
    <3>2. ASSUME NEW j \in Clone, clone'[j].phase = "lingers" PROVE owner' = j
      <4>1. clone'[j] = clone[j]
        BY <2>4, <2>6, <2>8, <3>2
      <4> QED  BY <1>1, <2>1, <3>2, <4>1 DEF Held
    <3>3. ASSUME NEW j \in Clone, clone'[j].phase \in {"next", "sent"}, owner' # j
          PROVE  Fresh(j)'
      <4>1. CASE j = current
        <5>1. Fresh(current)
          BY Zenon, <1>1, <1>2, <1>3, <2>1, <3>3, <4>1 DEF Held
        <5> QED  BY Zenon, <1>2, <1>5, <2>4, <2>8, <4>1, <5>1 DEF Fresh
      <4>2. CASE j = current + 1 /\ ~LastAttempt
        <5>1. clone[j].phase = "none" /\ j # current
          BY <1>2, <1>3, <4>2
        <5>2. seen[j] = Unread
          BY <1>1, <5>1 DEF GivenInOrder
        <5>3. clone'[j] = nx
          BY <2>8, <4>2, <5>1
        <5> QED  BY <1>5, <2>6, <5>2, <5>3 DEF Fresh
      <4>3. CASE j # current /\ ~(j = current + 1 /\ ~LastAttempt)
        <5>1. clone'[j] = clone[j]
          BY <2>8, <4>3
        <5>2. Fresh(j)
          BY Zenon, <1>1, <2>1, <3>3, <5>1 DEF Held
        <5> QED  BY <1>5, <5>1, <5>2 DEF Fresh
      <4> QED  BY <4>1, <4>2, <4>3
    <3>4. owner' = Shared => shared'.idx = 0
      BY <1>1, <2>1 DEF Held
    <3>5. src'.read <= MaxBuffered
      BY <1>5, <2>2
    <3> QED  BY <3>1, <3>2, <3>3, <3>4, <3>5 DEF Held
  <2>13. LoopTypes'
    BY <1>1, <1>5, <2>1 DEF LoopTypes, Places
  <2>14. Control'
    <3>1. LastAttempt' = LastAttempt
      BY <1>5 DEF LastAttempt
    <3>2. clone'[current].phase = "sent"
      BY <1>2, <2>4, <2>8
    <3>3. ASSUME NEW i \in Clone, i > current
          PROVE  clone'[i].phase = IF i = current + 1 /\ ~LastAttempt THEN "next" ELSE "none"
      <4>1. i # current /\ clone[i].phase = "none"
        BY <1>2, <1>3, <3>3 DEF Clone
      <4> QED  BY <2>6, <2>8, <4>1
    <3>4. ASSUME NEW i \in Clone, i < current
          PROVE  clone'[i].phase \notin {"none", "next", "sent"}
      <4>1. i # current /\ i # current + 1
        BY <1>2, <3>4 DEF Clone
      <4>2. clone'[i] = clone[i]
        BY <2>8, <4>1
      <4> QED  BY <1>3, <3>4, <4>2
    <3> QED  BY <1>5, <2>1, <2>2, <3>1, <3>2, <3>3, <3>4 DEF Control, Early, Attempting
  <2> QED  BY <2>10, <2>11, <2>12, <2>13, <2>14 DEF HttpInv
<1> QED  BY Zenon, <1>6, <1>7

-----------------------------------------------------------------------------
(* The other steps leave the body alone, or come before the first attempt. *)

(* A stage before the first attempt. *)
LEMMA StageKeeps ==
    ASSUME HttpInv, NEW from \in Early, NEW to \in Early, NEW stops \in SUBSET {"error", "direct"},
           Stage(from, to, stops)
    PROVE  HttpInv'
<1>1. BodyTypes /\ LoopTypes /\ Recorded /\ Held /\ Control /\ \A j \in Clone : GivenInOrder(j)
  BY DEF HttpInv
<1>2. /\ pc \in Early
      /\ UNCHANGED <<cfg, src, shared, owner, clone, seen, attempts, current, lastRes, latest,
                     late, panicked>>
      /\ \/ pc' = to /\ UNCHANGED result
         \/ pc' = "done" /\ result' \in {"error", "direct"}
  BY Zenon DEF Stage, ReturnEarly, bodyVars
<1>3. BodyTypes' /\ Recorded' /\ \A j \in Clone : GivenInOrder(j)'
  BY <1>1, <1>2 DEF BodyTypes, Recorded, GivenInOrder
<1>4. pc' \in Early \/ pc' = "done"
  BY <1>2
<1>5. Held'
  <2>1. pc' \notin Attempting
    BY Zenon, <1>4 DEF Early, Attempting
  <2>2. \A j \in Clone : (HoldsState(j) => HoldsState(j)') /\ (Fresh(j) => Fresh(j)')
    BY Zenon, <1>2 DEF HoldsState, Fresh
  <2> QED  BY Zenon, <1>1, <1>2, <2>1, <2>2 DEF Held
<1>6. LoopTypes'
  BY <1>1, <1>2, <1>4 DEF LoopTypes, Places, Early, Outcome, Final
<1>7. Control'
  <2>1. /\ shared = NewState /\ owner = Shared /\ src.read = 0
        /\ \A i \in Clone : clone[i] = NoClone
        /\ current = 0 /\ attempts = 1 /\ latest = None /\ lastRes = None
    BY <1>1, <1>2 DEF Control
  <2>2. NoClone.phase = "none"
    BY DEF NoClone
  <2>3. \A i \in Clone : ~(i < 0)
    BY SizesAssumption DEF Clone
  <2>4. CASE pc' \in Early
    <3>1. pc' # "loop" /\ pc' \notin Attempting /\ pc' # "done"
      BY Zenon, <2>4 DEF Early, Attempting
    <3> QED  BY <1>2, <2>1, <2>4, <3>1 DEF Control
  <2>5. CASE pc' = "done"
    <3>1. pc' # "loop" /\ pc' \notin Attempting /\ pc' \notin Early
      BY <2>5 DEF Early, Attempting
    <3> QED  BY <1>2, <2>1, <2>2, <2>3, <2>5, <3>1 DEF Control
  <2> QED  BY Zenon, <1>4, <2>4, <2>5
<1> QED  BY <1>3, <1>5, <1>6, <1>7 DEF HttpInv

(* inspect_body, which may replace the body before it is wrapped. *)
LEMMA InspectBodyKeeps ==
    ASSUME HttpInv, InspectBody
    PROVE  HttpInv'
<1> USE SizesAssumption
<1>1. BodyTypes /\ LoopTypes /\ Recorded /\ Held /\ Control /\ \A j \in Clone : GivenInOrder(j)
  BY Zenon DEF HttpInv
<1>2. /\ pc = "inspect" /\ pc' = "policies"
      /\ UNCHANGED <<cfg, shared, owner, clone, seen, attempts, current, lastRes, latest, result,
                     late, panicked>>
  BY Zenon DEF InspectBody, loopVars
<1>3. /\ shared = NewState /\ owner = Shared /\ src.read = 0
      /\ \A i \in Clone : clone[i] = NoClone
      /\ current = 0 /\ attempts = 1 /\ latest = None /\ lastRes = None
  BY <1>1, <1>2 DEF Control, Early
<1>4. src' \in SrcState /\ src'.read = 0 /\ src'.read <= src'.len
  <2>1. src \in SrcState /\ src.len \in 0 .. MaxChunks /\ src.len \in Nat
    BY <1>1 DEF BodyTypes, SrcState
  <2>2. CASE ~cfg.inspect
    BY <1>3, <2>1, <2>2 DEF InspectBody
  <2>3. CASE cfg.inspect
    <3>1. PICK l \in 0 .. MaxChunks :
            src' = [len |-> l, trailers |-> FALSE, read |-> 0, failed |-> FALSE]
      <4>1. 0 \in 0 .. MaxChunks
        OBVIOUS
      <4> QED  BY <2>1, <2>3, <4>1 DEF InspectBody
    <3> QED  BY <3>1 DEF SrcState
  <2> QED  BY <2>2, <2>3
<1>5. NoClone.phase = "none" /\ Len(Unread.data) = 0 /\ Unread.end = "open"
  BY DEF NoClone, Unread
<1>6. BodyTypes'
  BY Zenon, <1>1, <1>2, <1>4 DEF BodyTypes
<1>7. Recorded'
  <2>1. Len(<<>>) = 0
    BY Zenon
  <2> QED  BY <1>2, <1>3, <1>4, <2>1 DEF Recorded, NewState
<1>8. \A j \in Clone : GivenInOrder(j)'
  <2>1. \A j \in Clone : seen[j] = Unread
    BY Zenon, <1>1, <1>3, <1>5 DEF GivenInOrder
  <2> QED  BY <1>2, <1>4, <1>5, <2>1 DEF GivenInOrder
<1>9. Held'
  <2>1. owner' = Shared /\ shared'.idx = 0 /\ pc' \notin Attempting
    BY Zenon, <1>2, <1>3 DEF NewState, Attempting
  <2>2. \A j \in Clone : clone'[j].phase = "none" /\ owner' # j
    BY Zenon, <1>2, <1>3, <1>5, <2>1, OwnersAssumption
  <2> QED  BY Zenon, <2>1, <2>2 DEF Held
<1>10. LoopTypes'
  BY Zenon, <1>1, <1>2 DEF LoopTypes, Places
<1>11. Control'
  <2>1. pc' \in Early /\ pc' # "loop" /\ pc' \notin Attempting /\ pc' # "done"
    BY <1>2 DEF Early, Attempting
  <2> QED  BY <1>2, <1>3, <1>4, <2>1 DEF Control
<1> QED  BY <1>6, <1>7, <1>8, <1>9, <1>10, <1>11 DEF HttpInv

(* The body is wrapped, or sent as it is. *)
LEMMA WrapBodyKeeps ==
    ASSUME HttpInv, WrapBody
    PROVE  HttpInv'
<1> USE SizesAssumption, OwnersAssumption
<1>1. BodyTypes /\ LoopTypes /\ Recorded /\ Held /\ Control /\ \A j \in Clone : GivenInOrder(j)
  BY DEF HttpInv
<1>2. /\ pc = "wrap" /\ owner' = 0
      /\ UNCHANGED <<cfg, src, shared, seen, current, lastRes, latest, result, late, panicked>>
  BY Zenon DEF WrapBody
<1>3. /\ shared = NewState /\ owner = Shared /\ src.read = 0
      /\ \A i \in Clone : clone[i] = NoClone
      /\ current = 0 /\ attempts = 1 /\ latest = None /\ lastRes = None
  BY <1>1, <1>2 DEF Control, Early
<1>4. 0 \in Clone /\ \A i \in Clone : i \in Nat /\ ~(i < 0)
  BY DEF Clone
<1>5. PICK ph \in {"next", "sent"} :
        /\ clone' = [clone EXCEPT ![0].phase = ph]
        /\ \/ ph = "next" /\ pc' = "loop" /\ attempts' = cfg.retries + 1
           \/ ph = "sent" /\ pc' = "prepare" /\ attempts' = attempts
  BY DEF WrapBody
<1>6. /\ clone' \in [Clone -> CloneState]
      /\ \A j \in Clone : /\ clone'[j].body = clone[j].body /\ clone'[j].trailers = clone[j].trailers
                          /\ clone'[j].phase = IF j = 0 THEN ph ELSE clone[j].phase
  BY <1>1, <1>4, <1>5, PhaseIs DEF BodyTypes
<1>7. NoClone.phase = "none" /\ NoClone.body = FALSE /\ Len(Unread.data) = 0 /\ Unread.end = "open"
  BY DEF NoClone, Unread
<1>8. \A j \in Clone : seen[j] = Unread
  BY Zenon, <1>1, <1>3, <1>7 DEF GivenInOrder
<1>9. BodyTypes' /\ Recorded'
  BY Zenon, <1>1, <1>2, <1>6 DEF BodyTypes, Recorded
<1>10. \A j \in Clone : GivenInOrder(j)'
  BY Zenon, <1>1, <1>2, <1>8 DEF GivenInOrder
<1>11. Held'
  <2>1. HoldsState(0)'
    <3>1. ~shared'.completed
      BY Zenon, <1>2, <1>3 DEF NewState
    <3> QED  BY Zenon, <1>2, <1>3, <1>4, <1>6, <1>7, <1>8, <3>1 DEF HoldsState
  <2>2. \A j \in Clone : j # 0 => clone'[j].phase = "none"
    BY Zenon, <1>3, <1>6, <1>7
  <2>3. owner' # Shared /\ clone'[0].phase # "lingers"
    BY <1>2, <1>4, <1>6
  <2>4. (\A i \in Clone : owner = i => HoldsState(i))'
    BY <1>2, <2>1
  <2>5. (\A i \in Clone : clone[i].phase = "lingers" => owner = i)'
    BY <2>2, <2>3
  <2>6. (\A i \in Clone : clone[i].phase \in {"next", "sent"} /\ owner # i => Fresh(i))'
    BY <1>2, <2>2
  <2> QED  BY Zenon, <2>3, <2>4, <2>5, <2>6 DEF Held
<1>12. attempts' \in 1 .. MaxRetries + 1
  <2>1. cfg.retries \in 0 .. MaxRetries
    BY <1>1 DEF LoopTypes, Config
  <2> QED  BY <1>3, <1>5, <2>1
<1>13. LoopTypes'
  <2>1. current' \in 0 .. attempts' - 1
    <3>1. current' = 0
      BY <1>2, <1>3
    <3>2. PICK n \in Int : n = attempts'
      BY <1>12
    <3>3. n \in 1 .. MaxRetries + 1
      BY <1>12, <3>2
    <3>4. 0 \in 0 .. n - 1
      BY <3>3
    <3> QED  BY Zenon, <3>1, <3>2, <3>4
  <2>2. pc' \in Places /\ owner' \in Clone \cup {Shared}
    BY <1>2, <1>4, <1>5 DEF Places
  <2> QED  BY Zenon, <1>1, <1>2, <1>12, <2>1, <2>2 DEF LoopTypes
<1>14. Control'
  <2>1. \A i \in Clone : i > 0 => clone'[i].phase = "none"
    BY Zenon, <1>3, <1>4, <1>6, <1>7
  <2>2. clone'[0].phase = ph /\ current' = 0
    BY <1>2, <1>3, <1>4, <1>6
  <2>3. CASE ph = "next"
    <3>1. pc' = "loop" /\ pc' \notin Early /\ pc' \notin Attempting
      BY Zenon, <1>5, <2>3 DEF Early, Attempting
    <3> QED  BY Zenon, <1>2, <1>4, <2>1, <2>2, <2>3, <3>1 DEF Control
  <2>4. CASE ph = "sent"
    <3>1. pc' = "prepare" /\ pc' \notin Early
      BY <1>5, <2>4 DEF Early
    <3>2. LastAttempt'
      BY <1>2, <1>3, <1>5, <2>4 DEF LastAttempt
    <3> QED  BY <1>2, <1>4, <2>1, <2>2, <2>4, <3>1, <3>2 DEF Control
  <2> QED  BY Zenon, <2>3, <2>4
<1> QED  BY <1>9, <1>10, <1>11, <1>13, <1>14 DEF HttpInv

\* Steps that change neither the clones nor the loop.
LEMMA QuietKeeps ==
    ASSUME HttpInv, UNCHANGED <<cfg, shared, owner, clone, seen, loopVars, panicked>>,
           src' \in SrcState, src'.len = src.len, src'.read = src.read,
           src'.trailers = src.trailers, late' \in BOOLEAN,
           pc' = pc \/ (pc = "prepare" /\ pc' \in {"buffer", "call"})
    PROVE  HttpInv'
<1>1. BodyTypes /\ LoopTypes /\ Recorded /\ Held /\ Control /\ \A j \in Clone : GivenInOrder(j)
  BY Zenon DEF HttpInv
<1>2. UNCHANGED <<attempts, current, lastRes, latest, result>>
  BY DEF loopVars
<1>3. BodyTypes'
  BY Zenon, <1>1 DEF BodyTypes
<1>4. Recorded'
  BY Zenon, <1>1 DEF Recorded
<1>5. \A j \in Clone : GivenInOrder(j)'
  BY <1>1 DEF GivenInOrder
<1>6. pc' \in Attempting => pc \in Attempting
  BY Zenon DEF Attempting
<1>7. Held'
  <2>1. \A j \in Clone : (HoldsState(j) => HoldsState(j)') /\ (Fresh(j) => Fresh(j)')
    BY Zenon DEF HoldsState, Fresh
  <2> QED  BY Zenon, <1>1, <1>2, <1>6, <2>1 DEF Held
<1>8. LoopTypes'
  BY Zenon, <1>1, <1>2 DEF LoopTypes, Places
<1>9. LastAttempt' = LastAttempt
  BY Zenon, <1>2 DEF LastAttempt
<1>10. Control'
  <2>1. CASE pc' = pc
    BY Zenon, <1>1, <1>2, <1>9, <2>1 DEF Control
  <2>2. CASE pc = "prepare" /\ pc' \in {"buffer", "call"}
    <3>1. /\ pc \in Attempting /\ pc # "call" /\ pc \notin Early
          /\ pc' \in Attempting /\ pc' \notin Early /\ pc' # "loop" /\ pc' # "done"
      BY <2>2 DEF Attempting, Early
    <3> QED  BY Zenon, <1>1, <1>2, <1>9, <3>1 DEF Control
  <2> QED  BY <2>1, <2>2
<1> QED  BY Zenon, <1>3, <1>4, <1>5, <1>7, <1>8, <1>10 DEF HttpInv

(* Every step of the proxy, the client and the upstreams keeps the invariant. *)
LEMMA HttpInvStep == HttpInv /\ [HttpNext]_httpVars => HttpInv'
<1> SUFFICES ASSUME HttpInv, [HttpNext]_httpVars PROVE HttpInv'
  OBVIOUS
<1> USE SizesAssumption
<1>1. BodyTypes /\ LoopTypes /\ Held /\ Control
  BY DEF HttpInv
<1>2. src \in SrcState /\ late \in BOOLEAN /\ current \in Clone
  BY <1>1 DEF BodyTypes, LoopTypes, Clone
<1>3. CASE UNCHANGED httpVars
  BY <1>2, <1>3, QuietKeeps DEF httpVars, loopVars
<1>4. CASE ClientFails
  <2>1. src' = [src EXCEPT !.failed = TRUE]
    BY <1>4 DEF ClientFails
  <2>2. src' \in SrcState /\ src'.len = src.len /\ src'.read = src.read
        /\ src'.trailers = src.trailers
    BY Zenon, <1>2, <2>1 DEF SrcState
  <2> QED  BY <1>2, <1>4, <2>2, QuietKeeps DEF ClientFails
<1>5. CASE Deadline
  BY <1>2, <1>5, QuietKeeps DEF Deadline, bodyVars
<1>6. CASE CallReturns
  <2>1. pc \in Attempting /\ \E res \in Outcome : EndAttempt(res)
    BY <1>6 DEF CallReturns, Attempting, Outcome, Retryable, Final
  <2> QED  BY <2>1, EndAttemptKeeps
<1>7. CASE CallTimesOut
  <2>1. pc \in Attempting /\ EndAttempt("timeout") /\ "timeout" \in Outcome
    BY <1>7 DEF CallTimesOut, Attempting, Outcome, Retryable
  <2> QED  BY <2>1, EndAttemptKeeps
<1>8. CASE FindRoute \/ ApplyRequestPolicies \/ ApplyRequestFilters
  <2>1. {"error"} \in SUBSET {"error", "direct"} /\ {"error", "direct"} \in SUBSET {"error", "direct"}
    OBVIOUS
  <2>2. {"start", "inspect", "policies", "filters", "wrap"} \subseteq Early
    BY DEF Early
  <2> QED  BY <1>8, <2>1, <2>2, StageKeeps
           DEF FindRoute, ApplyRequestPolicies, ApplyRequestFilters
<1>9. CASE InspectBody
  BY <1>9, InspectBodyKeeps
<1>10. CASE WrapBody
  BY Zenon, <1>10, WrapBodyKeeps
<1>11. CASE StartAttempt
  BY <1>11, StartAttemptKeeps
<1>12. CASE Prepare
  BY <1>2, <1>12, QuietKeeps DEF Prepare, bodyVars
<1>13. CASE PrepareFails \/ LlmRequestFails
  <2>1. pc \in Attempting /\ EndAttempt("error") /\ "error" \in Outcome
    BY Zenon, <1>13 DEF PrepareFails, LlmRequestFails, Attempting, Outcome, Final
  <2> QED  BY <2>1, EndAttemptKeeps
<1>14. CASE BufferBody
  <2>1. /\ pc \in Attempting /\ PollFrame(current) /\ UNCHANGED <<cfg, pc, loopVars, late>>
        /\ pc = "buffer"
    BY Zenon, <1>14 DEF BufferBody, Attempting
  <2>2. clone[current].phase = "sent" /\ owner \in {current, Shared}
    BY <1>1, <2>1 DEF Control
  <2> QED  BY <1>2, <2>1, <2>2, PollKeeps
<1>15. CASE InspectA2aRequest
  <2>1. pc = "buffer" /\ (CallWith("copied") \/ CallWith("emptied"))
    BY <1>15 DEF InspectA2aRequest
  <2> QED  BY <2>1, CallWithKeeps
<1>16. CASE ProcessLlmRequest
  <2>1. pc = "buffer" /\ pc \in Attempting
        /\ (CallWith("copied") \/ \E res \in Outcome : EndAttempt(res))
    BY Zenon, <1>16 DEF ProcessLlmRequest, Attempting, Outcome, Retryable, Final
  <2> QED  BY <2>1, CallWithKeeps, EndAttemptKeeps
<1>17. ASSUME NEW i \in Clone, UpstreamReads(i) PROVE HttpInv'
  <2>1. PollFrame(i) /\ UNCHANGED <<cfg, pc, loopVars, late>>
    BY Zenon, <1>17 DEF UpstreamReads
  <2>2. CASE pc = "call" /\ i = current /\ clone[i].phase = "sent"
    <3>1. pc \in Attempting /\ owner \in {current, Shared}
      BY Zenon, <1>1, <2>2 DEF Control, Attempting
    <3> QED  BY Zenon, <2>1, <2>2, <3>1, PollKeeps
  <2>3. CASE clone[i].phase = "lingers"
    <3>1. owner = i
      BY <1>1, <2>3 DEF Held
    <3> QED  BY Zenon, <2>1, <2>3, <3>1, PollKeeps
  <2> QED  BY Zenon, <1>17, <2>2, <2>3 DEF UpstreamReads
<1>18. ASSUME NEW i \in Clone, UpstreamDrops(i) PROVE HttpInv'
  BY <1>18, UpstreamDropsKeeps
<1> QED  BY <1>3, <1>4, <1>5, <1>6, <1>7, <1>8, <1>9, <1>10, <1>11, <1>12, <1>13, <1>14,
            <1>15, <1>16, <1>17, <1>18 DEF HttpNext, Proxy

(* For any number of retries, chunks and any size of the replay buffer:
   wherever each attempt stops reading, the next upstream is given the body in
   order and whole, no expect() of the retry loop or of acquire_state fails, and
   the client gets the answer of the latest attempt (ReplayBody, proxy_internal). *)
THEOREM AttemptsCorrect == HttpSpec => []AttemptsSound
  BY HttpInitInv, HttpInvStep, HttpInvSound, PTL DEF HttpSpec
=============================================================================

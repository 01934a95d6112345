-------------------------------- MODULE Media --------------------------------
(***************************************************************************)
(* One message's media: streams that players read while they are fetched   *)
(* (whatevrd/internal/whatsapp/stream.go, mediastream/stream.go and        *)
(* sparsefile.go), ordinary downloads of it (whatsapp/media.go) and the    *)
(* slots both need (whatsapp/admit.go).                                    *)
(*                                                                         *)
(* A stream is a number, in the order they start; a file on the disk has   *)
(* the number of the stream that created it, so a rename moves a number    *)
(* from one name to another and an open file outlives its name.            *)
(***************************************************************************)
EXTENDS Integers, Sequences, FiniteSets, SequencesExt

CONSTANTS
    Requests,   \* calls of StreamMedia, each with its player
    Loaders,    \* calls of Download, and fetches of the preferences
    Size,       \* how many chunks the file has
    Prefetch,   \* prefetchChunks: chunks of one range request
    Slots,      \* mediaFetches: fetches that run at once
    MaxStreams, \* bound: streams started
    Worlds      \* bound: how often each kind of thing happens, in each of some worlds

(* A range or a download fails, the server ignores a range, wrong bytes pass *)
(* as a chunk, a stream cannot be opened; a player opens its stream; a      *)
(* request or player leaves; the file is asked for; the user cancels; the   *)
(* daemon dies.                                                             *)
Events == {"fail", "ranges", "corrupt", "open", "play", "leave", "load", "cancel", "crash"}

ASSUME LimitAssumption ==
    /\ Size \in Nat \ {0} /\ Prefetch \in Nat \ {0} /\ Slots \in Nat \ {0} /\ MaxStreams \in Nat
ASSUME WorldAssumption == Worlds \subseteq [Events -> Nat]
(* They are told apart from each other and from the numbers of streams.     *)
ASSUME CallAssumption ==
    /\ IsFiniteSet(Requests) /\ IsFiniteSet(Loaders)
    /\ Requests \cap Loaders = {} /\ (Requests \cup Loaders) \cap Int = {}

Chunks  == 1..Size
Streams == 1..MaxStreams
None    == 0
(* The file a download puts in place, whole. *)
Fetched == MaxStreams + 1
(* The download that replaces stream s once it failed. *)
Instead(s) == -s
Fetches == Loaders \cup {Instead(s) : s \in Streams}
NoIndex == {0}

VARIABLES
    disk,     \* what the names .part, .part.idx and the final one name
    good,     \* which chunks of a file on the disk have the right bytes
    row,      \* the message's row has the path of its file
    shown,    \* live.Transfers has the message
    current,  \* md.streams[key], by the number of its stream
    entry,    \* the entries, those gone from the map included
    stream,   \* mediastream.Stream: its fetch loop and its sparse file
    finisher, \* finishStream's goroutine of each stream
    loading,  \* md.downloads[key], by who runs it
    fetch,    \* the calls of md.fetch
    slots,    \* admission: free slots, who waits, and who has one
    call,     \* the requests and their players
    cancel,   \* CancelDownload, and whether it was called
    left      \* events still to come

vars == <<disk, good, row, shown, current, entry, stream, finisher, loading, fetch,
          slots, call, cancel, left>>
files == <<disk, good, row>>
user  == <<cancel, left>>

Spend(e) == left[e] > 0 /\ left' = [left EXCEPT ![e] = @ - 1]

Init ==
    /\ disk = [part |-> None, index |-> NoIndex, final |-> None]
    /\ good = [s \in Streams |-> {}] /\ row = FALSE /\ shown = FALSE
    /\ current = None
    /\ entry = [s \in Streams |-> [active |-> 0, completed |-> FALSE, open |-> TRUE, asked |-> {}]]
    /\ stream = [s \in Streams |-> [pc |-> "unborn", file |-> None, present |-> {}, head |-> 1,
                   next |-> 1, last |-> 1, ended |-> "no", closed |-> FALSE]]
    /\ finisher = [s \in Streams |-> [pc |-> "none", saw |-> None, victim |-> None,
                     discard |-> FALSE, asked |-> {}]]
    /\ loading = None
    /\ fetch = [f \in Fetches |-> [pc |-> "idle", asked |-> TRUE, joined |-> None,
                  cancelled |-> FALSE, started |-> FALSE, got |-> "nothing"]]
    /\ slots = [free |-> Slots, asked |-> << >>, auto |-> << >>, held |-> {}]
    /\ call = [r \in Requests |-> [pc |-> "idle", of |-> None, at |-> 1, told |-> FALSE]]
    /\ cancel = [pc |-> "none", victim |-> None, used |-> FALSE]
    /\ left \in Worlds

-----------------------------------------------------------------------------
(* Slots (admit.go). *)

(* take without waiting. *)
Taken(who, asked) ==
    IF slots.free > 0 THEN [slots EXCEPT !.free = @ - 1, !.held = @ \cup {who}]
    ELSE IF asked THEN [slots EXCEPT !.asked = Append(@, who)]
    ELSE [slots EXCEPT !.auto = Append(@, who)]

(* release: the slot goes to the first who asked, then to the first of the  *)
(* others; releasing twice, or without one, does nothing (releaser).        *)
Released(s, who) ==
    LET rest == [s EXCEPT !.held = @ \ {who}]
    IN  IF who \notin s.held THEN s
        ELSE IF s.asked # << >>
        THEN [rest EXCEPT !.asked = Tail(@), !.held = @ \cup {Head(s.asked)}]
        ELSE IF s.auto # << >>
        THEN [rest EXCEPT !.auto = Tail(@), !.held = @ \cup {Head(s.auto)}]
        ELSE [rest EXCEPT !.free = @ + 1]

(* A line without who, who is in it at most once. *)
Without(line, who) ==
    IF \A i \in DOMAIN line : line[i] # who THEN line
    ELSE RemoveAt(line, CHOOSE i \in DOMAIN line : line[i] = who)

(* A waiter whose context ended: out of the lines, and a slot it was handed *)
(* just then is passed on.                                                  *)
GivenUp(who) ==
    Released([slots EXCEPT !.asked = Without(@, who), !.auto = Without(@, who)], who)

-----------------------------------------------------------------------------
(* A stream ends once: its slot is released and finishStream started        *)
(* (finish, and the callback of ensureStream).                              *)
Finish(s, how, changed) ==
    /\ stream' = [stream EXCEPT ![s] = [changed EXCEPT !.ended = IF @ = "no" THEN how ELSE @]]
    /\ IF stream[s].ended = "no"
       THEN /\ slots' = Released(slots, s)
            /\ finisher' = [finisher EXCEPT ![s].pc = "begin"]
       ELSE UNCHANGED <<slots, finisher>>

(* Stream.Close. *)
Close(s) == Finish(s, "cancelled", [stream[s] EXCEPT !.closed = TRUE])

(* What the goroutine of finishStream does next, with another stream closed *)
(* by it or not.                                                            *)
Step(s, f) == finisher' = [finisher EXCEPT ![s] = f]
CloseAndStep(v, s, f) ==
    /\ stream' = [stream EXCEPT ![v].closed = TRUE,
                                ![v].ended = IF @ = "no" THEN "cancelled" ELSE @]
    /\ slots' = IF stream[v].ended = "no" THEN Released(slots, v) ELSE slots
    /\ finisher' = [[finisher EXCEPT ![s] = f] EXCEPT
                      ![v].pc = IF stream[v].ended = "no" THEN "begin" ELSE @]

-----------------------------------------------------------------------------
(* StreamMedia. *)

(* The row is read: a file that is there needs no stream. *)
StreamTarget(r) ==
    /\ call[r].pc = "idle"
    /\ call' = [call EXCEPT ![r].pc = IF row /\ disk.final # None THEN "refused" ELSE "look"]
    /\ UNCHANGED <<files, shown, current, entry, stream, finisher, loading, fetch, slots, user>>

(* Whoever joins a stream needs no slot. *)
StreamLook(r) ==
    /\ call[r].pc = "look"
    /\ IF current # None
       THEN call' = [call EXCEPT ![r].pc = "ensure"] /\ UNCHANGED slots
       ELSE call' = [call EXCEPT ![r].pc = "queued"] /\ slots' = Taken(r, TRUE)
    /\ UNCHANGED <<files, shown, current, entry, stream, finisher, loading, fetch, user>>

(* It has what it waited for, or need not wait. *)
Ready(r) == call[r].pc = "ensure" \/ (call[r].pc = "queued" /\ r \in slots.held)

StreamGivesUp(r) ==
    /\ call[r].pc = "queued" /\ Spend("leave")
    /\ call' = [call EXCEPT ![r].pc = "refused"]
    /\ slots' = GivenUp(r)
    /\ UNCHANGED <<files, shown, current, entry, stream, finisher, loading, fetch, cancel>>

(* ensureStream when there is one: a whole one owes nobody an answer. *)
Join(r) ==
    /\ Ready(r) /\ current # None
    /\ entry' = [entry EXCEPT ![current].asked = IF entry[current].completed THEN @ ELSE @ \cup {r}]
    /\ slots' = Released(slots, r)
    /\ call' = [call EXCEPT ![r].pc = "answered"]
    /\ UNCHANGED <<files, shown, current, stream, finisher, loading, fetch, user>>

(* OpenSparseFile: the index says which chunks the part file has; without   *)
(* one the file is a new one.                                               *)
Resumed == IF disk.index = NoIndex THEN {} ELSE disk.index
Started(s) ==
    [stream[s] EXCEPT !.pc = "loop", !.present = Resumed,
                      !.file = IF disk.index = NoIndex \/ disk.part = None THEN s ELSE disk.part]

(* ensureStream when there is none: the slot is the stream's now. *)
StartStream(r) ==
    /\ Ready(r) /\ current = None
    /\ \E s \in Streams :
         /\ stream[s].pc = "unborn" /\ \A t \in 1..(s - 1) : stream[t].pc # "unborn"
         /\ stream' = [stream EXCEPT ![s] = Started(s)]
         /\ disk' = [disk EXCEPT !.part = Started(s).file]
         /\ entry' = [entry EXCEPT ![s].asked = {r}]
         /\ current' = s
         /\ slots' = [slots EXCEPT !.held = IF r \in @ THEN (@ \ {r}) \cup {s} ELSE @]
    /\ shown' = TRUE
    /\ call' = [call EXCEPT ![r].pc = "answered"]
    /\ UNCHANGED <<good, row, finisher, loading, fetch, user>>

StartFails(r) ==
    /\ Ready(r) /\ current = None /\ Spend("open")
    /\ slots' = Released(slots, r)
    /\ call' = [call EXCEPT ![r].pc = "refused"]
    /\ UNCHANGED <<files, shown, current, entry, stream, finisher, loading, fetch, cancel>>

-----------------------------------------------------------------------------
(* The player (serve, release, streamReader, Stream.WaitFor). *)

(* serve: a stream still running, or whole, or gone. *)
Serve(r) ==
    /\ call[r].pc = "answered" /\ Spend("play")
    /\ IF current # None /\ ~entry[current].completed
       THEN /\ \E c \in Chunks :
                 call' = [call EXCEPT ![r] = [@ EXCEPT !.pc = "read", !.of = current, !.at = c]]
            /\ entry' = [entry EXCEPT ![current].active = @ + 1]
       ELSE call' = [call EXCEPT ![r].pc = "gone"] /\ UNCHANGED entry
    /\ UNCHANGED <<files, shown, current, stream, finisher, loading, fetch, slots, cancel>>

(* The stream r's player reads. *)
Of(r) == stream[call[r].of]

(* WaitFor a chunk that is not there: the read head moves ... *)
PlayerSeeks(r) ==
    /\ call[r].pc = "read" /\ call[r].at \notin Of(r).present /\ Of(r).ended \in {"no", "ok"}
    /\ stream' = [stream EXCEPT ![call[r].of].head = call[r].at]
    /\ call' = [call EXCEPT ![r].pc = "wait"]
    /\ UNCHANGED <<files, shown, current, entry, finisher, loading, fetch, slots, user>>

(* The player of r is done with its stream: the last one out closes it, if  *)
(* it is whole.                                                             *)
Release(r) ==
    LET e == call[r].of
        last == current = e /\ entry[e].active = 1 /\ entry[e].completed
    IN  /\ call' = [call EXCEPT ![r].pc = "gone"]
        /\ entry' = IF current = e
                    THEN [entry EXCEPT ![e].active = @ - 1, ![e].open = @ /\ ~last] ELSE entry
        /\ IF last /\ entry[e].open THEN Close(e) ELSE UNCHANGED <<stream, finisher, slots>>
        /\ UNCHANGED <<files, shown, current, loading, fetch, cancel>>

Reading(r) == call[r].pc \in {"read", "wait"}
There(r)   == call[r].at \in Of(r).present

PlayerReads(r) ==
    /\ Reading(r) /\ There(r) /\ ~Of(r).closed /\ call[r].at # Size
    /\ call' = [call EXCEPT ![r].pc = "read", ![r].at = @ + 1]
    /\ UNCHANGED <<files, shown, current, entry, stream, finisher, loading, fetch, slots, user>>

PlayerAtEnd(r) ==
    /\ Reading(r) /\ There(r) /\ ~Of(r).closed /\ call[r].at = Size
    /\ Release(r) /\ UNCHANGED left

(* ... and a fetch that failed by then is told at once.  Later the file is  *)
(* closed under it.                                                         *)
PlayerCut(r) ==
    /\ Reading(r)
    /\ \/ Of(r).closed
       \/ call[r].pc = "read" /\ ~There(r) /\ Of(r).ended \notin {"no", "ok"}
    /\ Release(r) /\ UNCHANGED left

PlayerLeaves(r) == Reading(r) /\ Spend("leave") /\ Release(r)

-----------------------------------------------------------------------------
(* The fetch loop (Stream.run, fetchSpan). *)

Missing(s) == Chunks \ stream[s].present
Ahead(s)   == {c \in Missing(s) : c >= stream[s].head}

(* The first chunk missing from the read head on, or at all; then at most   *)
(* Prefetch of them, up to the first that is there.                         *)
SpanFirst(s) ==
    LET from == IF Ahead(s) # {} THEN Ahead(s) ELSE Missing(s)
    IN  CHOOSE c \in from : \A d \in from : c <= d
SpanLast(s) ==
    CHOOSE c \in SpanFirst(s)..(SpanFirst(s) + Prefetch - 1) :
        /\ SpanFirst(s)..c \subseteq Missing(s)
        /\ c = SpanFirst(s) + Prefetch - 1 \/ c + 1 \notin Missing(s)

(* A range is asked for. *)
NextSpan(s) ==
    /\ stream[s].pc = "loop" /\ ~stream[s].closed /\ Missing(s) # {}
    /\ stream' = [stream EXCEPT ![s] = [@ EXCEPT !.pc = "land", !.next = SpanFirst(s), !.last = SpanLast(s)]]
    /\ UNCHANGED <<files, shown, current, entry, finisher, loading, fetch, slots, call, user>>

(* The loop ends as how says, unless the stream was closed before. *)
LoopEnds(s, how) ==
    /\ Finish(s, how, [stream[s] EXCEPT !.pc = "over"])
    /\ UNCHANGED <<files, shown, current, entry, loading, fetch, call>>

(* Its context was cancelled, or the file closed. *)
Stopped(s) ==
    /\ stream[s].pc \in {"loop", "land"} /\ stream[s].closed
    /\ LoopEnds(s, "cancelled") /\ UNCHANGED user

(* mutant: nothing is compared with the hash of the message *)
VerifyNothing(s) ==
    /\ stream[s].pc = "loop" /\ ~stream[s].closed /\ Missing(s) = {}
    /\ LoopEnds(s, "ok") /\ UNCHANGED user

(* verifyComplete: the bytes against the hash the message declares. *)
Verify(s) ==
    /\ stream[s].pc = "loop" /\ ~stream[s].closed /\ Missing(s) = {}
    /\ LoopEnds(s, IF good[stream[s].file] = Chunks THEN "ok" ELSE "failed")
    /\ UNCHANGED user

(* The range fails, or a chunk of it does not verify. *)
RangeFails(s) ==
    /\ stream[s].pc = "land" /\ Spend("fail")
    /\ LoopEnds(s, "failed") /\ UNCHANGED cancel

(* ErrRangeUnsupported. *)
RangeIgnored(s) ==
    /\ stream[s].pc = "loop" /\ ~stream[s].closed /\ Missing(s) # {} /\ Spend("ranges")
    /\ LoopEnds(s, "ranges") /\ UNCHANGED cancel

(* WriteChunk: the bytes, then the index; not if the chunk is there already. *)
Land(s) ==
    LET c == stream[s].next
        new == c \notin stream[s].present
        now == stream[s].present \cup {c}
    IN  /\ stream[s].pc = "land" /\ ~stream[s].closed
        /\ stream' = [stream EXCEPT ![s] =
             [@ EXCEPT !.present = now, !.next = IF c = stream[s].last THEN c ELSE c + 1,
                       !.pc = IF c = stream[s].last THEN "report" ELSE "land"]]
        /\ disk' = IF new THEN [disk EXCEPT !.index = now] ELSE disk
        /\ \/ /\ good' = IF new THEN [good EXCEPT ![stream[s].file] = @ \cup {c}] ELSE good
              /\ UNCHANGED left
           \/ /\ new /\ Spend("corrupt")
              /\ UNCHANGED good
        /\ UNCHANGED <<row, shown, current, entry, finisher, loading, fetch, slots, call, cancel>>

(* progress. *)
Report(s) ==
    /\ stream[s].pc = "report"
    /\ stream' = [stream EXCEPT ![s].pc = "loop"] /\ shown' = TRUE
    /\ UNCHANGED <<files, current, entry, finisher, loading, fetch, slots, call, user>>

-----------------------------------------------------------------------------
(* finishStream: the entry is the one the key has now. *)

FinishLook(s) ==
    /\ finisher[s].pc = "begin"
    /\ Step(s, IF current = None \/ stream[s].ended = "cancelled"
               THEN [finisher[s] EXCEPT !.pc = "none"]
               ELSE [finisher[s] EXCEPT !.saw = current, !.discard = stream[s].ended = "ranges",
                       !.pc = IF stream[s].ended = "ok" THEN "rename" ELSE "drop"])
    /\ UNCHANGED <<files, shown, current, entry, stream, loading, fetch, slots, call, user>>

FinishRename(s) ==
    /\ finisher[s].pc = "rename"
    /\ IF disk.part # None
       THEN /\ disk' = [disk EXCEPT !.final = disk.part, !.part = None]
            /\ Step(s, [finisher[s] EXCEPT !.pc = "index"])
       ELSE /\ Step(s, [finisher[s] EXCEPT !.pc = "drop", !.discard = TRUE])
            /\ UNCHANGED disk
    /\ UNCHANGED <<good, row, shown, current, entry, stream, loading, fetch, slots, call, user>>

FinishIndex(s) ==
    /\ finisher[s].pc = "index"
    /\ disk' = [disk EXCEPT !.index = NoIndex]
    /\ Step(s, [finisher[s] EXCEPT !.pc = "complete"])
    /\ UNCHANGED <<good, row, shown, current, entry, stream, loading, fetch, slots, call, user>>

(* The stream stays open while a player reads it. *)
FinishComplete(s) ==
    LET e == finisher[s].saw
        idle == entry[e].active = 0 /\ entry[e].open
        next == [finisher[s] EXCEPT !.pc = "log"]
    IN  /\ finisher[s].pc = "complete"
        /\ entry' = [entry EXCEPT ![e] = [@ EXCEPT !.completed = TRUE, !.asked = {},
                                                   !.open = @ /\ ~idle]]
        /\ IF idle THEN CloseAndStep(e, s, next) ELSE Step(s, next) /\ UNCHANGED <<stream, slots>>
        /\ UNCHANGED <<files, shown, current, loading, fetch, call, user>>

FinishLog(s) ==
    /\ finisher[s].pc = "log"
    /\ shown' = FALSE /\ row' = TRUE /\ Step(s, [finisher[s] EXCEPT !.pc = "none"])
    /\ UNCHANGED <<disk, good, current, entry, stream, loading, fetch, slots, call, user>>

(* recover: dropStream takes whatever entry the key has. *)
RecoverDrop(s) ==
    /\ finisher[s].pc = "drop"
    /\ current' = None
    /\ Step(s, [finisher[s] EXCEPT !.pc = "close", !.victim = current])
    /\ UNCHANGED <<files, shown, entry, stream, loading, fetch, slots, call, user>>

RecoverClose(s) ==
    LET v == finisher[s].victim
        next == [finisher[s] EXCEPT !.pc = "asked", !.victim = None]
    IN  /\ finisher[s].pc = "close"
        /\ IF v # None /\ entry[v].open
           THEN /\ CloseAndStep(v, s, next)
                /\ disk' = IF finisher[s].discard
                           THEN [disk EXCEPT !.part = None, !.index = NoIndex] ELSE disk
           ELSE Step(s, next) /\ UNCHANGED <<stream, slots, disk>>
        /\ UNCHANGED <<good, row, shown, current, entry, loading, fetch, call, user>>

(* mutant: those who asked are taken from the entry the key has *)
RecoverAskedLate(s) ==
    /\ finisher[s].pc = "asked"
    /\ Step(s, [finisher[s] EXCEPT !.pc = "fetching",
                  !.asked = IF current = None THEN {} ELSE entry[current].asked])
    /\ fetch' = [fetch EXCEPT ![Instead(s)].pc = "start"]
    /\ UNCHANGED <<files, shown, current, entry, stream, loading, slots, call, user>>

RecoverAsked(s) ==
    LET e == finisher[s].saw
    IN  /\ finisher[s].pc = "asked"
        /\ Step(s, [finisher[s] EXCEPT !.pc = "fetching", !.asked = entry[e].asked])
        /\ entry' = [entry EXCEPT ![e].asked = {}]
        /\ fetch' = [fetch EXCEPT ![Instead(s)].pc = "start"]
        /\ UNCHANGED <<files, shown, current, stream, loading, slots, call, user>>

(* The path of the download, or its error. *)
RecoverTell(s) ==
    /\ finisher[s].pc = "fetching" /\ fetch[Instead(s)].pc = "back"
    /\ call' = [r \in Requests |->
                  IF r \in finisher[s].asked THEN [call[r] EXCEPT !.told = TRUE] ELSE call[r]]
    /\ Step(s, [finisher[s] EXCEPT !.pc = "none", !.asked = {}])
    /\ UNCHANGED <<files, shown, current, entry, stream, loading, fetch, slots, user>>

-----------------------------------------------------------------------------
(* md.fetch. *)

Calls(f, x) == fetch' = [fetch EXCEPT ![f] = x]

(* Download, or what the preferences want of an arrival. *)
Load(f) ==
    /\ fetch[f].pc = "idle" /\ Spend("load") /\ (row => disk.final = None)
    /\ \E asked \in BOOLEAN : Calls(f, [fetch[f] EXCEPT !.pc = "start", !.asked = asked])
    /\ UNCHANGED <<files, shown, current, entry, stream, finisher, loading, slots, call, cancel>>

FetchStart(f) ==
    /\ fetch[f].pc = "start"
    /\ IF loading = None
       THEN loading' = f /\ Calls(f, [fetch[f] EXCEPT !.pc = "admit"])
       ELSE Calls(f, [fetch[f] EXCEPT !.pc = "join", !.joined = loading]) /\ UNCHANGED loading
    /\ UNCHANGED <<files, shown, current, entry, stream, finisher, slots, call, user>>

(* A download joined is over when it left the map. *)
FetchJoined(f) ==
    /\ fetch[f].pc = "join" /\ fetch[fetch[f].joined].pc = "back"
    /\ Calls(f, [fetch[f] EXCEPT !.pc = "back", !.got = fetch[fetch[f].joined].got])
    /\ UNCHANGED <<files, shown, current, entry, stream, finisher, loading, slots, call, user>>

FetchTake(f) ==
    /\ fetch[f].pc = "admit"
    /\ slots' = Taken(f, fetch[f].asked) /\ Calls(f, [fetch[f] EXCEPT !.pc = "queued"])
    /\ UNCHANGED <<files, shown, current, entry, stream, finisher, loading, call, user>>

FetchAdmitted(f) ==
    /\ fetch[f].pc = "queued" /\ f \in slots.held
    /\ Calls(f, [fetch[f] EXCEPT !.pc = "get", !.started = TRUE]) /\ shown' = TRUE
    /\ UNCHANGED <<files, current, entry, stream, finisher, loading, slots, call, user>>

(* mutant: a waiter whose context ended drops a slot it was handed just then *)
FetchGivesUpHanded(f) ==
    /\ fetch[f].pc = "queued" /\ fetch[f].cancelled
    /\ slots' = [slots EXCEPT !.asked = Without(@, f), !.auto = Without(@, f)]
    /\ Calls(f, [fetch[f] EXCEPT !.pc = "leave", !.got = "error"])
    /\ UNCHANGED <<files, shown, current, entry, stream, finisher, loading, call, user>>

FetchGivesUp(f) ==
    /\ fetch[f].pc = "queued" /\ fetch[f].cancelled
    /\ slots' = GivenUp(f)
    /\ Calls(f, [fetch[f] EXCEPT !.pc = "leave", !.got = "error"])
    /\ UNCHANGED <<files, shown, current, entry, stream, finisher, loading, call, user>>

(* DownloadToFile verifies a file of its own, which is renamed into place. *)
FetchLands(f) ==
    /\ fetch[f].pc = "get"
    /\ disk' = [disk EXCEPT !.final = Fetched] /\ Calls(f, [fetch[f] EXCEPT !.pc = "log"])
    /\ UNCHANGED <<good, row, shown, current, entry, stream, finisher, loading, slots, call, user>>

FetchFails(f) ==
    /\ fetch[f].pc = "get"
    /\ \/ fetch[f].cancelled /\ UNCHANGED left
       \/ Spend("fail")
    /\ slots' = Released(slots, f) /\ Calls(f, [fetch[f] EXCEPT !.pc = "leave", !.got = "error"])
    /\ UNCHANGED <<files, shown, current, entry, stream, finisher, loading, call, cancel>>

FetchLogs(f) ==
    /\ fetch[f].pc = "log"
    /\ row' = TRUE
    /\ slots' = Released(slots, f) /\ Calls(f, [fetch[f] EXCEPT !.pc = "leave", !.got = "file"])
    /\ UNCHANGED <<disk, good, shown, current, entry, stream, finisher, loading, call, user>>

FetchLeaves(f) ==
    /\ fetch[f].pc = "leave"
    /\ loading' = None /\ Calls(f, [fetch[f] EXCEPT !.pc = "back"])
    /\ shown' = (shown /\ ~fetch[f].started)
    /\ UNCHANGED <<files, current, entry, stream, finisher, slots, call, user>>

-----------------------------------------------------------------------------
(* CancelDownload. *)

CancelLook ==
    /\ cancel.pc = "none" /\ (loading # None \/ current # None) /\ Spend("cancel")
    /\ fetch' = IF loading = None THEN fetch ELSE [fetch EXCEPT ![loading].cancelled = TRUE]
    /\ cancel' = [cancel EXCEPT !.used = TRUE, !.pc = IF current = None THEN "none" ELSE "drop"]
    /\ UNCHANGED <<files, shown, current, entry, stream, finisher, loading, slots, call>>

CancelDrop ==
    /\ cancel.pc = "drop"
    /\ current' = None /\ cancel' = [cancel EXCEPT !.pc = "close", !.victim = current]
    /\ UNCHANGED <<files, shown, entry, stream, finisher, loading, fetch, slots, call, left>>

CancelClose ==
    /\ cancel.pc = "close"
    /\ IF cancel.victim # None /\ entry[cancel.victim].open
       THEN Close(cancel.victim) ELSE UNCHANGED <<stream, finisher, slots>>
    /\ cancel' = [cancel EXCEPT !.pc = "end", !.victim = None]
    /\ UNCHANGED <<files, shown, current, entry, loading, fetch, call, left>>

CancelEnd ==
    /\ cancel.pc = "end"
    /\ shown' = FALSE /\ cancel' = [cancel EXCEPT !.pc = "none"]
    /\ UNCHANGED <<files, current, entry, stream, finisher, loading, fetch, slots, call, left>>

(* The daemon dies and starts again: the disk and the row are left. *)
Crash ==
    /\ Spend("crash")
    /\ shown' = FALSE /\ current' = None /\ loading' = None
    /\ entry' = [s \in Streams |-> [active |-> 0, completed |-> FALSE, open |-> TRUE, asked |-> {}]]
    /\ stream' = [s \in Streams |-> IF stream[s].pc = "unborn" THEN stream[s]
                     ELSE [stream[s] EXCEPT !.pc = "over", !.closed = TRUE, !.ended = "cancelled"]]
    /\ finisher' = [s \in Streams |-> [finisher[s] EXCEPT !.pc = "none", !.victim = None, !.asked = {}]]
    /\ fetch' = [f \in Fetches |-> IF fetch[f].pc = "idle" THEN fetch[f]
                    ELSE [fetch[f] EXCEPT !.pc = "back", !.joined = None]]
    /\ slots' = [free |-> Slots, asked |-> << >>, auto |-> << >>, held |-> {}]
    /\ call' = [r \in Requests |-> IF call[r].pc = "idle" THEN call[r]
                   ELSE [call[r] EXCEPT !.pc = "refused"]]
    /\ cancel' = [cancel EXCEPT !.pc = "none", !.victim = None]
    /\ UNCHANGED files

-----------------------------------------------------------------------------
RequestStep(r) ==
    \/ StreamTarget(r) \/ StreamLook(r) \/ Join(r) \/ StartStream(r)
    \/ Serve(r) \/ PlayerSeeks(r) \/ PlayerReads(r) \/ PlayerAtEnd(r) \/ PlayerCut(r)
LoopStep(s) ==
    \/ NextSpan(s) \/ Stopped(s) \/ Verify(s) \/ Land(s)
    \/ Report(s)
FinishStep(s) ==
    \/ FinishLook(s) \/ FinishRename(s) \/ FinishIndex(s) \/ FinishComplete(s)
    \/ FinishLog(s) \/ RecoverDrop(s) \/ RecoverClose(s) \/ RecoverAsked(s) \/ RecoverTell(s)
FetchStep(f) ==
    \/ FetchStart(f) \/ FetchJoined(f) \/ FetchTake(f) \/ FetchAdmitted(f) \/ FetchGivesUp(f)
    \/ FetchLands(f) \/ FetchLogs(f) \/ FetchLeaves(f)
CancelStep == CancelDrop \/ CancelClose \/ CancelEnd

Next ==
    \/ \E r \in Requests : RequestStep(r) \/ StreamGivesUp(r) \/ StartFails(r) \/ PlayerLeaves(r)
    \/ \E s \in Streams : LoopStep(s) \/ RangeFails(s) \/ RangeIgnored(s) \/ FinishStep(s)
    \/ \E f \in Fetches : FetchStep(f) \/ FetchFails(f)
    \/ \E f \in Loaders : Load(f)
    \/ CancelLook \/ CancelStep \/ Crash

Spec == Init /\ [][Next]_vars

(* Requests to the network return, with their timeouts at the latest; a     *)
(* player reads what it opened; goroutines run.                             *)
Fairness ==
    /\ \A r \in Requests : WF_vars(RequestStep(r))
    /\ \A s \in Streams : WF_vars(LoopStep(s)) /\ WF_vars(FinishStep(s))
    /\ \A f \in Fetches : WF_vars(FetchStep(f))
    /\ WF_vars(CancelStep)

FairSpec == Spec /\ Fairness

-----------------------------------------------------------------------------
Good(n) == IF n = Fetched THEN Chunks ELSE IF n = None THEN {} ELSE good[n]

(* Whatever streams, downloads and crashes did, the file a row points to is *)
(* the message's media, whole ("finishStream makes a whole stream an        *)
(* ordinary file").  A cancel may make way for a new stream before a        *)
(* finished one renames its file by name.                                   *)
RowIsWhole == row => Chunks \subseteq Good(disk.final) \/ cancel.used

(* Who may have a slot: somebody on the way to a fetch, or a running fetch. *)
Running(h) ==
    \/ h \in Requests /\ call[h].pc \in {"queued", "ensure"}
    \/ h \in Streams /\ stream[h].pc # "unborn" /\ stream[h].ended = "no"
    \/ h \in Fetches /\ fetch[h].pc \in {"queued", "get", "log"}

(* No slot is lost or made up: each is free or with a fetch that still runs *)
(* and will give it back, and nobody waits while one is free.               *)
SlotsKept ==
    /\ slots.free + Cardinality(slots.held) = Slots
    /\ \A h \in slots.held : Running(h)
    /\ slots.free > 0 => slots.asked = << >> /\ slots.auto = << >>

(* Everybody gets an answer: no request or player waits for ever, whoever   *)
(* was given a stream that failed late hears of it (StreamMedia: "update    *)
(* hears a late failure"), and the transfer is not shown for ever.  A       *)
(* cancelled stream tells nobody, and its last progress may come after the  *)
(* end of its transfer.                                                     *)
Answered ==
    <>[](/\ \A r \in Requests : call[r].pc \in {"refused", "answered", "gone"}
         /\ \/ cancel.used
            \/ ~shown /\ \A r \in Requests : call[r].pc = "refused" \/ row \/ call[r].told)
=============================================================================

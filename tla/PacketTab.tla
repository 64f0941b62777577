------------------------------ MODULE PacketTab -----------------------------
(***************************************************************************)
(* A packet tab of the Qt program: PcapTab (ui/qt/pcap_tab.cpp) with its   *)
(* own packet ring, PacketListModel, filter line and PcapReader.  The GUI  *)
(* thread takes the bridge's live records, flushes them to the ring and    *)
(* the list, filters and clears; every loadFile starts a detached thread   *)
(* that scans a capture file into the ring and posts a completion to the   *)
(* GUI thread.  Those threads meet at the ring's mutex, and in the fields  *)
(* of the one PcapReader, which nothing protects.                          *)
(***************************************************************************)
EXTENDS PacketRing, DisplayFilter

CONSTANTS Wire,                \* frames captured live, in order
          Disk,                \* for each capture file, its frames
          Lines,               \* lines the user may type into the filter
          MAX_ROWS_PER_FLUSH, MAX_PENDING_BUFFER, DROP_TO_SIZE,
          MAX_DISPLAY_ROWS, SCROLL_CHUNK,
          MaxLoads,            \* bound: calls of loadFile
          MaxMixedLoads        \* bound: the same, in a tab with live packets

Files == DOMAIN Disk

Places == UNION {DOMAIN Disk[f] : f \in Files}

(* A packet is named by where it comes from and its place there; what a    *)
(* scan makes of bytes that are not a frame of its file is "misread".      *)
ASSUME PacketTabAssumption ==
  /\ Wire \in Seq(Frame) /\ \A i \in DOMAIN Wire : Wire[i].link = "EN10MB"
  /\ \A f \in Files : \A i \in DOMAIN Disk[f] : Disk[f][i] \in Frame
  /\ Packets = {<<"live", i>> : i \in DOMAIN Wire}
                 \union (UNION {{<<f, i>> : i \in DOMAIN Disk[f]} : f \in Files})
                 \union {<<"misread", i>> : i \in Places}
  /\ \A f \in Files : f \notin {"none", "live", "misread"}
  /\ Lines \subseteq Seq(Term)
  /\ MAX_DISPLAY_ROWS \in 1 .. max_packets /\ SCROLL_CHUNK \in 1 .. MAX_DISPLAY_ROWS
  /\ MAX_PENDING_BUFFER \in Nat /\ DROP_TO_SIZE \in 1 .. MAX_PENDING_BUFFER
  /\ MAX_ROWS_PER_FLUSH \in Nat \ {0}

VARIABLES received,       \* live records the bridge has sent
          live_pending,   \* live_pending_, by number
          render_paused,  \* render_paused_: the flush timer is stopped
          gui,            \* what the GUI thread is doing
          batch,          \* the records a flush is pushing, then listing
          cursor, upto,   \* how far a flush or applyFilter is, and its end
          new_cache,      \* the rows that appendRecords has made
          rows,           \* row_cache_ with filtered_indices_
          line,           \* the filter in force, as typed
          scans,          \* the scan threads started so far
          mapped,         \* the scan that made reader_'s mapping, 0 for none
          sized,          \* the file whose size is in its mmap_size_
          header,         \* the file whose snaplen and linktype are in its stats_
          unmapped,       \* the scans whose mapping was taken away
          current_file,   \* current_filepath_
          disturbed,      \* history: live records dropped or sent out of order, or mixed
                          \* with a clear or a file
          overlapped      \* history: a file was loaded during another's scan

guiVars  == <<gui, batch, cursor, upto, new_cache, rows, line>>
liveVars == <<received, live_pending, render_paused>>
reader_  == <<mapped, sized, header, unmapped>>
fileVars == <<scans, reader_, current_file, overlapped>>
tabVars  == <<vars, guiVars, liveVars, fileVars, disturbed>>

NoFile == "none"
Row    == [idx : Nat, packet : Packets]

TabTypeOK ==
  /\ TypeOK
  /\ received \in 0 .. Len(Wire)
  /\ live_pending \in Seq(1 .. Len(Wire)) /\ Len(live_pending) <= MAX_PENDING_BUFFER
  /\ render_paused \in BOOLEAN /\ disturbed \in BOOLEAN /\ overlapped \in BOOLEAN
  /\ gui \in {"idle", "flushing", "filtering", "hung", "crashed"}
  /\ batch \in Seq(1 .. Len(Wire))
  /\ cursor \in Nat /\ upto \in Nat
  /\ new_cache \in Seq(Row) /\ Len(new_cache) + Len(batch) <= MAX_ROWS_PER_FLUSH
  /\ rows \in Seq(Row) /\ Len(rows) <= MAX_DISPLAY_ROWS
  /\ line \in Lines \union {<< >>}
  /\ scans \in Seq([file : Files, next : Nat,
                    at : {"starting", "opening", "mapped", "scanning", "reading",
                          "scanned", "failed", "done"}])
  /\ mapped \in 0 .. Len(scans) /\ unmapped \subseteq DOMAIN scans
  /\ sized \in Files \union {NoFile} /\ header \in Files \union {NoFile}
  /\ current_file \in Files \union {NoFile}

TabInit ==
  /\ Init
  /\ received = 0 /\ live_pending = << >> /\ render_paused = FALSE
  /\ gui = "idle" /\ batch = << >> /\ cursor = 0 /\ upto = 0
  /\ new_cache = << >> /\ rows = << >> /\ line = << >>
  /\ scans = << >> /\ current_file = NoFile
  /\ mapped = 0 /\ sized = NoFile /\ header = NoFile /\ unmapped = {}
  /\ disturbed = FALSE /\ overlapped = FALSE

(* The record's headers, as the thread that made the record parsed them.   *)
FrameOf(p)   == IF p[1] = "live" THEN Wire[p[2]] ELSE Disk[p[1]][p[2]]
HeadersOf(p) == CASE p[1] = "live"    -> parsePacket(FrameOf(p))
                  [] p[1] = "misread" -> Misread
                  [] OTHER            -> parseHeaders(FrameOf(p))

filter == parseFilter(line)

HasConditions == filter.valid /\ filter.conditions # << >>

(* withRecord and getByIndex: the records found under an index, 0 or 1.    *)
At(i) == IF finds(i) THEN {buffer[SlotOf(i)]} ELSE {}

-----------------------------------------------------------------------------
(*                     Live records and the flush timer                    *)

Newest(s, n) == SubSeq(s, Len(s) - n + 1, Len(s))

(* UiBridge::newPacketRecords, with n more records: those after its cursor *)
(* or, when its ring has overtaken it, later ones, some of which will then *)
(* come again.                                                             *)
appendLivePackets(from, n) ==
  LET all == live_pending \o [i \in 1 .. n |-> from + i]
  IN  /\ gui = "idle" /\ from >= received /\ from + n <= Len(Wire)
      /\ Len(scans) <= MaxMixedLoads
      /\ received' = received + n
      /\ live_pending' = IF Len(all) > MAX_PENDING_BUFFER THEN Newest(all, DROP_TO_SIZE) ELSE all
      /\ disturbed' = (disturbed \/ from # received \/ Len(all) > MAX_PENDING_BUFFER \/ scans # << >>)
      /\ UNCHANGED <<vars, guiVars, fileVars, render_paused>>

(* flushPendingToModel, up to taking a batch out of live_pending_.         *)
TakeBatch ==
  LET n == Min({Len(live_pending), MAX_ROWS_PER_FLUSH})
  IN  IF n = 0 THEN UNCHANGED <<gui, batch, cursor, live_pending>>
      ELSE /\ gui' = "flushing" /\ cursor' = 0
           /\ batch' = SubSeq(live_pending, 1, n)
           /\ live_pending' = SubSeq(live_pending, n + 1, Len(live_pending))

onLiveTimer ==
  /\ gui = "idle" /\ ~render_paused /\ TakeBatch
  /\ UNCHANGED <<vars, fileVars, received, render_paused, upto, new_cache, rows, line, disturbed>>

setRenderPaused(paused) ==
  /\ gui = "idle" /\ render_paused # paused
  /\ render_paused' = paused
  /\ IF paused THEN UNCHANGED <<gui, batch, cursor, live_pending>> ELSE TakeBatch
  /\ UNCHANGED <<vars, fileVars, received, upto, new_cache, rows, line, disturbed>>

(* Fault: the batch goes to the list only, as it once did.                 *)
FlushSkipsRing ==
  /\ gui = "flushing" /\ cursor < Len(batch)
  /\ cursor' = cursor + 1
  /\ UNCHANGED <<vars, liveVars, fileVars, gui, batch, upto, new_cache, rows, line, disturbed>>

(* ring_buf_.push(r) of a copy: r keeps the index of the bridge's ring.    *)
FlushPushes ==
  /\ gui = "flushing" /\ cursor < Len(batch)
  /\ PushBegins(<<"live", batch[cursor + 1]>>, TRUE)
  /\ cursor' = cursor + 1
  /\ UNCHANGED <<liveVars, fileVars, gui, batch, upto, new_cache, rows, line, disturbed>>

(* A row for live record n, under its index in the bridge's ring.          *)
RowFor(n) == [idx |-> n - 1, packet |-> <<"live", n>>]

(* matchFilter(r.index) looks that index up in the tab's ring.             *)
Verdicts(n) == {matchFilter(filter, HeadersOf(r.packet)) : r \in At(n - 1)}
Passes(n)   == HasConditions => "yes" \in Verdicts(n)

Keep(s, n) == IF Len(s) > n THEN SubSeq(s, 1, n) ELSE s

(* Fault: the table grows without end.                                     *)
WithNewRowsUntrimmed(new) == rows \o new

(* No more than SCROLL_CHUNK rows are taken from a batch, and the oldest   *)
(* rows make room for them.                                                *)
WithNewRows(new) ==
  LET all == rows \o Keep(new, SCROLL_CHUNK)
  IN  IF Len(all) > MAX_DISPLAY_ROWS THEN Newest(all, MAX_DISPLAY_ROWS) ELSE all

(* appendRecords, one turn of its loop; the records are in the ring and    *)
(* leave the batch.  An exception in a slot ends the GUI.                  *)
ListRecord ==
  LET n == Head(batch)
  IN  /\ gui = "flushing" /\ batch # << >> /\ cursor = Len(batch) /\ ~pushing
      /\ batch' = Tail(batch) /\ cursor' = cursor - 1
      /\ gui' = IF HasConditions /\ "throws" \in Verdicts(n) THEN "crashed" ELSE gui
      /\ new_cache' = IF Passes(n) THEN Append(new_cache, RowFor(n)) ELSE new_cache
      /\ UNCHANGED <<vars, liveVars, fileVars, upto, rows, line, disturbed>>

(* The end of PacketListModel::appendRecords and of the flush.             *)
appendRecords ==
  /\ gui = "flushing" /\ batch = << >>
  /\ gui' = "idle"
  /\ rows' = WithNewRows(new_cache) /\ new_cache' = << >>
  /\ UNCHANGED <<vars, liveVars, fileVars, batch, cursor, upto, line, disturbed>>

-----------------------------------------------------------------------------
(*                            Filter and clear                             *)

(* Fault: the scan starts at the oldest record, however many there are.    *)
ScanFromOldest == oldestIndex

ScanFrom == IF total > MAX_DISPLAY_ROWS THEN total - MAX_DISPLAY_ROWS ELSE oldestIndex

(* PacketListModel::applyFilter, up to its loop.                           *)
ApplyFilter ==
  /\ gui' = "filtering" /\ rows' = << >>
  /\ cursor' = ScanFrom /\ upto' = total

onFilterChanged(typed) ==
  /\ gui = "idle" /\ line' = typed /\ ApplyFilter
  /\ UNCHANGED <<vars, liveVars, fileVars, batch, new_cache, disturbed>>

(* One turn of the loop.  With conditions, matchFilter calls withRecord    *)
(* inside withRecord's callback: the thread waits for a mutex it holds.    *)
FilterRecord ==
  /\ gui = "filtering" /\ cursor < upto /\ ~pushing
  /\ gui' = IF HasConditions /\ finds(cursor) THEN "hung" ELSE gui
  /\ rows' = IF HasConditions \/ ~finds(cursor) THEN rows
             ELSE Append(rows, [idx |-> cursor, packet |-> buffer[SlotOf(cursor)].packet])
  /\ cursor' = cursor + 1
  /\ UNCHANGED <<vars, liveVars, fileVars, batch, upto, new_cache, line, disturbed>>

FilterEnds ==
  /\ gui = "filtering" /\ cursor >= upto
  /\ gui' = "idle" /\ cursor' = 0 /\ upto' = 0
  /\ UNCHANGED <<vars, liveVars, fileVars, batch, new_cache, rows, line, disturbed>>

onClearClicked ==
  /\ gui = "idle" /\ Clear
  /\ rows' = << >>
  /\ disturbed' = (disturbed \/ received > 0)
  /\ UNCHANGED <<liveVars, fileVars, gui, batch, cursor, upto, new_cache, line>>

-----------------------------------------------------------------------------
(*                             Capture files                               *)

Running(s) == s.at \notin {"scanned", "failed", "done"}

MayLoad == Len(scans) < IF received > 0 THEN MaxMixedLoads ELSE MaxLoads

Start(f) ==
  /\ scans' = Append(scans, [file |-> f, next |-> 1, at |-> "starting"])
  /\ current_file' = f
  /\ overlapped' = (overlapped \/ \E t \in DOMAIN scans : Running(scans[t]))
  /\ disturbed' = (disturbed \/ received > 0)

(* Fault: the records of the last file stay.                               *)
loadFileKeepsRecords(f) ==
  /\ gui = "idle" /\ MayLoad
  /\ Start(f)
  /\ UNCHANGED <<vars, guiVars, liveVars, reader_>>

(* cancel_scan_ is reset, never set while the tab exists: the scans that   *)
(* are running go on.                                                      *)
loadFile(f) ==
  /\ gui = "idle" /\ MayLoad
  /\ Clear /\ rows' = << >>
  /\ Start(f)
  /\ UNCHANGED <<liveVars, reader_, gui, batch, cursor, upto, new_cache, line>>

Move(t, to) == scans' = [scans EXCEPT ![t].at = to]

ScanOnly == UNCHANGED <<guiVars, liveVars, current_file, overlapped, disturbed>>

(* PcapReader::scanFile.  Its loop's bound, its check of a frame's length  *)
(* and the parsing read the reader's fields, which a later scan's          *)
(* beginning overwrites; only the pointer to the mapping is its own.       *)
ScanResets(t) ==
  /\ scans[t].at = "starting" /\ Move(t, "opening")
  /\ header' = NoFile
  /\ UNCHANGED <<vars, mapped, sized, unmapped>> /\ ScanOnly

ScanMaps(t) ==
  /\ scans[t].at = "opening" /\ Move(t, "mapped")
  /\ mapped' = t /\ sized' = scans[t].file
  /\ UNCHANGED <<vars, header, unmapped>> /\ ScanOnly

ScanOpens(t) ==
  /\ scans[t].at = "mapped" /\ Move(t, "scanning")
  /\ header' = scans[t].file
  /\ UNCHANGED <<vars, mapped, sized, unmapped>> /\ ScanOnly

(* Takes away the reader's mapping, whichever scan made it; the size is    *)
(* reset only if there is one.                                             *)
closeMmap(kept) ==
  /\ mapped' = 0
  /\ sized' = IF mapped = 0 THEN kept ELSE NoFile
  /\ unmapped' = unmapped \union ({mapped} \ {0})

(* The file cannot be opened; fstat fails; it is too small; it cannot be   *)
(* mapped; it is not a capture file.                                       *)
ScanFails(t) ==
  /\ Move(t, "failed")
  /\ \/ scans[t].at = "opening" /\ UNCHANGED <<mapped, sized, unmapped>>
     \/ scans[t].at = "opening" /\ closeMmap(sized)
     \/ scans[t].at = "opening" /\ closeMmap(NoFile)
     \/ scans[t].at = "opening" /\ mapped' = 0 /\ sized' = scans[t].file /\ UNCHANGED unmapped
     \/ scans[t].at = "mapped" /\ closeMmap(sized)
  /\ UNCHANGED <<vars, header>> /\ ScanOnly

(* Fault: the last frame is left out.                                      *)
InBoundShort(t) == sized # NoFile /\ scans[t].next + 1 \in DOMAIN Disk[sized]

(* Fault: <= for <.                                                        *)
InBoundOrAt(t) == sized # NoFile /\ scans[t].next \in 1 .. Len(Disk[sized]) + 1

(* offset against mmap_size_.  A place stands for an offset, the frames    *)
(* being of one size.                                                      *)
InBound(t) == sized # NoFile /\ scans[t].next \in DOMAIN Disk[sized]

(* What is read is not there, or is no frame.                              *)
Strays(t) == t \in unmapped \/ scans[t].next \notin DOMAIN Disk[scans[t].file]

LinkTypes(f) == {Disk[f][i].link : i \in DOMAIN Disk[f]}

(* What a turn of the loop pushes.  After a reset stats_.snaplen is 0, and *)
(* no frame passes for one.                                                *)
Found(t) ==
  LET own     == {<<scans[t].file, scans[t].next>>}
      misread == {<<"misread", scans[t].next>>}
  IN  CASE header = NoFile \/ ~InBound(t) -> {}
        [] header # NoFile /\ InBound(t) /\ Strays(t) ->
             IF scans[t].next \in DOMAIN Disk[scans[t].file] THEN own \union misread ELSE misread
        [] OTHER -> IF LinkTypes(header) = LinkTypes(scans[t].file) THEN own ELSE misread

(* The loop's condition.                                                   *)
ScanTests(t) ==
  /\ scans[t].at = "scanning" /\ ~pushing /\ InBound(t) /\ Move(t, "reading")
  /\ UNCHANGED <<vars, reader_>> /\ ScanOnly

(* Records are pushed without raw bytes, with their place in the file.     *)
ScanPushes(t) ==
  /\ scans[t].at = "reading" /\ gui # "hung"
  /\ \E p \in Found(t) : PushBegins(p, FALSE)
  /\ scans' = [scans EXCEPT ![t].at = "scanning", ![t].next = @ + 1]
  /\ UNCHANGED reader_ /\ ScanOnly

(* Fault: after a reset of snaplen the loop does not get past a frame.     *)
ScanBreaksAtSize(t) ==
  /\ scans[t].at = "reading" /\ (~InBound(t) \/ Strays(t)) /\ Move(t, "scanned")
  /\ UNCHANGED <<vars, reader_>> /\ ScanOnly

(* A length that is longer than snaplen allows, or than the file is: the   *)
(* loop is left, and what was read so far counts as the file.              *)
ScanBreaks(t) ==
  /\ scans[t].at = "reading" /\ (header = NoFile \/ ~InBound(t) \/ Strays(t))
  /\ Move(t, "scanned")
  /\ UNCHANGED <<vars, reader_>> /\ ScanOnly

(* A read outside of any mapping: there is no process any more.            *)
ScanCrashes(t) ==
  /\ scans[t].at = "reading" /\ Strays(t)
  /\ gui' = "crashed"
  /\ UNCHANGED <<vars, batch, cursor, upto, new_cache, rows, line, liveVars, fileVars, disturbed>>

(* The end of the file; the completion is posted.                          *)
ScanEnds(t) ==
  /\ scans[t].at = "scanning" /\ ~pushing /\ ~InBound(t) /\ Move(t, "scanned")
  /\ UNCHANGED <<vars, reader_>> /\ ScanOnly

(* The completion runs on the GUI thread; a failure only changes a label.  *)
onScanned(t) ==
  /\ gui = "idle" /\ scans[t].at = "scanned" /\ Move(t, "done")
  /\ ApplyFilter
  /\ UNCHANGED <<vars, liveVars, batch, new_cache, line, reader_, current_file, overlapped, disturbed>>

onScanFailed(t) ==
  /\ gui = "idle" /\ scans[t].at = "failed" /\ Move(t, "done")
  /\ UNCHANGED <<vars, reader_>> /\ ScanOnly

(* A push of either thread completes.                                      *)
PushCompletes ==
  gui # "crashed" /\ PushStores /\ UNCHANGED <<guiVars, liveVars, fileVars, disturbed>>

GuiSteps == FlushPushes \/ ListRecord \/ appendRecords \/ FilterRecord \/ FilterEnds

(* After an exception in the GUI thread there is no process.               *)
Scan(t) == /\ gui # "crashed"
           /\ \/ ScanResets(t) \/ ScanMaps(t) \/ ScanOpens(t) \/ ScanFails(t)
              \/ ScanTests(t) \/ ScanPushes(t) \/ ScanBreaks(t) \/ ScanCrashes(t) \/ ScanEnds(t)

Completion(t) == onScanned(t) \/ onScanFailed(t)

TabNext ==
  \/ \E from \in 0 .. Len(Wire), n \in 1 .. Len(Wire) : appendLivePackets(from, n)
  \/ onLiveTimer
  \/ \E paused \in BOOLEAN : setRenderPaused(paused)
  \/ \E typed \in Lines \union {<< >>} : onFilterChanged(typed)
  \/ onClearClicked
  \/ \E f \in Files : loadFile(f)
  \/ GuiSteps
  \/ PushCompletes
  \/ \E t \in DOMAIN scans : Scan(t) \/ Completion(t)

(* Threads run, and the event loop serves what was posted to it in turn,   *)
(* however many clicks come in between.                                    *)
TabFairness ==
  /\ WF_tabVars(GuiSteps) /\ WF_tabVars(PushCompletes)
  /\ \A t \in 1 .. MaxLoads :
       /\ WF_tabVars(t \in DOMAIN scans /\ Scan(t))
       /\ SF_tabVars(t \in DOMAIN scans /\ Completion(t))

TabSpec == TabInit /\ [][TabNext]_tabVars /\ TabFairness

-----------------------------------------------------------------------------
(*                        What the user looks at                           *)

(* recordAt(row), the record a click on a row opens, if any.               *)
recordAt(row) == At(rows[row].idx)

(* PcapReader::loadRawBytes: from the mapping if mmap_size_ says that it   *)
(* is long enough, whatever file it is of, else from current_filepath_.  A *)
(* place in a file stands for file_offset and cap_len.                     *)
LoadedBytes(place) ==
  CASE mapped # 0 /\ sized # NoFile /\ place \in DOMAIN Disk[sized] -> {<<scans[mapped].file, place>>}
    [] OTHER -> IF current_file # NoFile /\ place \in DOMAIN Disk[current_file]
                THEN {<<current_file, place>>} ELSE {}

(* The bytes onPacketSelected shows, and saveToFile writes, for a record:  *)
(* kept ones, or for records of a file those loadRawBytes returns.         *)
BytesOf(r) ==
  CASE r.raw                -> {r.packet}
    [] r.packet[1] = "live" -> {}
    [] OTHER                -> LoadedBytes(r.packet[2])

(* saveToFile: the frames written, each with the record it was taken for.  *)
Saved == UNION {{r} \X BytesOf(r) : r \in getRange(oldestIndex, newestIndex + 1)}

-----------------------------------------------------------------------------
(*                                Properties                               *)

(* A click on a row opens the packet the row shows, as long as its record  *)
(* is in the ring.  The list keeps the indices of the bridge's ring and    *)
(* looks them up in the tab's, so that this rests on nothing having been   *)
(* dropped, cleared or mixed with a file since the first live packet, and  *)
(* on the bridge not having been overtaken by its ring.                    *)
RowsOpenTheirOwn ==
  ~disturbed =>
    \A i \in DOMAIN rows :
      rows[i].idx >= oldestIndex /\ ~pushing => \E r \in recordAt(i) : r.packet = rows[i].packet

(* Unless a file was opened while another was being scanned, the bytes     *)
(* shown or saved for a packet are that packet's: loadRawBytes never looks *)
(* whether the file in memory is the one the record came from.             *)
BytesAreOwn ==
  ~overlapped /\ ~pushing =>
    /\ \A i \in DOMAIN rows : \A r \in recordAt(i) : BytesOf(r) \subseteq {r.packet}
    /\ \A s \in Saved : s[2] = s[1].packet

(* A packet looks the same in the list whether it was captured or read     *)
(* from a file: the two parsers agree on every frame both are made for,    *)
(* as long as the reader parses it with its own file's link type.          *)
SameColumns ==
  \A i \in DOMAIN rows :
    LET fr == FrameOf(rows[i].packet)
    IN  rows[i].packet[1] # "misread" /\ Sound(fr) => Columns(HeadersOf(rows[i].packet)) = Columns(parsePacket(fr))

(* The live rows that a filter lets through satisfy it, for the filters    *)
(* the code evaluates.                                                     *)
ShownMatch ==
  ~disturbed /\ (\A k \in DOMAIN line : Evaluated(line[k])) =>
    \A i \in DOMAIN rows : \A k \in DOMAIN line : Means(line[k], HeadersOf(rows[i].packet))

(* When every load is done the list shows the last MAX_DISPLAY_ROWS of the *)
(* ring's records, although scans run while the list is rebuilt.           *)
ListShowsWindow ==
  /\ gui = "idle" /\ received = 0 /\ ~HasConditions
  /\ \A t \in DOMAIN scans : scans[t].at = "done"
  => /\ [i \in DOMAIN rows |-> rows[i].idx]
         = [i \in 1 .. Min({total, MAX_DISPLAY_ROWS}) |-> total - Min({total, MAX_DISPLAY_ROWS}) + i - 1]
     /\ ~overlapped => \A i \in DOMAIN rows : rows[i].packet[1] = current_file

(* Of files loaded one at a time every frame is read: the bound that the   *)
(* loop takes from the reader, and the lengths it accepts, are the file's. *)
(* (A second load may cut the first short.)                                *)
LoadsAreComplete ==
  ~overlapped =>
    \A t \in DOMAIN scans :
      scans[t].at = "scanned" => scans[t].next \notin DOMAIN Disk[scans[t].file]

(* The program dies of nothing but a filter term on which std::stoul       *)
(* throws, which nobody catches, or of files loaded together, when a scan  *)
(* may read where nothing is mapped any more.                              *)
CrashIsExplained ==
  gui = "crashed" =>
    overlapped \/ \E i \in DOMAIN filter.conditions : Throws(filter.conditions[i])

(* Every load comes to an end, complete or cut short, and is shown, unless *)
(* the GUI thread hangs or the program died.                               *)
LoadEnds ==
  \A t \in 1 .. MaxLoads :
    (t \in DOMAIN scans) ~>
      (gui \in {"hung", "crashed"} \/ (t \in DOMAIN scans /\ scans[t].at = "done"))

(* packet_list_model.hpp calls matchFilter a pure function that takes no   *)
(* lock.  Applying a filter would then never block the GUI thread.         *)
NeverHangs == gui # "hung"
=============================================================================

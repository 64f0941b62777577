-------------------------- MODULE PacketTabProofs --------------------------
(***************************************************************************)
(* The packet tab for any wire, files, filters, ring and list sizes: its   *)
(* threads use the ring as PacketRing describes; a click on a row opens    *)
(* the row's packet as long as nothing was dropped or mixed; without       *)
(* overlapping scans the bytes shown are the packet's own.  Both parsers   *)
(* give a packet the same columns, the rows that a filter lets through     *)
(* satisfy it, and when every load is done the list shows the end of the   *)
(* ring; files loaded one at a time are read to their end, and the program *)
(* dies only of a filter term that throws or of scans that overlap.        *)
(***************************************************************************)
EXTENDS PacketTab, PacketRingProofs, SequenceTheorems

-----------------------------------------------------------------------------
(*                         Sequences and sizes                             *)

LEMMA Sizes == /\ MAX_DISPLAY_ROWS \in Nat /\ SCROLL_CHUNK \in Nat
               /\ MAX_PENDING_BUFFER \in Nat /\ DROP_TO_SIZE \in Nat
               /\ SCROLL_CHUNK <= MAX_DISPLAY_ROWS /\ DROP_TO_SIZE <= MAX_PENDING_BUFFER
               /\ MAX_ROWS_PER_FLUSH \in Nat
  BY PacketTabAssumption

LEMMA LiveIsPacket == \A n \in 1 .. Len(Wire) : <<"live", n>> \in Packets
<1>1. DOMAIN Wire = 1 .. Len(Wire) BY PacketTabAssumption, LenProperties
<1> DEFINE Live == {<<"live", i>> : i \in DOMAIN Wire}
           FromFiles == UNION {{<<f, i>> : i \in DOMAIN Disk[f]} : f \in Files}
           Else == {<<"misread", i>> : i \in Places}
<1>2. Packets = (Live \union FromFiles) \union Else BY PacketTabAssumption
<1>3. \A n \in DOMAIN Wire : <<"live", n>> \in Live OBVIOUS
<1> HIDE DEF Live, FromFiles, Else
<1> QED BY <1>1, <1>2, <1>3

LEMMA FramesArePackets == \A f \in Files : \A i \in DOMAIN Disk[f] : <<f, i>> \in Packets
<1> DEFINE Live == {<<"live", i>> : i \in DOMAIN Wire}
           FromFiles == UNION {{<<f, i>> : i \in DOMAIN Disk[f]} : f \in Files}
           Else == {<<"misread", i>> : i \in Places}
<1>1. Packets = (Live \union FromFiles) \union Else BY PacketTabAssumption
<1>2. \A f \in Files : \A i \in DOMAIN Disk[f] : <<f, i>> \in FromFiles OBVIOUS
<1> HIDE DEF Live, FromFiles, Else
<1> QED BY <1>1, <1>2

LEMMA MisreadIsPacket == \A f \in Files : \A i \in DOMAIN Disk[f] : <<"misread", i>> \in Packets
<1> DEFINE Live == {<<"live", i>> : i \in DOMAIN Wire}
           FromFiles == UNION {{<<f, i>> : i \in DOMAIN Disk[f]} : f \in Files}
           Else == {<<"misread", i>> : i \in Places}
<1>1. Packets = (Live \union FromFiles) \union Else BY PacketTabAssumption
<1>2. \A f \in Files : DOMAIN Disk[f] \subseteq Places BY DEF Places
<1>3. \A f \in Files : \A i \in DOMAIN Disk[f] : <<"misread", i>> \in Else BY <1>2
<1> HIDE DEF Live, FromFiles, Else
<1> QED BY <1>1, <1>3

(* A part of a sequence, as SubSeq takes it.                               *)
LEMMA PartOf ==
  ASSUME NEW S, NEW s \in Seq(S), NEW m \in Nat, NEW n \in Nat, 1 <= m, n <= Len(s), m <= n + 1
  PROVE  /\ SubSeq(s, m, n) \in Seq(S)
         /\ Len(SubSeq(s, m, n)) = n + 1 - m
         /\ \A i \in 1 .. n + 1 - m : SubSeq(s, m, n)[i] = s[m + i - 1]
<1>1. Len(s) \in Nat /\ \A i \in m .. n : s[i] \in S BY LenProperties, ElementOfSeq
<1>2. /\ SubSeq(s, m, n) \in Seq(S)
      /\ Len(SubSeq(s, m, n)) = IF m <= n THEN n - m + 1 ELSE 0
      /\ \A i \in 1 .. n - m + 1 : SubSeq(s, m, n)[i] = s[m + i - 1]
  BY <1>1, SubSeqProperties
<1> DEFINE part == SubSeq(s, m, n)
<1> HIDE DEF part
<1>3. n + 1 - m = n - m + 1 /\ (m > n => n - m + 1 = 0) OBVIOUS
<1> QED BY <1>2, <1>3 DEF part

(* The newest n, and the first n, of a sequence.                           *)
LEMMA NewestOf ==
  ASSUME NEW S, NEW s \in Seq(S), NEW n \in Nat, n <= Len(s)
  PROVE  /\ Newest(s, n) \in Seq(S) /\ Len(Newest(s, n)) = n
         /\ \A i \in 1 .. n : Newest(s, n)[i] = s[Len(s) - n + i]
<1> DEFINE m == Len(s) - n + 1
<1>1. Len(s) \in Nat /\ m \in Nat /\ 1 <= m /\ Len(s) <= Len(s) /\ m <= Len(s) + 1
      /\ Len(s) + 1 - m = n /\ \A i \in 1 .. n : m + i - 1 = Len(s) - n + i
  BY LenProperties
<1>2. Newest(s, n) = SubSeq(s, m, Len(s)) BY DEF Newest
<1> HIDE DEF m
<1> QED BY <1>1, <1>2, PartOf

LEMMA FirstOf ==
  ASSUME NEW S, NEW s \in Seq(S), NEW n \in Nat, n <= Len(s)
  PROVE  /\ SubSeq(s, 1, n) \in Seq(S) /\ Len(SubSeq(s, 1, n)) = n
         /\ \A i \in 1 .. n : SubSeq(s, 1, n)[i] = s[i]
<1>1. Len(s) \in Nat BY LenProperties
<1> QED BY <1>1, PartOf

LEMMA KeepOf ==
  ASSUME NEW S, NEW s \in Seq(S), NEW n \in Nat
  PROVE  /\ Keep(s, n) \in Seq(S) /\ Len(Keep(s, n)) <= n /\ Len(Keep(s, n)) <= Len(s)
         /\ \A i \in 1 .. Len(Keep(s, n)) : Keep(s, n)[i] = s[i]
<1>1. Len(s) \in Nat BY LenProperties
<1>2. CASE Len(s) > n
  <2>1. Keep(s, n) = SubSeq(s, 1, n) BY <1>2 DEF Keep
  <2>2. /\ SubSeq(s, 1, n) \in Seq(S) /\ Len(SubSeq(s, 1, n)) = n
        /\ \A i \in 1 .. n : SubSeq(s, 1, n)[i] = s[i]
    BY <1>1, <1>2, PartOf
  <2> QED BY <1>1, <1>2, <2>1, <2>2
<1>3. CASE ~(Len(s) > n) BY <1>1, <1>3 DEF Keep
<1> QED BY <1>2, <1>3

(* The rows after a flush are rows it had or rows that are new, and no     *)
(* more than the list takes.                                               *)
LEMMA NewRows ==
  ASSUME NEW S, rows \in Seq(S), Len(rows) <= MAX_DISPLAY_ROWS, NEW new \in Seq(S)
  PROVE  /\ WithNewRows(new) \in Seq(S) /\ Len(WithNewRows(new)) <= MAX_DISPLAY_ROWS
         /\ \A i \in 1 .. Len(WithNewRows(new)) :
              \/ \E j \in 1 .. Len(rows) : WithNewRows(new)[i] = rows[j]
              \/ \E j \in 1 .. Len(new) : WithNewRows(new)[i] = new[j]
<1> DEFINE kept == Keep(new, SCROLL_CHUNK)
           all  == rows \o kept
<1>1. /\ kept \in Seq(S) /\ Len(kept) \in Nat /\ Len(kept) <= Len(new) /\ Len(new) \in Nat
      /\ Len(rows) \in Nat /\ \A i \in 1 .. Len(kept) : kept[i] = new[i]
  BY Sizes, KeepOf, LenProperties
<1> HIDE DEF kept
<1>2. /\ all \in Seq(S) /\ Len(all) = Len(rows) + Len(kept)
      /\ \A i \in 1 .. Len(all) : all[i] = IF i <= Len(rows) THEN rows[i] ELSE kept[i - Len(rows)]
  BY <1>1, ConcatProperties
<1>3. ASSUME NEW i \in 1 .. Len(all)
      PROVE  \/ \E j \in 1 .. Len(rows) : all[i] = rows[j]
             \/ \E j \in 1 .. Len(new) : all[i] = new[j]
  <2>1. CASE i <= Len(rows) BY <1>1, <1>2, <2>1
  <2>2. CASE ~(i <= Len(rows))
    <3>1. i - Len(rows) \in 1 .. Len(kept) BY <1>1, <1>2, <2>2
    <3>2. i - Len(rows) \in 1 .. Len(new) BY <1>1, <3>1
    <3> QED BY <1>1, <1>2, <2>2, <3>1, <3>2
  <2> QED BY <2>1, <2>2
<1> HIDE DEF all
<1> DEFINE Known(row) == \/ \E j \in 1 .. Len(rows) : row = rows[j]
                         \/ \E j \in 1 .. Len(new) : row = new[j]
           M == MAX_DISPLAY_ROWS
<1>4. \A i \in 1 .. Len(all) : Known(all[i]) BY <1>3
<1>5. Len(all) \in Nat /\ M \in Nat BY <1>1, <1>2, Sizes
<1> HIDE DEF Known, M
<1>6. CASE Len(all) > M
  <2>1. WithNewRows(new) = Newest(all, M)
    BY <1>6 DEF WithNewRows, all, kept, M
  <2> DEFINE part == Newest(all, M)
  <2>0. M <= Len(all) BY <1>5, <1>6
  <2>2. part \in Seq(S) /\ Len(part) = M /\ \A i \in 1 .. M : part[i] = all[Len(all) - M + i]
    BY <1>2, <1>5, <2>0, NewestOf, Zenon
  <2> HIDE DEF part
  <2>3. \A i \in 1 .. M : Len(all) - M + i \in 1 .. Len(all)
    BY <1>5, <1>6
  <2>4. \A i \in 1 .. Len(part) : Known(part[i]) BY <1>4, <2>2, <2>3
  <2>5. Len(part) <= M BY <1>5, <2>2
  <2> QED BY <2>1, <2>2, <2>4, <2>5 DEF part, Known, M
<1>7. CASE ~(Len(all) > M)
  <2>1. WithNewRows(new) = all BY <1>7 DEF WithNewRows, all, kept, M
  <2>2. Len(all) <= M BY <1>5, <1>7
  <2> QED BY <1>2, <1>4, <2>1, <2>2 DEF Known, M
<1> QED BY <1>6, <1>7

-----------------------------------------------------------------------------
(***************************************************************************)
(* Types, and that a tab does to its ring only what PacketRing describes:  *)
(* the packets pushed are those of the wire and of the files.  A filter's  *)
(* scan begins no further back than the list is long.                      *)
(***************************************************************************)

FilterFits == gui = "filtering" =>
                cursor <= upto /\ Len(rows) + (upto - cursor) <= MAX_DISPLAY_ROWS

(* Only a flush has records on their way into the ring or the list.        *)
QuietIsEmpty == gui \in {"idle", "filtering", "hung"} => batch = << >> /\ new_cache = << >>

(* Nothing waits before the bridge has sent anything.                      *)
NoLiveYet == received = 0 => live_pending = << >> /\ batch = << >>

TabInv == RingInv /\ TabTypeOK /\ FilterFits /\ QuietIsEmpty /\ NoLiveYet

(* Scan threads and their completions, and the reader they share.          *)
ScanPlaces == {"starting", "opening", "mapped", "scanning", "reading", "scanned", "failed", "done"}

ScanType == [file : Files, next : Nat, at : ScanPlaces]

ReaderFits ==
  /\ mapped \in 0 .. Len(scans) /\ unmapped \subseteq DOMAIN scans
  /\ sized \in Files \union {NoFile} /\ header \in Files \union {NoFile}

LEMMA TabInvInit == TabInit => TabInv
<1> SUFFICES ASSUME TabInit PROVE TabInv
  OBVIOUS
<1>1. RingInv BY InitInv DEF TabInit
<1>2. Len(Wire) \in Nat BY PacketTabAssumption, LenProperties
<1>3. TabTypeOK
  <2>1. TypeOK BY <1>1 DEF RingInv
  <2>2. \A S : << >> \in Seq(S) /\ Len(<< >>) = 0 OBVIOUS
  <2>3. received \in 0 .. Len(Wire) BY <1>2 DEF TabInit
  <2>4. /\ live_pending \in Seq(1 .. Len(Wire)) /\ batch \in Seq(1 .. Len(Wire))
        /\ new_cache \in Seq(Row) /\ rows \in Seq(Row) /\ scans \in Seq(ScanType)
    BY <2>2 DEF TabInit
  <2>5. /\ Len(live_pending) <= MAX_PENDING_BUFFER /\ Len(rows) <= MAX_DISPLAY_ROWS
        /\ Len(new_cache) + Len(batch) <= MAX_ROWS_PER_FLUSH
    BY <2>2, Sizes DEF TabInit
  <2>6. mapped \in 0 .. Len(scans) /\ unmapped \subseteq DOMAIN scans BY <2>2 DEF TabInit
  <2> QED BY <2>1, <2>3, <2>4, <2>5, <2>6 DEF TabInit, TabTypeOK, ScanType, ScanPlaces
<1>4. FilterFits /\ QuietIsEmpty /\ NoLiveYet
  BY DEF TabInit, FilterFits, QuietIsEmpty, NoLiveYet
<1> QED BY <1>1, <1>3, <1>4 DEF TabInv

LEMMA FlushedIsPacket == TabInv /\ FlushPushes => <<"live", batch[cursor + 1]>> \in Packets
<1> SUFFICES ASSUME TabInv, FlushPushes PROVE <<"live", batch[cursor + 1]>> \in Packets
  OBVIOUS
<1>1. cursor + 1 \in 1 .. Len(batch) /\ batch \in Seq(1 .. Len(Wire))
  BY LenProperties DEF FlushPushes, TabInv, TabTypeOK
<1>2. batch[cursor + 1] \in 1 .. Len(Wire) BY <1>1, ElementOfSeq
<1> QED BY <1>2, LiveIsPacket

LEMMA FoundIsPacket ==
  ASSUME TabInv, NEW t \in DOMAIN scans PROVE Found(t) \subseteq Packets
<1>1. scans \in Seq(ScanType) BY DEF TabInv, TabTypeOK, ScanType, ScanPlaces
<1>2. scans[t] \in ScanType BY <1>1, LenProperties, ElementOfSeq
<1>3. scans[t].file \in Files BY <1>2 DEF ScanType
<1>4. sized \in Files \union {NoFile} BY DEF TabInv, TabTypeOK
<1> DEFINE f == scans[t].file
           n == scans[t].next
<1>5. n \in DOMAIN Disk[f] => <<f, n>> \in Packets BY <1>3, FramesArePackets
<1>6. InBound(t) => <<"misread", n>> \in Packets BY <1>4, MisreadIsPacket DEF InBound
<1>7. /\ Found(t) # {} => InBound(t)
      /\ \A p \in Found(t) : p = <<"misread", n>> \/ (n \in DOMAIN Disk[f] /\ p = <<f, n>>)
  BY DEF Found, Strays
<1> HIDE DEF f, n
<1> QED BY <1>5, <1>6, <1>7

(* The steps of the ring that the tab's steps are.                         *)
LEMMA TabStepIsRingStep == TabInv /\ [TabNext]_tabVars => [Next]_vars
<1> SUFFICES ASSUME TabInv, [TabNext]_tabVars PROVE [Next]_vars
  OBVIOUS
<1>1. CASE FlushPushes BY <1>1, FlushedIsPacket DEF FlushPushes, Next
<1>2. ASSUME NEW t \in DOMAIN scans, ScanPushes(t) PROVE Next
  BY <1>2, FoundIsPacket DEF ScanPushes, Next
<1>3. CASE onClearClicked BY <1>3 DEF onClearClicked, Next
<1>4. ASSUME NEW f \in Files, loadFile(f) PROVE Next BY <1>4 DEF loadFile, Next
<1>5. CASE PushCompletes BY <1>5 DEF PushCompletes, Next
<1> QED
  BY <1>1, <1>2, <1>3, <1>4, <1>5
  DEF TabNext, appendLivePackets, onLiveTimer, setRenderPaused, onFilterChanged, GuiSteps,
      ListRecord, appendRecords, FilterRecord, FilterEnds, Scan, ScanResets, ScanMaps, ScanOpens,
      ScanFails, ScanTests, ScanBreaks, ScanCrashes, ScanEnds, Completion, onScanned, onScanFailed, tabVars

LEMMA ScansMove ==
  ASSUME scans \in Seq(ScanType), NEW t \in DOMAIN scans
  PROVE  /\ \A to \in ScanPlaces :
              /\ [scans EXCEPT ![t].at = to] \in Seq(ScanType)
              /\ [scans EXCEPT ![t].at = to, ![t].next = @ + 1] \in Seq(ScanType)
         /\ scans[t] \in ScanType
<1>1. DOMAIN scans = 1 .. Len(scans) /\ Len(scans) \in Nat BY LenProperties
<1>2. \A u \in DOMAIN scans : scans[u] \in ScanType BY <1>1, ElementOfSeq
<1>3. ASSUME NEW x \in ScanType PROVE [scans EXCEPT ![t] = x] \in Seq(ScanType)
  BY <1>1, <1>2, ExceptSeq
<1>4. ASSUME NEW to \in ScanPlaces
      PROVE  /\ [scans EXCEPT ![t].at = to] \in Seq(ScanType)
             /\ [scans EXCEPT ![t].at = to, ![t].next = @ + 1] \in Seq(ScanType)
  <2> DEFINE x  == [scans[t] EXCEPT !.at = to]
             s1 == [scans EXCEPT ![t] = x]
             y  == [s1[t] EXCEPT !.next = scans[t].next + 1]
  <2>1. x \in ScanType BY <1>2 DEF ScanType
  <2>2. s1 \in Seq(ScanType) /\ DOMAIN s1 = DOMAIN scans /\ s1[t] = x BY <1>3, <2>1
  <2>3. y \in ScanType
    <3>1. y = [x EXCEPT !.next = scans[t].next + 1] BY <2>2
    <3> HIDE DEF x
    <3> QED BY <1>2, <2>1, <3>1 DEF ScanType
  <2>4. DOMAIN s1 = 1 .. Len(s1) /\ Len(s1) \in Nat BY <2>2, LenProperties
  <2> HIDE DEF y
  <2>5. [s1 EXCEPT ![t] = y] \in Seq(ScanType)
    <3> HIDE DEF s1
    <3> QED BY <2>2, <2>3, <2>4, ExceptSeq
  <2> QED BY <2>2, <2>5 DEF y
<1> QED BY <1>2, <1>4

(* What a step of a scan leaves alone.                                     *)
LEMMA ScanSteps ==
  ASSUME TabInv, NEW t \in DOMAIN scans, Scan(t)
  PROVE  /\ scans' \in Seq(ScanType) /\ Len(scans') = Len(scans) /\ ReaderFits'
         /\ UNCHANGED <<liveVars, batch, cursor, upto, new_cache, rows, line,
                        current_file, overlapped, disturbed>>
         /\ \/ gui' = gui
            \/ gui # "crashed" /\ gui' = "crashed" /\ UNCHANGED <<vars, fileVars>>
<1>1. /\ scans \in Seq(ScanType) /\ ReaderFits
  BY DEF TabInv, TabTypeOK, ScanType, ScanPlaces, ReaderFits
<1>2. /\ UNCHANGED <<liveVars, batch, cursor, upto, new_cache, rows, line,
                     current_file, overlapped, disturbed>>
      /\ \/ gui' = gui
         \/ gui # "crashed" /\ gui' = "crashed" /\ UNCHANGED <<vars, fileVars>>
  BY DEF Scan, ScanResets, ScanMaps, ScanOpens, ScanFails, ScanTests, ScanPushes, ScanBreaks,
         ScanCrashes, ScanEnds, ScanOnly, guiVars, fileVars
<1>3. \/ scans' = scans
      \/ \E to \in ScanPlaces :
           \/ scans' = [scans EXCEPT ![t].at = to]
           \/ scans' = [scans EXCEPT ![t].at = to, ![t].next = @ + 1]
  BY DEF Scan, ScanResets, ScanMaps, ScanOpens, ScanFails, ScanTests, ScanPushes, ScanBreaks,
         ScanCrashes, ScanEnds, Move, ScanPlaces, fileVars
<1>4. scans' \in Seq(ScanType) BY <1>1, <1>3, ScansMove
<1>5. DOMAIN scans' = DOMAIN scans BY <1>3
<1>6. DOMAIN scans = 1 .. Len(scans) /\ DOMAIN scans' = 1 .. Len(scans')
      /\ Len(scans) \in Nat /\ Len(scans') \in Nat
  BY <1>1, <1>4, LenProperties
<1>7. Len(scans') = Len(scans) BY <1>5, <1>6
<1>8. scans[t].file \in Files BY <1>1, ScansMove DEF ScanType
<1>9. ASSUME UNCHANGED reader_ PROVE ReaderFits'
  BY <1>1, <1>5, <1>7, <1>9 DEF ReaderFits, reader_
<1>10. ASSUME UNCHANGED <<mapped, sized, unmapped>>, header' \in {NoFile, scans[t].file}
       PROVE  ReaderFits'
  BY <1>1, <1>5, <1>7, <1>8, <1>10 DEF ReaderFits
<1>11. ASSUME mapped' \in {0, t}, sized' = scans[t].file, UNCHANGED <<header, unmapped>>
       PROVE  ReaderFits'
  BY <1>1, <1>5, <1>6, <1>7, <1>8, <1>11 DEF ReaderFits
<1>12. ASSUME NEW kept \in {sized, NoFile}, closeMmap(kept), header' = header PROVE ReaderFits'
  <2>1. unmapped' \subseteq DOMAIN scans BY <1>1, <1>6, <1>12 DEF closeMmap, ReaderFits
  <2> QED BY <1>1, <1>5, <1>6, <1>7, <1>12, <2>1 DEF closeMmap, ReaderFits
<1>13. \/ UNCHANGED reader_
       \/ UNCHANGED <<mapped, sized, unmapped>> /\ header' \in {NoFile, scans[t].file}
       \/ mapped' \in {0, t} /\ sized' = scans[t].file /\ UNCHANGED <<header, unmapped>>
       \/ \E kept \in {sized, NoFile} : closeMmap(kept) /\ header' = header
  BY DEF Scan, ScanResets, ScanMaps, ScanOpens, ScanFails, ScanTests, ScanPushes,
         ScanBreaks, ScanCrashes, ScanEnds, reader_, fileVars
<1>14. ReaderFits' BY <1>9, <1>10, <1>11, <1>12, <1>13
<1> QED BY <1>2, <1>4, <1>7, <1>14

(* What a tab's step does to the ring needs no further proof.              *)
LEMMA TabRingNext == TabInv /\ [TabNext]_tabVars => RingInv' /\ TypeOK'
  BY TabStepIsRingStep, NextInv DEF TabInv, RingInv

LEMMA AppendInv ==
  ASSUME TabInv, NEW from \in 0 .. Len(Wire), NEW n \in 1 .. Len(Wire), appendLivePackets(from, n),
         TypeOK'
  PROVE  TabTypeOK' /\ FilterFits'
<1> DEFINE W == 1 .. Len(Wire)
           more == [i \in 1 .. n |-> from + i]
           all  == live_pending \o more
<1>1. /\ received \in Nat /\ n \in Nat /\ from \in Nat /\ Len(Wire) \in Nat
      /\ from >= received /\ from + n <= Len(Wire) /\ received' = received + n
      /\ live_pending \in Seq(W) /\ Len(live_pending) \in Nat
  BY PacketTabAssumption, LenProperties DEF TabInv, TabTypeOK, appendLivePackets
<1>2. received' \in 0 .. Len(Wire) BY <1>1
<1>3. more \in Seq(W)
  <2>1. \A i \in 1 .. n : from + i \in W BY <1>1
  <2> QED BY <1>1, <2>1, IsASeq
<1> HIDE DEF more
<1>4. all \in Seq(W) BY <1>1, <1>3, ConcatProperties
<1>5. live_pending' = IF Len(all) > MAX_PENDING_BUFFER THEN Newest(all, DROP_TO_SIZE) ELSE all
  BY DEF appendLivePackets, all, more
<1> HIDE DEF all
<1>6. live_pending' \in Seq(W) /\ Len(live_pending') <= MAX_PENDING_BUFFER
  <2>1. Len(all) \in Nat BY <1>4, LenProperties
  <2>2. CASE Len(all) > MAX_PENDING_BUFFER
    <3>1. DROP_TO_SIZE <= Len(all) BY <2>1, <2>2, Sizes
    <3>2. Newest(all, DROP_TO_SIZE) \in Seq(W) /\ Len(Newest(all, DROP_TO_SIZE)) = DROP_TO_SIZE
      BY <1>4, <3>1, Sizes, NewestOf
    <3> QED BY <1>5, <2>2, <3>2, Sizes
  <2>3. CASE ~(Len(all) > MAX_PENDING_BUFFER) BY <1>4, <1>5, <2>1, <2>3, Sizes
  <2> QED BY <2>2, <2>3
<1>7. /\ UNCHANGED <<guiVars, fileVars, render_paused>> /\ disturbed' \in BOOLEAN
  BY DEF appendLivePackets, TabInv, TabTypeOK
<1> QED BY <1>2, <1>6, <1>7 DEF TabInv, TabTypeOK, FilterFits, guiVars, fileVars, reader_

LEMMA TakeBatchInv ==
  ASSUME TabInv, TakeBatch, TypeOK', gui = "idle",
         render_paused' \in BOOLEAN,
         UNCHANGED <<fileVars, received, upto, new_cache, rows, line, disturbed>>
  PROVE  TabTypeOK' /\ FilterFits'
<1> DEFINE n == Min({Len(live_pending), MAX_ROWS_PER_FLUSH})
           first == SubSeq(live_pending, 1, n)
           rest  == SubSeq(live_pending, n + 1, Len(live_pending))
<1>1. live_pending \in Seq(1 .. Len(Wire)) /\ Len(live_pending) \in Nat
  BY LenProperties DEF TabInv, TabTypeOK
<1>2. n \in Nat /\ n <= Len(live_pending) /\ n <= MAX_ROWS_PER_FLUSH
  BY <1>1, Sizes, MinOfTwo
<1>3. \/ UNCHANGED <<gui, batch, cursor, live_pending>>
      \/ gui' = "flushing" /\ cursor' = 0 /\ batch' = first /\ live_pending' = rest
  BY DEF TakeBatch
<1> HIDE DEF n
<1>4. first \in Seq(1 .. Len(Wire)) /\ Len(first) = n BY <1>1, <1>2, FirstOf
<1>5. rest \in Seq(1 .. Len(Wire)) /\ Len(rest) = Len(live_pending) - n
  <2>1. /\ n + 1 \in Nat /\ 1 <= n + 1 /\ n + 1 <= Len(live_pending) + 1
        /\ Len(live_pending) <= Len(live_pending)
        /\ Len(live_pending) + 1 - (n + 1) = Len(live_pending) - n
    BY <1>1, <1>2
  <2> QED BY <1>1, <2>1, PartOf
<1> HIDE DEF first, rest
<1>6. Len(new_cache) = 0 /\ Len(batch) = 0
  <2>1. new_cache = << >> /\ batch = << >> BY DEF TabInv, QuietIsEmpty
  <2> QED BY <2>1
<1>7. /\ live_pending' \in Seq(1 .. Len(Wire)) /\ Len(live_pending') <= MAX_PENDING_BUFFER
      /\ batch' \in Seq(1 .. Len(Wire)) /\ Len(new_cache) + Len(batch') <= MAX_ROWS_PER_FLUSH
  <2>1. Len(live_pending) <= MAX_PENDING_BUFFER /\ batch \in Seq(1 .. Len(Wire))
    BY DEF TabInv, TabTypeOK
  <2>2. CASE UNCHANGED <<gui, batch, cursor, live_pending>>
    BY <1>1, <1>6, <2>1, <2>2, Sizes
  <2>3. CASE batch' = first /\ live_pending' = rest
    <3>1. Len(rest) <= MAX_PENDING_BUFFER BY <1>1, <1>2, <1>5, <2>1, Sizes
    <3>2. Len(new_cache) + Len(first) <= MAX_ROWS_PER_FLUSH BY <1>2, <1>4, <1>6, Sizes
    <3> QED BY <1>4, <1>5, <2>3, <3>1, <3>2
  <2> QED BY <1>3, <2>2, <2>3
<1> QED BY <1>3, <1>7 DEF TabInv, TabTypeOK, FilterFits, fileVars, reader_

LEMMA ListRecordInv == ASSUME TabInv, ListRecord, TypeOK' PROVE TabTypeOK' /\ FilterFits'
<1> DEFINE n == Head(batch)
<1>1. /\ batch \in Seq(1 .. Len(Wire)) /\ batch # << >> /\ new_cache \in Seq(Row)
  BY DEF ListRecord, TabInv, TabTypeOK
<1>2. /\ n \in 1 .. Len(Wire) /\ batch' \in Seq(1 .. Len(Wire))
      /\ Len(batch') = Len(batch) - 1 /\ Len(batch) \in Nat /\ Len(batch) > 0
  BY <1>1, HeadTailProperties, EmptySeq, LenProperties DEF ListRecord
<1>3. RowFor(n) \in Row
  <2>1. n - 1 \in Nat BY <1>2
  <2> QED BY <1>2, <2>1, LiveIsPacket DEF RowFor, Row
<1>4. /\ Append(new_cache, RowFor(n)) \in Seq(Row)
      /\ Len(Append(new_cache, RowFor(n))) = Len(new_cache) + 1 /\ Len(new_cache) \in Nat
  BY <1>1, <1>3, AppendProperties, LenProperties
<1>5. /\ new_cache' = new_cache \/ new_cache' = Append(new_cache, RowFor(n))
      /\ cursor' = Len(batch) - 1 /\ gui' \in {"flushing", "crashed"}
      /\ UNCHANGED <<liveVars, fileVars, upto, rows, line, disturbed>>
  BY DEF ListRecord
<1>6. new_cache' \in Seq(Row) /\ Len(new_cache') <= Len(new_cache) + 1 /\ Len(new_cache') \in Nat
  <2>1. CASE new_cache' = new_cache BY <1>1, <1>4, <2>1
  <2>2. CASE new_cache' = Append(new_cache, RowFor(n))
    <3>1. Len(new_cache) + 1 \in Nat /\ Len(new_cache) + 1 <= Len(new_cache) + 1 BY <1>4
    <3> QED BY <1>4, <2>2, <3>1
  <2> QED BY <1>5, <2>1, <2>2
<1>7. Len(new_cache') + Len(batch') <= MAX_ROWS_PER_FLUSH
  BY <1>2, <1>4, <1>6, Sizes DEF TabInv, TabTypeOK
<1>8. cursor' \in Nat BY <1>2, <1>5
<1> HIDE DEF n
<1>9. FilterFits' BY <1>5 DEF FilterFits
<1>10. TabTypeOK'
  BY <1>2, <1>5, <1>6, <1>7, <1>8 DEF TabInv, TabTypeOK, liveVars, fileVars, reader_
<1> QED BY <1>9, <1>10

LEMMA appendRecordsInv == ASSUME TabInv, appendRecords, TypeOK' PROVE TabTypeOK' /\ FilterFits'
<1>1. rows' \in Seq(Row) /\ Len(rows') <= MAX_DISPLAY_ROWS
  BY NewRows DEF appendRecords, TabInv, TabTypeOK
<1>2. /\ batch = << >> /\ new_cache' = << >> /\ gui' = "idle"
      /\ UNCHANGED <<liveVars, fileVars, batch, cursor, upto, line, disturbed>>
  BY DEF appendRecords
<1>3. new_cache' \in Seq(Row) /\ Len(new_cache') + Len(batch') <= MAX_ROWS_PER_FLUSH
  BY <1>2, Sizes
<1> QED BY <1>1, <1>2, <1>3 DEF TabInv, TabTypeOK, FilterFits, liveVars, fileVars, reader_

LEMMA ApplyFilterFits ==
  ASSUME TabInv, ApplyFilter
  PROVE  /\ rows' = << >> /\ gui' = "filtering" /\ cursor' \in Nat /\ upto' \in Nat
         /\ FilterFits' /\ rows' \in Seq(Row) /\ Len(rows') <= MAX_DISPLAY_ROWS
<1>1. total \in Nat /\ max_packets \in Nat BY RingAssumption DEF TabInv, RingInv, TypeOK
<1>2. ScanFrom \in Nat /\ ScanFrom <= total /\ total - ScanFrom <= MAX_DISPLAY_ROWS
  BY <1>1, Sizes DEF ScanFrom, oldestIndex
<1> QED BY <1>1, <1>2, Sizes DEF ApplyFilter, FilterFits

LEMMA FilterRecordInv == ASSUME TabInv, FilterRecord, TypeOK' PROVE TabTypeOK' /\ FilterFits'
<1> DEFINE row == [idx |-> cursor, packet |-> buffer[SlotOf(cursor)].packet]
<1>1. /\ total \in Nat /\ cursor \in Nat /\ upto \in Nat /\ rows \in Seq(Row) /\ Len(rows) \in Nat
      /\ cursor < upto /\ cursor' = cursor + 1
      /\ Len(rows) + (upto - cursor) <= MAX_DISPLAY_ROWS
  BY RingAssumption, LenProperties DEF FilterRecord, FilterFits, TabInv, TabTypeOK, RingInv, TypeOK
<1>2. ASSUME finds(cursor) PROVE row \in Row
  <2>1. cursor \in oldestIndex .. total - 1
    BY <1>1, <1>2, RingAssumption DEF finds, oldestIndex
  <2>2. buffer[SlotOf(cursor)].packet \in Packets
    BY <2>1 DEF TabInv, RingInv, WindowStored, FilterRecord
  <2> QED BY <1>1, <2>2 DEF Row
<1>3. rows' = rows \/ (finds(cursor) /\ rows' = Append(rows, row))
  BY DEF FilterRecord
<1> HIDE DEF row
<1>4. rows' \in Seq(Row) /\ Len(rows') <= Len(rows) + 1 /\ Len(rows') \in Nat
  BY <1>1, <1>2, <1>3, AppendProperties, LenProperties
<1>5. Len(rows') + (upto - cursor') <= MAX_DISPLAY_ROWS /\ Len(rows') <= MAX_DISPLAY_ROWS
  BY <1>1, <1>4, Sizes
<1>6. /\ gui' \in {"filtering", "hung"}
      /\ UNCHANGED <<liveVars, fileVars, batch, upto, new_cache, line, disturbed>>
  BY DEF FilterRecord
<1> QED BY <1>1, <1>4, <1>5, <1>6 DEF TabInv, TabTypeOK, FilterFits, liveVars, fileVars, reader_

LEMMA OtherTypes ==
  ASSUME TabInv, TypeOK', UNCHANGED liveVars, UNCHANGED <<batch, new_cache>>,
         gui' \in {"idle", "flushing", "filtering", "crashed"}, cursor' \in Nat, upto' \in Nat,
         rows' \in Seq(Row), Len(rows') <= MAX_DISPLAY_ROWS,
         line' \in Lines \union {<< >>}, scans' \in Seq(ScanType),
         ReaderFits', current_file' \in Files \union {NoFile},
         overlapped' \in BOOLEAN, disturbed' \in BOOLEAN
  PROVE  TabTypeOK'
  BY DEF TabInv, TabTypeOK, ScanType, ScanPlaces, ReaderFits, liveVars

LEMMA ScanPushesPackets ==
  ASSUME TabInv, NEW t \in DOMAIN scans, Scan(t)
  PROVE  \/ ScanPushes(t) /\ \E p \in Found(t) : p \in Packets /\ PushBegins(p, FALSE)
         \/ UNCHANGED vars
<1>1. CASE ScanPushes(t) BY <1>1, FoundIsPacket DEF ScanPushes
<1>2. CASE ~ScanPushes(t)
  BY <1>2 DEF Scan, ScanResets, ScanMaps, ScanOpens, ScanFails, ScanTests, ScanBreaks,
              ScanCrashes, ScanEnds
<1> QED BY <1>1, <1>2

(* A completion takes nothing from the reader.                             *)
LEMMA MoveFits ==
  ASSUME scans \in Seq(ScanType), ReaderFits, NEW t \in DOMAIN scans, NEW to \in ScanPlaces,
         scans' = [scans EXCEPT ![t].at = to], UNCHANGED reader_
  PROVE  scans' \in Seq(ScanType) /\ ReaderFits'
<1>1. scans' \in Seq(ScanType) BY ScansMove
<1>2. DOMAIN scans' = DOMAIN scans OBVIOUS
<1>3. /\ DOMAIN scans = 1 .. Len(scans) /\ DOMAIN scans' = 1 .. Len(scans')
      /\ Len(scans) \in Nat /\ Len(scans') \in Nat
  BY <1>1, LenProperties
<1>4. Len(scans') = Len(scans) BY <1>2, <1>3
<1> QED BY <1>1, <1>2, <1>4 DEF ReaderFits, reader_

LEMMA NoLiveNext == ASSUME TabInv, [TabNext]_tabVars PROVE NoLiveYet'
<1>0. received \in Nat /\ NoLiveYet BY DEF TabInv, TabTypeOK
<1>1. ASSUME NEW from \in 0 .. Len(Wire), NEW n \in 1 .. Len(Wire), appendLivePackets(from, n)
      PROVE  NoLiveYet'
  <2>1. received' = received + n /\ n \in Nat /\ n > 0 BY <1>1 DEF appendLivePackets
  <2>2. received' # 0 BY <1>0, <2>1
  <2> QED BY <2>2 DEF NoLiveYet
<1>2. ASSUME TakeBatch, received' = received PROVE NoLiveYet'
  <2> SUFFICES ASSUME received = 0 PROVE live_pending' = << >> /\ batch' = << >>
    BY <1>2 DEF NoLiveYet
  <2>1. live_pending = << >> /\ batch = << >> BY <1>0 DEF NoLiveYet
  <2>2. Len(live_pending) = 0 BY <2>1
  <2>3. Min({0, MAX_ROWS_PER_FLUSH}) = 0 BY Sizes, MinOfTwo
  <2>4. UNCHANGED <<gui, batch, cursor, live_pending>> BY <1>2, <2>2, <2>3 DEF TakeBatch
  <2> QED BY <2>1, <2>4
<1>3. CASE UNCHANGED <<received, live_pending, batch>> BY <1>0, <1>3 DEF NoLiveYet
<1>4. CASE onLiveTimer BY <1>2, <1>4 DEF onLiveTimer
<1>5. ASSUME NEW paused, setRenderPaused(paused) PROVE NoLiveYet'
  <2>1. received' = received /\ (UNCHANGED <<batch, live_pending>> \/ TakeBatch)
    BY <1>5 DEF setRenderPaused
  <2> QED BY <1>2, <1>3, <2>1
<1>6. CASE ListRecord
  <2>1. batch # << >> /\ received' = received BY <1>6 DEF ListRecord, liveVars
  <2> QED BY <1>0, <2>1 DEF NoLiveYet
<1>7. CASE \/ \E typed \in Lines \union {<< >>} : onFilterChanged(typed)
           \/ onClearClicked
           \/ \E f \in Files : loadFile(f)
           \/ FlushPushes \/ appendRecords \/ FilterRecord \/ FilterEnds
           \/ PushCompletes \/ UNCHANGED tabVars
           \/ \E t \in DOMAIN scans : Completion(t)
  <2>1. UNCHANGED <<received, live_pending, batch>>
    BY <1>7 DEF onFilterChanged, onClearClicked, loadFile, FlushPushes, appendRecords, FilterRecord,
                FilterEnds, PushCompletes, Completion, onScanned, onScanFailed, ScanOnly,
                guiVars, liveVars, tabVars
  <2> QED BY <1>3, <2>1
<1>8. ASSUME NEW t \in DOMAIN scans, Scan(t) PROVE NoLiveYet'
  BY <1>3, <1>8, ScanSteps DEF liveVars
<1> QED BY <1>1, <1>4, <1>5, <1>6, <1>7, <1>8 DEF TabNext, GuiSteps

LEMMA TabInvNext == TabInv /\ [TabNext]_tabVars => TabInv'
<1> SUFFICES ASSUME TabInv, [TabNext]_tabVars PROVE TabTypeOK' /\ FilterFits' /\ QuietIsEmpty'
  BY TabRingNext, NoLiveNext DEF TabInv
<1>0. /\ TypeOK' /\ TabTypeOK /\ QuietIsEmpty /\ FilterFits
      /\ scans \in Seq(ScanType) /\ rows \in Seq(Row) /\ ReaderFits
  BY TabRingNext DEF TabInv, TabTypeOK, ScanType, ScanPlaces, ReaderFits
<1>1. ASSUME NEW from \in 0 .. Len(Wire), NEW n \in 1 .. Len(Wire), appendLivePackets(from, n)
      PROVE  TabTypeOK' /\ FilterFits' /\ QuietIsEmpty'
  BY <1>0, <1>1, AppendInv DEF appendLivePackets, QuietIsEmpty, guiVars
<1>2. CASE onLiveTimer
  <2>1. TabTypeOK' /\ FilterFits'
    BY <1>0, <1>2, TakeBatchInv DEF onLiveTimer, TabTypeOK
  <2> QED BY <1>0, <1>2, <2>1 DEF onLiveTimer, TakeBatch, QuietIsEmpty
<1>3. ASSUME NEW paused \in BOOLEAN, setRenderPaused(paused)
      PROVE  TabTypeOK' /\ FilterFits' /\ QuietIsEmpty'
  <2>1. TabTypeOK' /\ FilterFits'
    <3>1. CASE paused
      BY <1>0, <1>3, <3>1
      DEF setRenderPaused, TabTypeOK, FilterFits, fileVars, reader_
    <3>2. CASE ~paused
      BY <1>0, <1>3, <3>2, TakeBatchInv DEF setRenderPaused
    <3> QED BY <3>1, <3>2
  <2> QED BY <1>0, <1>3, <2>1 DEF setRenderPaused, TakeBatch, QuietIsEmpty
<1>4. ASSUME NEW typed \in Lines \union {<< >>}, onFilterChanged(typed)
      PROVE  TabTypeOK' /\ FilterFits' /\ QuietIsEmpty'
  <2>1. ApplyFilter /\ line' = typed /\ gui = "idle"
        /\ UNCHANGED <<vars, liveVars, fileVars, batch, new_cache, disturbed>>
    BY <1>4 DEF onFilterChanged
  <2>2. /\ gui' = "filtering" /\ cursor' \in Nat /\ upto' \in Nat
        /\ FilterFits' /\ rows' \in Seq(Row) /\ Len(rows') <= MAX_DISPLAY_ROWS
    BY <2>1, ApplyFilterFits
  <2>3. TabTypeOK' BY <1>0, <2>1, <2>2, OtherTypes DEF fileVars, reader_, ReaderFits, TabTypeOK
  <2> QED BY <1>0, <2>1, <2>2, <2>3 DEF QuietIsEmpty
<1>5. CASE onClearClicked
  <2>1. /\ rows' = << >> /\ gui = "idle" /\ disturbed' \in BOOLEAN
        /\ UNCHANGED <<liveVars, fileVars, gui, batch, cursor, upto, new_cache, line>>
    BY <1>0, <1>5 DEF onClearClicked, TabTypeOK
  <2>2. rows' \in Seq(Row) /\ Len(rows') <= MAX_DISPLAY_ROWS BY <2>1, Sizes
  <2>3. TabTypeOK' BY <1>0, <2>1, <2>2, OtherTypes DEF fileVars, reader_, ReaderFits, TabTypeOK
  <2> QED BY <1>0, <2>1, <2>3 DEF QuietIsEmpty, FilterFits
<1>6. ASSUME NEW f \in Files, loadFile(f) PROVE TabTypeOK' /\ FilterFits' /\ QuietIsEmpty'
  <2>1. /\ rows' = << >> /\ gui = "idle" /\ disturbed' \in BOOLEAN /\ overlapped' \in BOOLEAN
        /\ scans' = Append(scans, [file |-> f, next |-> 1, at |-> "starting"])
        /\ current_file' = f
        /\ UNCHANGED <<liveVars, reader_, gui, batch, cursor, upto, new_cache, line>>
    BY <1>0, <1>6 DEF loadFile, Start, TabTypeOK
  <2>2. rows' \in Seq(Row) /\ Len(rows') <= MAX_DISPLAY_ROWS BY <2>1, Sizes
  <2>3. [file |-> f, next |-> 1, at |-> "starting"] \in ScanType
    BY DEF ScanType, ScanPlaces
  <2>4. scans' \in Seq(ScanType) /\ Len(scans') = Len(scans) + 1
    BY <1>0, <2>1, <2>3, AppendProperties
  <2>6. ReaderFits'
    <3>1. /\ DOMAIN scans = 1 .. Len(scans) /\ DOMAIN scans' = 1 .. Len(scans')
          /\ Len(scans) \in Nat
      BY <1>0, <2>4, LenProperties
    <3> QED BY <1>0, <2>1, <2>4, <3>1 DEF ReaderFits, reader_
  <2>5. TabTypeOK' BY <1>0, <2>1, <2>2, <2>4, <2>6, OtherTypes DEF TabTypeOK
  <2> QED BY <1>0, <2>1, <2>5 DEF QuietIsEmpty, FilterFits
<1>7. CASE FlushPushes
  <2>1. gui = "flushing" /\ cursor' = cursor + 1
        /\ UNCHANGED <<liveVars, fileVars, gui, batch, upto, new_cache, rows, line, disturbed>>
    BY <1>7 DEF FlushPushes
  <2>2. TabTypeOK' BY <1>0, <2>1, OtherTypes DEF fileVars, reader_, ReaderFits, TabTypeOK
  <2> QED BY <1>0, <2>1, <2>2 DEF QuietIsEmpty, FilterFits
<1>8. CASE ListRecord BY <1>0, <1>8, ListRecordInv DEF ListRecord, QuietIsEmpty
<1>9. CASE appendRecords BY <1>0, <1>9, appendRecordsInv DEF appendRecords, QuietIsEmpty
<1>10. CASE FilterRecord BY <1>0, <1>10, FilterRecordInv DEF FilterRecord, QuietIsEmpty
<1>11. CASE FilterEnds
  <2>1. gui = "filtering" /\ gui' = "idle" /\ cursor' = 0 /\ upto' = 0
        /\ UNCHANGED <<vars, liveVars, fileVars, batch, new_cache, rows, line, disturbed>>
    BY <1>11 DEF FilterEnds
  <2>2. TabTypeOK' BY <1>0, <2>1, OtherTypes DEF fileVars, reader_, ReaderFits, TabTypeOK
  <2> QED BY <1>0, <2>1, <2>2 DEF QuietIsEmpty, FilterFits
<1>12. CASE PushCompletes
  <2>1. UNCHANGED <<guiVars, liveVars, fileVars, disturbed>> BY <1>12 DEF PushCompletes
  <2> QED BY <1>0, <2>1
      DEF guiVars, liveVars, fileVars, reader_, TabTypeOK, QuietIsEmpty, FilterFits
<1>13. ASSUME NEW t \in DOMAIN scans, Scan(t) PROVE TabTypeOK' /\ FilterFits' /\ QuietIsEmpty'
  <2>1. /\ scans' \in Seq(ScanType) /\ ReaderFits'
        /\ UNCHANGED <<liveVars, batch, cursor, upto, new_cache, rows, line,
                       current_file, overlapped, disturbed>>
        /\ gui' = gui \/ gui' = "crashed"
    BY <1>13, ScanSteps
  <2> QED BY <1>0, <2>1
      DEF liveVars, TabTypeOK, ScanType, ScanPlaces, ReaderFits, QuietIsEmpty, FilterFits
<1>14. ASSUME NEW t \in DOMAIN scans, onScanned(t) PROVE TabTypeOK' /\ FilterFits' /\ QuietIsEmpty'
  <2>1. ApplyFilter /\ gui = "idle" /\ Move(t, "done")
        /\ UNCHANGED <<vars, liveVars, batch, new_cache, line, reader_, current_file,
                       overlapped, disturbed>>
    BY <1>14 DEF onScanned
  <2>2. /\ gui' = "filtering" /\ cursor' \in Nat /\ upto' \in Nat
        /\ FilterFits' /\ rows' \in Seq(Row) /\ Len(rows') <= MAX_DISPLAY_ROWS
    BY <2>1, ApplyFilterFits
  <2>3. scans' \in Seq(ScanType) /\ ReaderFits'
    BY <1>0, <2>1, <1>14, MoveFits DEF Move, reader_, ScanPlaces
  <2>4. TabTypeOK' BY <1>0, <2>1, <2>2, <2>3, OtherTypes DEF TabTypeOK
  <2> QED BY <1>0, <2>1, <2>2, <2>4 DEF QuietIsEmpty
<1>15. ASSUME NEW t \in DOMAIN scans, onScanFailed(t)
       PROVE  TabTypeOK' /\ FilterFits' /\ QuietIsEmpty'
  <2>1. UNCHANGED <<guiVars, liveVars, reader_, current_file, overlapped, disturbed>>
        /\ Move(t, "done")
    BY <1>15 DEF onScanFailed, ScanOnly
  <2>2. scans' \in Seq(ScanType) /\ ReaderFits'
    BY <1>0, <2>1, <1>15, MoveFits DEF Move, reader_, ScanPlaces
  <2> QED BY <1>0, <2>1, <2>2
      DEF guiVars, liveVars, TabTypeOK, ScanType, ScanPlaces, ReaderFits, QuietIsEmpty, FilterFits
<1>16. CASE UNCHANGED tabVars
  BY <1>0, <1>16 DEF tabVars, guiVars, liveVars, fileVars, reader_, TabTypeOK, QuietIsEmpty, FilterFits
<1> QED
  BY <1>1, <1>2, <1>3, <1>4, <1>5, <1>6, <1>7, <1>8, <1>9, <1>10, <1>11, <1>12, <1>13,
     <1>14, <1>15, <1>16
  DEF TabNext, GuiSteps, Completion

LEMMA TabInvHolds == TabSpec => []TabInv
  BY TabInvInit, TabInvNext, PTL DEF TabSpec

(* Every variable of a tab keeps its type; the list and the pending live   *)
(* records keep to their bounds.                                           *)
THEOREM TabTypeCorrect == TabSpec => []TabTypeOK
  BY TabInvHolds, PTL DEF TabInv

(* The GUI thread and the scan threads together use the ring as specified: *)
(* the theorems about it hold in a tab.                                    *)
THEOREM TabUsesTheRing == TabSpec => Spec
<1>1. TabInit => Init BY DEF TabInit
<1> QED BY <1>1, TabInvHolds, TabStepIsRingStep, PTL DEF TabSpec, Spec

(* A reader finds the whole window, whichever threads push.                *)
THEOREM TabWindowComplete == TabSpec => []WindowComplete
  BY TabUsesTheRing, WindowCompleteHolds, PTL

(* Raw bytes are held for the newest records only.                         *)
THEOREM TabRawIsRecent == TabSpec => []RawIsRecent
  BY TabUsesTheRing, RawIsRecentHolds, PTL

(* The ring in a tab is the abstract window.                               *)
THEOREM TabImplementsWindow == TabSpec => ImplementsWindow
  BY TabUsesTheRing, Refinement, PTL

-----------------------------------------------------------------------------
(***************************************************************************)
(* A row and the record under its index.  The bridge numbers live records  *)
(* from 0; until something is dropped or mixed in, so does the tab's ring: *)
(* the records listed, those of the batch and those pending follow one     *)
(* another.                                                                *)
(***************************************************************************)

Kept == oldestIndex .. total - 1

(* The record under the row's index, while there is one, is the row's.     *)
Matches(row) == /\ row.idx < total
                /\ row.idx >= oldestIndex => Contents[row.idx].packet = row.packet

RowsMatch == ~disturbed =>
               /\ \A i \in 1 .. Len(rows) : Matches(rows[i])
               /\ \A i \in 1 .. Len(new_cache) : Matches(new_cache[i])

Apart == ~disturbed => scans = << >> \/ received = 0

LiveInRing == \A i \in Kept : Contents[i].packet = <<"live", i + 1>>

BatchFollows == gui = "flushing" =>
                  /\ cursor <= Len(batch) /\ cursor <= total
                  /\ \A k \in 1 .. Len(batch) : batch[k] = total - cursor + k

PendingFollows ==
  /\ \A k \in 1 .. Len(live_pending) : live_pending[k] = received - Len(live_pending) + k
  /\ gui = "flushing" => total + (Len(batch) - cursor) + Len(live_pending) = received
  /\ gui \in {"idle", "filtering", "hung"} => total + Len(live_pending) = received

LiveOrder == ~disturbed /\ scans = << >> => LiveInRing /\ BatchFollows /\ PendingFollows

RowInv == TabInv /\ RowsMatch /\ Apart /\ LiveOrder

(* Pushes leave the packets of the window where they are.                  *)
LEMMA PushKeeps ==
  ASSUME RingInv, NEW p \in Packets, NEW r \in BOOLEAN, PushBegins(p, r)
  PROVE  /\ total \in Nat /\ total' = total + 1 /\ oldestIndex \in Nat /\ oldestIndex <= oldestIndex'
         /\ oldestIndex' <= total /\ Contents'[total].packet = p
         /\ \A i \in Kept' : i # total =>
              i \in Kept /\ Contents'[i].packet = Contents[i].packet
<1>1. total \in Nat /\ total' = total + 1 /\ max_packets \in Nat /\ max_packets >= 1
  BY RingAssumption DEF RingInv, TypeOK, PushBegins
<1>2. /\ oldestIndex \in Nat /\ oldestIndex <= oldestIndex' /\ oldestIndex' <= total
      /\ oldestIndex' \in Nat
  BY <1>1 DEF oldestIndex
<1>3. Contents' = [i \in Window!Indices(total + 1) |->
                     CASE i = total -> [packet |-> p, raw |-> r]
                       [] i < total /\ i > total - keep_raw -> Contents[i]
                       [] OTHER -> Window!WithoutRaw(Contents[i])]
  BY RefinesPush DEF Window!Push
<1>4. Window!Indices(total + 1) = oldestIndex' .. total
  BY <1>1 DEF Window!Indices, Window!Oldest, oldestIndex
<1>5. total \in oldestIndex' .. total BY <1>1, <1>2
<1>6. Contents'[total] = [packet |-> p, raw |-> r]
  <2>1. pushing' /\ record' = [index |-> total, packet |-> p, raw |-> r] BY DEF PushBegins
  <2>2. total \in oldestIndex' .. total' - 1 /\ total = total' - 1 BY <1>1, <1>5
  <2>3. Contents'[total] = [packet |-> record'.packet, raw |-> record'.raw]
    BY <2>1, <2>2 DEF Contents
  <2> QED BY <2>1, <2>3
<1>7. ASSUME NEW i \in Kept', i # total
      PROVE  i \in Kept /\ Contents'[i].packet = Contents[i].packet
  <2>1. i \in Kept /\ i \in oldestIndex' .. total /\ i < total
    BY <1>1, <1>2, <1>7 DEF Kept
  <2>2. Contents'[i] = Contents[i] \/ Contents'[i] = Window!WithoutRaw(Contents[i])
    BY <1>1, <1>3, <1>4, <1>7, <2>1
  <2> QED BY <2>1, <2>2 DEF Window!WithoutRaw
<1> QED BY <1>1, <1>2, <1>6, <1>7

LEMMA RowKept ==
  ASSUME RingInv, NEW row \in Row, Matches(row),
         \/ \E p \in Packets, r \in BOOLEAN : PushBegins(p, r)
         \/ PushStores
         \/ UNCHANGED vars
  PROVE  Matches(row)'
<1>1. ASSUME NEW p \in Packets, NEW r \in BOOLEAN, PushBegins(p, r) PROVE Matches(row)'
  <2>1. /\ total \in Nat /\ total' = total + 1 /\ oldestIndex \in Nat
        /\ oldestIndex <= oldestIndex' /\ oldestIndex' <= total
        /\ \A i \in Kept' : i # total =>
             i \in Kept /\ Contents'[i].packet = Contents[i].packet
    BY <1>1, PushKeeps
  <2>2. row.idx \in Nat /\ row.idx < total BY DEF Row, Matches
  <2>3. oldestIndex' \in Nat BY <2>1, RingAssumption DEF oldestIndex
  <2>4. row.idx < total' BY <2>1, <2>2
  <2>5. ASSUME row.idx >= oldestIndex' PROVE Contents'[row.idx].packet = row.packet
    <3>1. row.idx \in Kept' /\ row.idx # total /\ row.idx >= oldestIndex
      BY <2>1, <2>2, <2>3, <2>4, <2>5 DEF Kept
    <3> QED BY <2>1, <3>1 DEF Matches
  <2> QED BY <2>4, <2>5 DEF Matches
<1>2. CASE PushStores
  BY <1>2, RefinesStore DEF Matches, oldestIndex
<1>3. CASE UNCHANGED vars BY <1>3 DEF vars, Matches, oldestIndex, Contents
<1> QED BY <1>1, <1>2, <1>3

LEMMA RowInvInit == TabInit => RowInv
<1> SUFFICES ASSUME TabInit PROVE RowInv
  OBVIOUS
<1>1. total = 0 /\ oldestIndex = 0 /\ received = 0 /\ gui = "idle"
  BY RingAssumption DEF TabInit, Init, oldestIndex
<1>2. Len(rows) = 0 /\ Len(new_cache) = 0 /\ Len(live_pending) = 0
  BY DEF TabInit
<1>3. RowsMatch /\ Apart BY <1>1, <1>2 DEF RowsMatch, Apart
<1>4. LiveOrder
  BY <1>1, <1>2 DEF LiveOrder, LiveInRing, BatchFollows, PendingFollows, Kept
<1> QED BY <1>3, <1>4, TabInvInit DEF RowInv

(* The record that a flush lists is the live one it was made for, if the   *)
(* ring still has it.                                                      *)
LEMMA ListedIsLive ==
  ASSUME RowInv, ListRecord, ~disturbed
  PROVE  /\ ~pushing /\ Head(batch) \in 1 .. Len(Wire) /\ Head(batch) - 1 < total /\ total \in Nat
         /\ Head(batch) - 1 \in Nat /\ oldestIndex \in Nat
         /\ Head(batch) - 1 >= oldestIndex => Contents[Head(batch) - 1].packet = <<"live", Head(batch)>>
<1> DEFINE n == Head(batch)
<1>0. RingInv /\ TabTypeOK BY DEF RowInv, TabInv
<1>1. ~pushing /\ gui = "flushing" /\ batch # << >> /\ cursor = Len(batch) BY DEF ListRecord
<1>2. batch \in Seq(1 .. Len(Wire)) /\ Len(batch) \in Nat /\ Len(batch) > 0 /\ n = batch[1]
      /\ batch[1] \in 1 .. Len(Wire)
  BY <1>0, <1>1, EmptySeq, LenProperties, HeadTailProperties, ElementOfSeq DEF TabTypeOK
<1>3. scans = << >> BY <1>1 DEF RowInv, TabInv, NoLiveYet, Apart
<1>4. LiveInRing /\ BatchFollows BY <1>3 DEF RowInv, LiveOrder
<1>5. total \in Nat BY <1>0, RingAssumption DEF RingInv, TypeOK
<1>6. n = total - cursor + 1 /\ n - 1 \in Nat /\ n - 1 < total
  BY <1>1, <1>2, <1>4, <1>5 DEF BatchFollows
<1>7. oldestIndex \in Nat BY <1>5, OldestType
<1>8. n - 1 >= oldestIndex => Contents[n - 1].packet = <<"live", n>>
  <2>1. n - 1 >= oldestIndex => n - 1 \in Kept BY <1>5, <1>6, <1>7 DEF Kept
  <2>2. (n - 1) + 1 = n BY <1>2
  <2> QED BY <1>4, <2>1, <2>2 DEF LiveInRing
<1> QED BY <1>1, <1>2, <1>5, <1>6, <1>7, <1>8

LEMMA RowsNext ==
  ASSUME RowInv, TabInv', [TabNext]_tabVars PROVE RowsMatch'
<1> SUFFICES ASSUME ~disturbed' PROVE RowsMatch'
  BY DEF RowsMatch
<1>0. /\ RingInv /\ TabTypeOK /\ rows \in Seq(Row) /\ new_cache \in Seq(Row)
      /\ (\A i \in 1 .. Len(rows) : rows[i] \in Row)
      /\ (\A i \in 1 .. Len(new_cache) : new_cache[i] \in Row)
  <2>1. RingInv /\ TabTypeOK /\ rows \in Seq(Row) /\ new_cache \in Seq(Row)
    BY DEF RowInv, TabInv, TabTypeOK
  <2> QED BY <2>1, ElementOfSeq
<1>1. CASE rows' = << >> /\ new_cache' = << >>
  <2>1. Len(rows') = 0 /\ Len(new_cache') = 0 BY <1>1
  <2> QED BY <2>1 DEF RowsMatch
<1>2. CASE /\ UNCHANGED <<rows, new_cache>> /\ ~disturbed
           /\ \/ \E p \in Packets, r \in BOOLEAN : PushBegins(p, r)
              \/ PushStores
              \/ UNCHANGED vars
  <2>1. \A row \in Row : Matches(row) => Matches(row)' BY <1>0, <1>2, RowKept
  <2>2. \A i \in 1 .. Len(rows) : Matches(rows[i])' BY <1>0, <1>2, <2>1 DEF RowInv, RowsMatch
  <2>3. \A i \in 1 .. Len(new_cache) : Matches(new_cache[i])'
    BY <1>0, <1>2, <2>1 DEF RowInv, RowsMatch
  <2> QED BY <1>2, <2>2, <2>3 DEF RowsMatch, Matches
<1> DEFINE same == UNCHANGED vars
<1>3. CASE ListRecord
  <2> DEFINE n == Head(batch)
  <2>1. /\ same /\ rows' = rows /\ disturbed' = disturbed /\ ~pushing
        /\ new_cache' = new_cache \/ new_cache' = Append(new_cache, RowFor(n))
        /\ gui = "flushing" /\ batch # << >> /\ cursor = Len(batch)
    BY <1>3 DEF ListRecord
  <2>9. Matches(RowFor(n)) BY <1>3, <2>1, ListedIsLive DEF Matches, RowFor
  <2> HIDE DEF n
  <2>10. \A i \in 1 .. Len(new_cache') : Matches(new_cache'[i])
    <3>1. \A i \in 1 .. Len(new_cache) : Matches(new_cache[i])
      BY <2>1 DEF RowInv, RowsMatch
    <3>2. CASE new_cache' = new_cache BY <3>1, <3>2
    <3>3. CASE new_cache' = Append(new_cache, RowFor(n))
      <4>1. Append(new_cache, RowFor(n)) \in Seq(Row \union {RowFor(n)}) /\ Len(new_cache) \in Nat
            /\ Len(Append(new_cache, RowFor(n))) = Len(new_cache) + 1
            /\ \A i \in 1 .. Len(new_cache) + 1 :
                 Append(new_cache, RowFor(n))[i] = IF i <= Len(new_cache) THEN new_cache[i] ELSE RowFor(n)
        <5>1. new_cache \in Seq(Row \union {RowFor(n)})
          <6>1. new_cache = [i \in 1 .. Len(new_cache) |-> new_cache[i]] /\ Len(new_cache) \in Nat
            BY <1>0, LenProperties
          <6>2. \A i \in 1 .. Len(new_cache) : new_cache[i] \in Row \union {RowFor(n)} BY <1>0
          <6> QED BY <6>1, <6>2, IsASeq
        <5> QED BY <5>1, AppendProperties, LenProperties
      <4> QED BY <2>9, <3>1, <3>3, <4>1
    <3> QED BY <2>1, <3>2, <3>3
  <2>11. \A row : Matches(row)' = Matches(row)
    BY <2>1 DEF vars, Matches, oldestIndex, Contents
  <2>12. \A i \in 1 .. Len(rows) : Matches(rows[i]) BY <2>1 DEF RowInv, RowsMatch
  <2> HIDE DEF same
  <2> QED BY <2>1, <2>10, <2>11, <2>12 DEF RowsMatch, Matches
<1>4. CASE appendRecords
  <2>1. /\ UNCHANGED <<vars, disturbed>> /\ rows' = WithNewRows(new_cache) /\ new_cache' = << >>
    BY <1>4 DEF appendRecords
  <2>2. \A i \in 1 .. Len(WithNewRows(new_cache)) :
              \/ \E j \in 1 .. Len(rows) : WithNewRows(new_cache)[i] = rows[j]
              \/ \E j \in 1 .. Len(new_cache) : WithNewRows(new_cache)[i] = new_cache[j]
    <3>1. Len(rows) <= MAX_DISPLAY_ROWS BY <1>0 DEF TabTypeOK
    <3> QED BY <1>0, <3>1, NewRows
  <2>3. \A i \in 1 .. Len(rows') : Matches(rows'[i])
    BY <2>1, <2>2 DEF RowInv, RowsMatch
  <2>4. \A row : Matches(row)' = Matches(row)
    BY <2>1 DEF vars, Matches, oldestIndex, Contents
  <2>5. Len(new_cache') = 0 BY <2>1
  <2> QED BY <2>3, <2>4, <2>5 DEF RowsMatch, Matches
<1>5. CASE FilterRecord
  <2> DEFINE row == [idx |-> cursor, packet |-> buffer[SlotOf(cursor)].packet]
  <2>1. /\ UNCHANGED <<vars, disturbed, new_cache>> /\ ~pushing
        /\ rows' = rows \/ (finds(cursor) /\ rows' = Append(rows, row))
    BY <1>5 DEF FilterRecord
  <2>2. cursor \in Nat /\ total \in Nat /\ oldestIndex \in Nat
    BY <1>0, RingAssumption DEF TabTypeOK, RingInv, TypeOK, oldestIndex
  <2>3. finds(cursor) => Matches(row)
    <3>1. SUFFICES ASSUME finds(cursor) PROVE Matches(row)
      OBVIOUS
    <3>2. cursor \in oldestIndex .. total - 1 BY <2>2, <3>1 DEF finds
    <3>3. Contents[cursor].packet = buffer[SlotOf(cursor)].packet
      BY <2>1, <3>2 DEF Contents
    <3> QED BY <2>2, <3>2, <3>3 DEF Matches
  <2> HIDE DEF row
  <2>5. \A i \in 1 .. Len(rows) : Matches(rows[i]) BY <2>1 DEF RowInv, RowsMatch
  <2>6. \A i \in 1 .. Len(rows') : Matches(rows'[i])
    <3>1. CASE rows' = rows BY <2>5, <3>1
    <3>2. CASE finds(cursor) /\ rows' = Append(rows, row)
      <4>1. rows \in Seq(Row \union {row}) /\ Len(rows) \in Nat
        <5>1. rows = [i \in 1 .. Len(rows) |-> rows[i]] /\ Len(rows) \in Nat
          BY <1>0, LenProperties
        <5>2. \A i \in 1 .. Len(rows) : rows[i] \in Row \union {row} BY <1>0
        <5> QED BY <5>1, <5>2, IsASeq
      <4>2. /\ Len(Append(rows, row)) = Len(rows) + 1
            /\ \A i \in 1 .. Len(rows) + 1 :
                 Append(rows, row)[i] = IF i <= Len(rows) THEN rows[i] ELSE row
        BY <4>1, AppendProperties
      <4> QED BY <2>3, <2>5, <3>2, <4>1, <4>2
    <3> QED BY <2>1, <3>1, <3>2
  <2>7. \A x : Matches(x)' = Matches(x)
    BY <2>1 DEF vars, Matches, oldestIndex, Contents
  <2>8. \A i \in 1 .. Len(new_cache) : Matches(new_cache[i]) BY <2>1 DEF RowInv, RowsMatch
  <2> QED BY <2>1, <2>6, <2>7, <2>8 DEF RowsMatch, Matches
<1>6. CASE \/ \E typed \in Lines \union {<< >>} : onFilterChanged(typed)
           \/ onClearClicked
           \/ \E f \in Files : loadFile(f)
           \/ \E t \in DOMAIN scans : onScanned(t)
  <2>1. gui = "idle" /\ rows' = << >> /\ new_cache' = new_cache
    BY <1>6 DEF onFilterChanged, onClearClicked, loadFile, onScanned, ApplyFilter
  <2>2. new_cache = << >> BY <2>1 DEF RowInv, TabInv, QuietIsEmpty
  <2> QED BY <1>1, <2>1, <2>2
<1>7. CASE \/ \E from \in 0 .. Len(Wire), n \in 1 .. Len(Wire) : appendLivePackets(from, n)
           \/ onLiveTimer
           \/ \E paused \in BOOLEAN : setRenderPaused(paused)
           \/ FilterEnds
           \/ \E t \in DOMAIN scans : onScanFailed(t)
           \/ UNCHANGED tabVars
  <2>1. UNCHANGED <<vars, rows, new_cache>>
    BY <1>7 DEF appendLivePackets, onLiveTimer, setRenderPaused, FilterEnds, onScanFailed,
                ScanOnly, guiVars, tabVars
  <2>2. ~disturbed
    BY <1>7 DEF appendLivePackets, onLiveTimer, setRenderPaused, FilterEnds, onScanFailed,
                ScanOnly, tabVars
  <2> QED BY <1>2, <2>1, <2>2
<1>8. CASE FlushPushes
  <2>1. UNCHANGED <<rows, new_cache, disturbed>>
        /\ PushBegins(<<"live", batch[cursor + 1]>>, TRUE)
    BY <1>8 DEF FlushPushes
  <2> QED BY <1>2, <1>8, <2>1, FlushedIsPacket DEF RowInv
<1>9. ASSUME NEW t \in DOMAIN scans, Scan(t) PROVE RowsMatch'
  <2>1. UNCHANGED <<rows, new_cache, disturbed>> BY <1>9, ScanSteps DEF RowInv
  <2>2. (\E p \in Packets : PushBegins(p, FALSE)) \/ UNCHANGED vars
    BY <1>9, ScanPushesPackets DEF RowInv
  <2> QED BY <1>2, <2>1, <2>2
<1>10. CASE PushCompletes
  BY <1>2, <1>10 DEF PushCompletes, guiVars
<1> QED BY <1>3, <1>4, <1>5, <1>6, <1>7, <1>8, <1>9, <1>10
        DEF TabNext, GuiSteps, Completion

LEMMA ClearOfNoLive ==
  ASSUME TabInv, onClearClicked, ~disturbed'
  PROVE  ~disturbed /\ received = 0
<1>1. disturbed' = (disturbed \/ received > 0) /\ received \in Nat
  BY DEF onClearClicked, TabInv, TabTypeOK
<1>2. ~disturbed /\ ~(received > 0) BY <1>1, Zenon
<1> QED BY <1>1, <1>2

(* Steps of the GUI thread and the ring that start and move no scan.       *)
NoScanStep ==
  \/ onLiveTimer \/ GuiSteps \/ PushCompletes \/ UNCHANGED tabVars
  \/ \E paused \in BOOLEAN : setRenderPaused(paused)
  \/ \E typed \in Lines \union {<< >>} : onFilterChanged(typed)

LEMMA NoScanStepKeeps == NoScanStep => UNCHANGED <<scans, received, disturbed>>
<1> USE DEF liveVars, fileVars
<1>1. onLiveTimer => UNCHANGED <<scans, received, disturbed>> BY DEF onLiveTimer
<1>2. GuiSteps => UNCHANGED <<scans, received, disturbed>>
  BY DEF GuiSteps, FlushPushes, ListRecord, appendRecords, FilterRecord, FilterEnds
<1>3. PushCompletes => UNCHANGED <<scans, received, disturbed>> BY DEF PushCompletes
<1>4. UNCHANGED tabVars => UNCHANGED <<scans, received, disturbed>> BY DEF tabVars
<1>5. \A paused : setRenderPaused(paused) => UNCHANGED <<scans, received, disturbed>>
  BY DEF setRenderPaused
<1>6. \A typed : onFilterChanged(typed) => UNCHANGED <<scans, received, disturbed>>
  BY DEF onFilterChanged
<1> QED BY <1>1, <1>2, <1>3, <1>4, <1>5, <1>6 DEF NoScanStep

LEMMA ApartNext == ASSUME RowInv, [TabNext]_tabVars PROVE Apart'
<1> SUFFICES ASSUME ~disturbed' PROVE scans' = << >> \/ received' = 0
  BY DEF Apart
<1>1. ASSUME NEW from \in 0 .. Len(Wire), NEW n \in 1 .. Len(Wire), appendLivePackets(from, n)
      PROVE  scans' = << >>
  BY <1>1 DEF appendLivePackets, fileVars
<1>2. ASSUME NEW f \in Files, loadFile(f) PROVE received' = 0
  <2>1. received' = received /\ disturbed' = (disturbed \/ received > 0) /\ received \in Nat
    BY <1>2 DEF loadFile, Start, liveVars, RowInv, TabInv, TabTypeOK
  <2>2. ~(received > 0) BY <2>1, Zenon
  <2> QED BY <2>1, <2>2
<1>3. ASSUME NEW t \in DOMAIN scans, Scan(t) \/ Completion(t) PROVE received' = 0
  <2>1. received' = received /\ disturbed' = disturbed
    BY <1>3, ScanSteps DEF RowInv, Completion, onScanned, onScanFailed, ScanOnly, liveVars
  <2>2. DOMAIN scans = 1 .. Len(scans) /\ (scans = << >> => Len(scans) = 0)
    BY LenProperties DEF RowInv, TabInv, TabTypeOK
  <2>3. scans # << >> BY <2>2
  <2> QED BY <2>1, <2>3 DEF RowInv, Apart
<1>4. CASE onClearClicked
  <2>1. received' = received /\ received = 0
    BY <1>4, ClearOfNoLive DEF onClearClicked, liveVars, RowInv
  <2> QED BY <2>1
<1>5. CASE NoScanStep
  BY <1>5, NoScanStepKeeps DEF RowInv, Apart
<1> QED BY <1>1, <1>2, <1>3, <1>4, <1>5 DEF TabNext, NoScanStep

(* Of a step that leaves no scan started, what the tab's own variables do. *)
LEMMA NoScanYet ==
  ASSUME RowInv, [TabNext]_tabVars, ~disturbed', scans' = << >>
  PROVE  /\ ~disturbed /\ scans = << >> /\ LiveInRing /\ BatchFollows /\ PendingFollows
         /\ (\E from \in 0 .. Len(Wire), n \in 1 .. Len(Wire) : appendLivePackets(from, n))
            \/ onClearClicked \/ NoScanStep
<1>1. /\ scans \in Seq(ScanType) /\ Len(scans) \in Nat
      /\ DOMAIN scans = 1 .. Len(scans) /\ DOMAIN scans' = {}
  BY LenProperties DEF RowInv, TabInv, TabTypeOK, ScanType, ScanPlaces
<1>2. ASSUME NEW f \in Files, loadFile(f) PROVE FALSE
  <2>1. scans' = Append(scans, [file |-> f, next |-> 1, at |-> "starting"])
    BY <1>2 DEF loadFile, Start
  <2>2. [file |-> f, next |-> 1, at |-> "starting"] \in ScanType BY DEF ScanType, ScanPlaces
  <2>3. Len(scans') = Len(scans) + 1 BY <1>1, <2>1, <2>2, AppendProperties
  <2> QED BY <1>1, <2>3
<1>3. ASSUME NEW t \in DOMAIN scans, Scan(t) \/ Completion(t) PROVE FALSE
  <2>1. CASE Scan(t)
    <3>1. Len(scans') = Len(scans) /\ scans' \in Seq(ScanType) BY <2>1, ScanSteps DEF RowInv
    <3>2. DOMAIN scans' = 1 .. Len(scans') BY <3>1, LenProperties
    <3> QED BY <1>1, <3>1, <3>2
  <2>2. CASE Completion(t)
    <3>1. DOMAIN scans' = DOMAIN scans BY <2>2 DEF Completion, onScanned, onScanFailed, Move
    <3> QED BY <1>1, <3>1
  <2> QED BY <1>3, <2>1, <2>2
<1>4. (\E from \in 0 .. Len(Wire), n \in 1 .. Len(Wire) : appendLivePackets(from, n))
      \/ onClearClicked \/ NoScanStep
  BY <1>2, <1>3 DEF TabNext, NoScanStep
<1>5. ~disturbed /\ scans = << >>
  <2>1. ASSUME NEW from \in 0 .. Len(Wire), NEW n \in 1 .. Len(Wire), appendLivePackets(from, n)
        PROVE  ~disturbed /\ scans = << >>
    BY <2>1 DEF appendLivePackets, fileVars
  <2>2. CASE onClearClicked BY <2>2, ClearOfNoLive DEF onClearClicked, fileVars, RowInv
  <2>3. CASE NoScanStep BY <2>3, NoScanStepKeeps
  <2> QED BY <1>4, <2>1, <2>2, <2>3
<1>6. LiveInRing /\ BatchFollows /\ PendingFollows BY <1>5 DEF RowInv, LiveOrder
<1> QED BY <1>4, <1>5, <1>6

LEMMA RingAsItWas == UNCHANGED vars /\ LiveInRing => LiveInRing' /\ total' = total
<1> SUFFICES ASSUME UNCHANGED vars, LiveInRing PROVE LiveInRing' /\ total' = total
  OBVIOUS
<1>1. Kept' = Kept /\ total' = total BY DEF vars, Kept, oldestIndex
<1>2. Contents' = Contents BY DEF vars, Contents, oldestIndex
<1> QED BY <1>1, <1>2 DEF LiveInRing

(* A batch taken, and what remains pending, follow what the ring holds.    *)
LEMMA TakenFollows ==
  ASSUME TabInv, BatchFollows, PendingFollows, gui = "idle", TakeBatch, UNCHANGED <<total, received>>
  PROVE  BatchFollows' /\ PendingFollows'
<1> DEFINE n == Min({Len(live_pending), MAX_ROWS_PER_FLUSH})
           L == Len(live_pending)
           first == SubSeq(live_pending, 1, n)
           rest  == SubSeq(live_pending, n + 1, L)
<1>1. live_pending \in Seq(1 .. Len(Wire)) /\ L \in Nat /\ received \in Nat /\ total \in Nat
  BY LenProperties DEF TabInv, TabTypeOK, RingInv, TypeOK
<1>2. n \in Nat /\ n <= L BY <1>1, Sizes, MinOfTwo
<1>3. \/ UNCHANGED <<gui, batch, cursor, live_pending>>
      \/ gui' = "flushing" /\ cursor' = 0 /\ batch' = first /\ live_pending' = rest
  BY DEF TakeBatch
<1> HIDE DEF n
<1>4. Len(first) = n /\ \A k \in 1 .. n : first[k] = live_pending[k]
  BY <1>1, <1>2, FirstOf
<1>5. Len(rest) = L - n /\ \A k \in 1 .. L - n : rest[k] = live_pending[n + k]
  <2>1. /\ n + 1 \in Nat /\ 1 <= n + 1 /\ n + 1 <= L + 1 /\ L <= L /\ L + 1 - (n + 1) = L - n
        /\ \A k \in 1 .. L - n : (n + 1) + k - 1 = n + k
    BY <1>1, <1>2
  <2> QED BY <1>1, <2>1, PartOf
<1>6. total + L = received /\ \A k \in 1 .. L : live_pending[k] = received - L + k
  BY DEF PendingFollows
<1> HIDE DEF first, rest, L
<1>7. CASE UNCHANGED <<gui, batch, cursor, live_pending>>
  BY <1>7 DEF BatchFollows, PendingFollows
<1>8. CASE gui' = "flushing" /\ cursor' = 0 /\ batch' = first /\ live_pending' = rest
  <2>1. BatchFollows'
    <3>1. \A k \in 1 .. n : k \in 1 .. L /\ received - L + k = total - 0 + k BY <1>1, <1>2, <1>6
    <3>2. \A k \in 1 .. Len(first) : first[k] = total - 0 + k BY <1>4, <1>6, <3>1
    <3>3. 0 <= Len(first) /\ 0 <= total BY <1>1, <1>2, <1>4
    <3> QED BY <1>8, <3>2, <3>3 DEF BatchFollows
  <2>2. \A k \in 1 .. L - n : rest[k] = received - (L - n) + k
    <3>1. \A k \in 1 .. L - n : n + k \in 1 .. L BY <1>1, <1>2
    <3> QED BY <1>1, <1>2, <1>5, <1>6, <3>1
  <2>3. total + (n - 0) + (L - n) = received BY <1>1, <1>2, <1>6
  <2> QED BY <1>4, <1>5, <1>8, <2>1, <2>2, <2>3 DEF PendingFollows
<1> QED BY <1>3, <1>7, <1>8

LEMMA LiveOrderNext == ASSUME RowInv, TabInv', [TabNext]_tabVars PROVE LiveOrder'
<1> SUFFICES ASSUME ~disturbed', scans' = << >> PROVE LiveInRing' /\ BatchFollows' /\ PendingFollows'
  BY DEF LiveOrder
<1>0. /\ LiveInRing /\ BatchFollows /\ PendingFollows
      /\ (\E from \in 0 .. Len(Wire), n \in 1 .. Len(Wire) : appendLivePackets(from, n))
         \/ onClearClicked \/ NoScanStep
  BY NoScanYet
<1> DEFINE L == Len(live_pending)
<1>A. /\ TabInv /\ total \in Nat /\ received \in Nat /\ cursor \in Nat /\ L \in Nat
      /\ live_pending \in Seq(1 .. Len(Wire))
      /\ batch \in Seq(1 .. Len(Wire)) /\ Len(batch) \in Nat
  <2>1. TabInv BY DEF RowInv
  <2>2. RingInv /\ TabTypeOK BY <2>1 DEF TabInv
  <2>3. total \in Nat BY <2>2 DEF RingInv, TypeOK
  <2>4. /\ received \in 0 .. Len(Wire) /\ cursor \in Nat
        /\ live_pending \in Seq(1 .. Len(Wire)) /\ batch \in Seq(1 .. Len(Wire))
    BY <2>2 DEF TabTypeOK
  <2> QED BY <2>1, <2>3, <2>4, LenProperties
<1>1. ASSUME NEW from \in 0 .. Len(Wire), NEW n \in 1 .. Len(Wire), appendLivePackets(from, n)
      PROVE  LiveInRing' /\ BatchFollows' /\ PendingFollows'
  <2> DEFINE more == [i \in 1 .. n |-> from + i]
             all  == live_pending \o more
  <2>1. /\ gui = "idle" /\ UNCHANGED <<vars, gui, batch, cursor>>
        /\ received' = received + n /\ from + n <= Len(Wire)
        /\ live_pending' = IF Len(all) > MAX_PENDING_BUFFER THEN Newest(all, DROP_TO_SIZE) ELSE all
        /\ disturbed' = (disturbed \/ from # received \/ Len(all) > MAX_PENDING_BUFFER
                           \/ scans # << >>)
    BY <1>1 DEF appendLivePackets, guiVars
  <2>2. LiveInRing' /\ total' = total BY <1>0, <2>1, RingAsItWas
  <2>3. BatchFollows' BY <2>1 DEF BatchFollows
  <2>4. ~(Len(all) > MAX_PENDING_BUFFER) /\ from = received BY <2>1, Zenon
  <2>5. live_pending' = all BY <2>1, <2>4
  <2>6. n \in Nat OBVIOUS
  <2>7. more \in Seq(1 .. Len(Wire)) /\ Len(more) = n /\ \A i \in 1 .. n : more[i] = received + i
    <3>1. Len(Wire) \in Nat BY PacketTabAssumption, LenProperties
    <3>2. \A i \in 1 .. n : received + i \in 1 .. Len(Wire) BY <1>A, <2>1, <2>4, <2>6, <3>1
    <3> QED BY <2>4, <2>6, <3>2, IsASeq, LenProperties
  <2>8. live_pending \in Seq(1 .. Len(Wire)) BY <1>A
  <2> HIDE DEF more
  <2>9. /\ Len(all) = L + n
        /\ \A k \in 1 .. L + n : all[k] = IF k <= L THEN live_pending[k] ELSE more[k - L]
    BY <2>6, <2>7, <2>8, ConcatProperties
  <2> HIDE DEF all
  <2>10. total + L = received /\ \A k \in 1 .. L : live_pending[k] = received - L + k
    BY <1>0, <2>1 DEF PendingFollows
  <2> HIDE DEF L
  <2>11. ASSUME NEW k \in 1 .. L + n PROVE all[k] = (received + n) - (L + n) + k
    <3>1. CASE k <= L
      <4>1. k \in 1 .. L BY <1>A, <2>6, <3>1
      <4>2. all[k] = received - L + k BY <2>9, <2>10, <3>1, <4>1
      <4> QED BY <1>A, <2>6, <4>1, <4>2
    <3>2. CASE ~(k <= L)
      <4>1. k - L \in 1 .. n BY <1>A, <2>6, <3>2
      <4> QED BY <1>A, <2>6, <2>7, <2>9, <3>2, <4>1
    <3> QED BY <3>1, <3>2
  <2>12. total + (L + n) = received + n BY <1>A, <2>6, <2>10
  <2>13. PendingFollows' BY <2>1, <2>2, <2>5, <2>9, <2>11, <2>12 DEF PendingFollows
  <2> QED BY <2>2, <2>3, <2>13
<1>2. CASE onClearClicked
  <2>1. /\ received = 0 /\ Clear /\ gui = "idle"
        /\ UNCHANGED <<gui, batch, cursor, received, live_pending>>
    BY <1>A, <1>2, ClearOfNoLive DEF onClearClicked, liveVars
  <2>2. total' = 0 BY <2>1 DEF Clear
  <2>3. L = 0 BY <1>0, <1>A, <2>1 DEF PendingFollows
  <2>4. LiveInRing'
    <3>1. Kept' = {} BY <2>2, RingAssumption DEF Kept, oldestIndex
    <3> QED BY <3>1 DEF LiveInRing
  <2>5. BatchFollows' BY <2>1 DEF BatchFollows
  <2>6. PendingFollows' BY <2>1, <2>2, <2>3 DEF PendingFollows
  <2> QED BY <2>4, <2>5, <2>6
<1>3. ASSUME gui = "idle", TakeBatch, UNCHANGED <<vars, received>>
      PROVE  LiveInRing' /\ BatchFollows' /\ PendingFollows'
  BY <1>0, <1>A, <1>3, RingAsItWas, TakenFollows
<1>4. CASE UNCHANGED <<vars, gui, batch, cursor, received, live_pending>>
  <2>1. LiveInRing' /\ total' = total BY <1>0, <1>4, RingAsItWas
  <2> QED BY <1>0, <1>4, <2>1 DEF BatchFollows, PendingFollows
<1>5. CASE onLiveTimer BY <1>3, <1>5 DEF onLiveTimer
<1>6. ASSUME NEW paused, setRenderPaused(paused)
      PROVE  LiveInRing' /\ BatchFollows' /\ PendingFollows'
  <2>1. gui = "idle" /\ UNCHANGED <<vars, received>>
        /\ (UNCHANGED <<gui, batch, cursor, live_pending>> \/ TakeBatch)
    BY <1>6 DEF setRenderPaused
  <2> QED BY <1>3, <1>4, <2>1
<1>7. ASSUME NEW typed, onFilterChanged(typed)
      PROVE  LiveInRing' /\ BatchFollows' /\ PendingFollows'
  <2>1. gui = "idle" /\ gui' = "filtering" /\ UNCHANGED <<vars, batch, received, live_pending>>
    BY <1>7 DEF onFilterChanged, ApplyFilter, liveVars
  <2>2. LiveInRing' /\ total' = total BY <1>0, <2>1, RingAsItWas
  <2> QED BY <1>0, <2>1, <2>2 DEF BatchFollows, PendingFollows
<1>8. CASE FilterRecord \/ FilterEnds
  <2>1. /\ gui = "filtering" /\ gui' \in {"filtering", "hung", "idle"}
        /\ UNCHANGED <<vars, batch, received, live_pending>>
    BY <1>8 DEF FilterRecord, FilterEnds, liveVars
  <2>2. LiveInRing' /\ total' = total BY <1>0, <2>1, RingAsItWas
  <2> QED BY <1>0, <2>1, <2>2 DEF BatchFollows, PendingFollows
<1>9. CASE appendRecords
  <2>1. /\ gui = "flushing" /\ gui' = "idle" /\ batch = << >>
        /\ UNCHANGED <<vars, batch, cursor, received, live_pending>>
    BY <1>9 DEF appendRecords, liveVars
  <2>2. LiveInRing' /\ total' = total BY <1>0, <2>1, RingAsItWas
  <2>3. cursor = 0 /\ Len(batch) = 0
    <3>1. Len(batch) = 0 BY <2>1
    <3> QED BY <1>0, <1>A, <2>1, <3>1 DEF BatchFollows
  <2>4. total + L = received BY <1>0, <1>A, <2>1, <2>3 DEF PendingFollows
  <2> QED BY <1>0, <2>1, <2>2, <2>4 DEF BatchFollows, PendingFollows
<1>10. CASE ListRecord
  <2>1. /\ gui = "flushing" /\ batch # << >> /\ cursor = Len(batch)
        /\ batch' = Tail(batch) /\ cursor' = cursor - 1 /\ gui' \in {"flushing", "crashed"}
        /\ UNCHANGED <<vars, received, live_pending>>
    BY <1>10 DEF ListRecord, liveVars
  <2>2. LiveInRing' /\ total' = total BY <1>0, <2>1, RingAsItWas
  <2>3. /\ Len(batch) > 0 /\ Len(Tail(batch)) = Len(batch) - 1
        /\ \A k \in 1 .. Len(batch) - 1 : Tail(batch)[k] = batch[k + 1]
    BY <1>A, <2>1, EmptySeq, LenProperties, HeadTailProperties
  <2>4. cursor <= total /\ \A k \in 1 .. Len(batch) : batch[k] = total - cursor + k
    BY <1>0, <2>1 DEF BatchFollows
  <2>5. BatchFollows'
    <3>1. \A k \in 1 .. Len(batch) - 1 : Tail(batch)[k] = total - (cursor - 1) + k
      BY <1>A, <2>3, <2>4
    <3>2. cursor - 1 <= total /\ cursor - 1 <= Len(batch) - 1 BY <1>A, <2>1, <2>4
    <3> QED BY <2>1, <2>2, <2>3, <3>1, <3>2 DEF BatchFollows
  <2>6. PendingFollows'
    <3>1. total + (Len(batch) - cursor) + L = received
          /\ (Len(batch) - 1) - (cursor - 1) = Len(batch) - cursor
      BY <1>0, <1>A, <2>1 DEF PendingFollows
    <3> QED BY <1>0, <2>1, <2>2, <2>3, <3>1 DEF PendingFollows
  <2> QED BY <2>2, <2>5, <2>6
<1>11. CASE FlushPushes
  <2>1. /\ gui = "flushing" /\ cursor < Len(batch) /\ cursor' = cursor + 1
        /\ PushBegins(<<"live", batch[cursor + 1]>>, TRUE)
        /\ UNCHANGED <<gui, batch, received, live_pending>>
    BY <1>11 DEF FlushPushes, liveVars
  <2>2. /\ total' = total + 1 /\ Contents'[total].packet = <<"live", batch[cursor + 1]>>
        /\ \A i \in Kept' : i # total => i \in Kept /\ Contents'[i].packet = Contents[i].packet
    BY <1>A, <1>11, <2>1, FlushedIsPacket, PushKeeps DEF TabInv
  <2>3. cursor <= total /\ \A k \in 1 .. Len(batch) : batch[k] = total - cursor + k
    BY <1>0, <2>1 DEF BatchFollows
  <2>4. batch[cursor + 1] = total + 1
    <3>1. cursor + 1 \in 1 .. Len(batch) /\ total - cursor + (cursor + 1) = total + 1
      BY <1>A, <2>1
    <3> QED BY <2>3, <3>1
  <2>5. LiveInRing' BY <1>0, <2>2, <2>4 DEF LiveInRing
  <2>6. BatchFollows'
    <3>1. /\ (total + 1) - (cursor + 1) = total - cursor
          /\ cursor + 1 <= Len(batch) /\ cursor + 1 <= total + 1
      BY <1>A, <2>1, <2>3
    <3> QED BY <2>1, <2>2, <2>3, <3>1 DEF BatchFollows
  <2>7. PendingFollows'
    <3>0. total + (Len(batch) - cursor) + L = received BY <1>0, <2>1 DEF PendingFollows
    <3> DEFINE B == Len(batch)
    <3>2. total \in Nat /\ B \in Nat /\ cursor \in Nat /\ L \in Nat BY <1>A
    <3>3. total + (B - cursor) + L = received BY <3>0
    <3> HIDE DEF B, L
    <3>4. (total + 1) + (B - (cursor + 1)) + L = received BY <3>2, <3>3
    <3> USE DEF B, L
    <3>1. (total + 1) + (Len(batch) - (cursor + 1)) + L = received BY <3>4
    <3> QED BY <1>0, <2>1, <2>2, <3>1 DEF PendingFollows
  <2> QED BY <2>5, <2>6, <2>7
<1>12. CASE PushCompletes
  <2>1. PushStores /\ UNCHANGED <<gui, batch, cursor, received, live_pending>>
    BY <1>12 DEF PushCompletes, guiVars, liveVars
  <2>2. total' = total /\ Contents' = Contents BY <1>A, <2>1, RefinesStore DEF TabInv, PushStores
  <2>3. LiveInRing' BY <1>0, <2>2 DEF LiveInRing, Kept, oldestIndex
  <2> QED BY <1>0, <2>1, <2>2, <2>3 DEF BatchFollows, PendingFollows
<1>13. CASE UNCHANGED tabVars BY <1>4, <1>13 DEF tabVars, guiVars, liveVars
<1> QED BY <1>0, <1>1, <1>2, <1>5, <1>6, <1>7, <1>8, <1>9, <1>10, <1>11, <1>12, <1>13
        DEF NoScanStep, GuiSteps

LEMMA RowInvHolds == TabSpec => []RowInv
<1>1. RowInv /\ [TabNext]_tabVars => RowInv'
  BY TabInvNext, RowsNext, ApartNext, LiveOrderNext DEF RowInv
<1> QED BY <1>1, RowInvInit, PTL DEF TabSpec

(* As long as nothing was dropped, cleared or mixed, a click on a row      *)
(* opens the packet the row shows.                                         *)
THEOREM RowsOpenTheirOwnHolds == TabSpec => []RowsOpenTheirOwn
<1>1. RowInv => RowsOpenTheirOwn
  <2> SUFFICES ASSUME RowInv, ~disturbed, NEW i \in DOMAIN rows,
                      rows[i].idx >= oldestIndex, ~pushing
               PROVE  \E r \in recordAt(i) : r.packet = rows[i].packet
    BY DEF RowsOpenTheirOwn
  <2>1. rows \in Seq(Row) /\ DOMAIN rows = 1 .. Len(rows) BY LenProperties DEF RowInv, TabInv, TabTypeOK
  <2>2. Matches(rows[i]) /\ rows[i].idx \in Nat
    <3>1. i \in 1 .. Len(rows) /\ rows[i] \in Row BY <2>1, ElementOfSeq
    <3> QED BY <3>1 DEF RowInv, RowsMatch, Row
  <2> DEFINE k == rows[i].idx
  <2>3. k \in oldestIndex .. total - 1
    <3>1. total \in Nat /\ oldestIndex \in Nat
      BY OldestType DEF RowInv, TabInv, RingInv, TypeOK
    <3>2. k < total BY <2>2 DEF Matches
    <3> QED BY <2>2, <3>1, <3>2
  <2>4. Contents[k].packet = buffer[SlotOf(k)].packet BY <2>3 DEF Contents
  <2>5. finds(k) BY <2>3, InvImpliesWindowComplete DEF RowInv, TabInv, WindowComplete
  <2> QED BY <2>2, <2>4, <2>5 DEF recordAt, At, Matches
<1> QED BY <1>1, RowInvHolds, PTL

-----------------------------------------------------------------------------
(***************************************************************************)
(* Where the records of the ring come from.  As long as no file was loaded *)
(* during another's scan, only the last scan runs, with the reader to      *)
(* itself: the mapping, the size and the header are its own.  Every record *)
(* of a file is then from the current one, and that is the file in memory: *)
(* a scan that has not read yet has found the ring without such records.   *)
(***************************************************************************)

OwnFile(p) == p[1] = "live" \/ (p[1] = current_file /\ mapped # 0 /\ mapped = Len(scans))

OwnOnly == \A i \in Kept : OwnFile(Contents[i].packet)

LiveOnly == \A i \in Kept : Contents[i].packet[1] = "live"

LastFits(t) ==
  /\ scans[t].file = current_file
  /\ scans[t].at \in {"starting", "opening", "mapped"} => LiveOnly
  /\ scans[t].at \in {"starting", "opening"} => t \notin unmapped
  /\ scans[t].at \in {"mapped", "scanning", "reading"} =>
       mapped = t /\ sized = current_file /\ t \notin unmapped
  /\ scans[t].at \in {"scanning", "reading"} => header = current_file
  /\ scans[t].at = "reading" => scans[t].next \in DOMAIN Disk[current_file]

LastScan == \A t \in DOMAIN scans :
  /\ Running(scans[t]) => t = Len(scans)
  /\ scans[t].at = "scanned" => scans[t].next \notin DOMAIN Disk[scans[t].file]
  /\ t = Len(scans) => LastFits(t)

FileInv == TabInv /\ (~overlapped => LastScan /\ OwnOnly)

LEMMA PacketIsPair == \A p \in Packets : p = <<p[1], p[2]>>
<1> DEFINE Live == {<<"live", i>> : i \in DOMAIN Wire}
           FromFiles == UNION {{<<f, i>> : i \in DOMAIN Disk[f]} : f \in Files}
           Else == {<<"misread", i>> : i \in Places}
<1>1. Packets = (Live \union FromFiles) \union Else BY PacketTabAssumption
<1>2. \A p \in Live : p = <<p[1], p[2]>> OBVIOUS
<1>3. \A p \in FromFiles : p = <<p[1], p[2]>> OBVIOUS
<1>4. \A p \in Else : p = <<p[1], p[2]>> OBVIOUS
<1> HIDE DEF Live, FromFiles, Else
<1> QED BY <1>1, <1>2, <1>3, <1>4

LEMMA FileInvInit == TabInit => FileInv
<1> SUFFICES ASSUME TabInit PROVE FileInv
  OBVIOUS
<1>1. Kept = {} BY RingAssumption DEF TabInit, Init, Kept, oldestIndex
<1>2. DOMAIN scans = {} BY DEF TabInit
<1> QED BY <1>1, <1>2, TabInvInit DEF FileInv, LastScan, OwnOnly

LEMMA SameEnd == ASSUME NEW m \in Nat, NEW n \in Nat, 1 .. m = 1 .. n PROVE m = n
<1>1. CASE m < n
  <2>1. n \in 1 .. n /\ n \notin 1 .. m BY <1>1
  <2> QED BY <2>1
<1>2. CASE n < m
  <2>1. m \in 1 .. m /\ m \notin 1 .. n BY <1>2
  <2> QED BY <2>1
<1> QED BY <1>1, <1>2

Advance(t, to) == scans' = [scans EXCEPT ![t].at = to, ![t].next = @ + 1]

Goes(t, to, n) == \/ Move(t, to) /\ n = scans[t].next
                  \/ Advance(t, to) /\ n = scans[t].next + 1

(* A scan that moves leaves the others, and their number.                  *)
LEMMA Moved ==
  ASSUME scans \in Seq(ScanType), NEW t \in DOMAIN scans, NEW to \in ScanPlaces, NEW n,
         Goes(t, to, n)
  PROVE  /\ scans' \in Seq(ScanType) /\ DOMAIN scans' = DOMAIN scans /\ Len(scans') = Len(scans)
         /\ \A u \in DOMAIN scans : u # t => scans'[u] = scans[u]
         /\ scans'[t].file = scans[t].file /\ scans'[t].at = to /\ scans'[t].next = n
<1>1. scans' \in Seq(ScanType) /\ scans[t] \in ScanType BY ScansMove DEF Goes, Move, Advance
<1>2. /\ DOMAIN scans' = 1 .. Len(scans') /\ Len(scans') \in Nat
      /\ DOMAIN scans = 1 .. Len(scans) /\ Len(scans) \in Nat
  BY <1>1, LenProperties
<1>3. CASE Move(t, to) /\ n = scans[t].next
  <2>1. DOMAIN scans' = DOMAIN scans /\ \A u \in DOMAIN scans : u # t => scans'[u] = scans[u]
    BY <1>3 DEF Move
  <2>2. scans'[t] = [scans[t] EXCEPT !.at = to] BY <1>3 DEF Move
  <2>3. scans'[t].file = scans[t].file /\ scans'[t].at = to /\ scans'[t].next = n
    BY <1>1, <1>3, <2>2 DEF ScanType
  <2> QED BY <1>1, <1>2, <2>1, <2>3, SameEnd
<1>4. CASE Advance(t, to) /\ n = scans[t].next + 1
  <2> DEFINE x  == [scans[t] EXCEPT !.at = to]
             s1 == [scans EXCEPT ![t] = x]
  <2>1. DOMAIN s1 = DOMAIN scans /\ s1[t] = x /\ \A u \in DOMAIN scans : u # t => s1[u] = scans[u]
    OBVIOUS
  <2>2. x.file = scans[t].file /\ x.at = to /\ x \in ScanType BY <1>1 DEF ScanType
  <2>3. scans' = [s1 EXCEPT ![t] = [s1[t] EXCEPT !.next = scans[t].next + 1]] BY <1>4 DEF Advance
  <2> HIDE DEF s1, x
  <2>4. DOMAIN scans' = DOMAIN scans /\ \A u \in DOMAIN scans : u # t => scans'[u] = scans[u]
    BY <2>1, <2>3
  <2>5. scans'[t] = [x EXCEPT !.next = scans[t].next + 1] BY <2>1, <2>3
  <2>6. scans'[t].file = scans[t].file /\ scans'[t].at = to /\ scans'[t].next = n
    BY <1>4, <2>2, <2>5 DEF ScanType
  <2> QED BY <1>1, <1>2, <2>4, <2>6, SameEnd
<1> QED BY <1>3, <1>4 DEF Goes

LEMMA FileInvClear ==
  ASSUME FileInv, Clear, UNCHANGED <<scans, reader_, current_file>>, ~overlapped
  PROVE  LastScan' /\ OwnOnly'
<1>1. Kept' = {} BY RingAssumption DEF Clear, Kept, oldestIndex
<1>2. LiveOnly' /\ OwnOnly' BY <1>1 DEF LiveOnly, OwnOnly
<1>3. scans' = scans /\ UNCHANGED reader_ /\ current_file' = current_file OBVIOUS
<1>4. LastScan' BY <1>2, <1>3 DEF FileInv, LastScan, LastFits, Running, reader_
<1> QED BY <1>2, <1>4

(* The scan that moves is the last one.                                    *)
LEMMA LastMoves ==
  ASSUME FileInv, ~overlapped, NEW t \in DOMAIN scans, NEW to \in ScanPlaces, NEW n,
         Goes(t, to, n),
         Running(scans[t]), UNCHANGED current_file
  PROVE  /\ t = Len(scans) /\ t # 0 /\ Len(scans') = t
         /\ scans[t].file = current_file /\ scans'[t].file = current_file
         /\ scans'[t].at = to /\ scans'[t].next = n
         /\ (to = "scanned" => n \notin DOMAIN Disk[current_file]) /\ LastFits(t)' => LastScan'
<1>1. scans \in Seq(ScanType) BY DEF FileInv, TabInv, TabTypeOK, ScanType, ScanPlaces
<1>2. LastScan /\ t = Len(scans) BY DEF FileInv, LastScan
<1>3. scans[t].file = current_file BY <1>2 DEF LastScan, LastFits
<1>4. /\ DOMAIN scans' = DOMAIN scans /\ Len(scans') = Len(scans)
      /\ \A u \in DOMAIN scans : u # t => scans'[u] = scans[u]
      /\ scans'[t].file = scans[t].file /\ scans'[t].at = to /\ scans'[t].next = n
  BY <1>1, Moved
<1>5. t # 0 BY <1>1, LenProperties
<1>6. ASSUME to = "scanned" => n \notin DOMAIN Disk[current_file], LastFits(t)' PROVE LastScan'
  <2> SUFFICES ASSUME NEW u \in DOMAIN scans
               PROVE  /\ Running(scans'[u]) => u = Len(scans)
                      /\ scans'[u].at = "scanned" => scans'[u].next \notin DOMAIN Disk[scans'[u].file]
                      /\ u = Len(scans) => LastFits(u)'
    BY <1>4 DEF LastScan
  <2>1. CASE u = t BY <1>2, <1>3, <1>4, <1>6, <2>1
  <2>2. CASE u # t BY <1>2, <1>4, <2>2 DEF LastScan
  <2> QED BY <2>1, <2>2
<1> QED BY <1>2, <1>3, <1>4, <1>5, <1>6

(* A scan that has the reader to itself finds the frames of its file.      *)
LEMMA ReadsOwn ==
  ASSUME TabInv, NEW t \in DOMAIN scans, scans[t].at \in {"scanning", "reading"}, LastFits(t)
  PROVE  /\ InBound(t) <=> scans[t].next \in DOMAIN Disk[current_file]
         /\ scans[t].at = "reading" =>
              /\ InBound(t) /\ ~Strays(t) /\ header # NoFile
              /\ Found(t) = {<<current_file, scans[t].next>>}
<1>1. /\ scans[t].file = current_file /\ sized = current_file /\ header = current_file
      /\ t \notin unmapped
      /\ scans[t].at = "reading" => scans[t].next \in DOMAIN Disk[current_file]
  BY DEF LastFits
<1>2. current_file # NoFile
  <2>1. scans \in Seq(ScanType) BY DEF TabInv, TabTypeOK, ScanType, ScanPlaces
  <2>2. scans[t].file \in Files BY <2>1, ScansMove DEF ScanType
  <2>3. NoFile \notin Files BY PacketTabAssumption DEF NoFile
  <2> QED BY <1>1, <2>2, <2>3
<1>3. InBound(t) <=> scans[t].next \in DOMAIN Disk[current_file] BY <1>1, <1>2 DEF InBound
<1>4. ASSUME scans[t].at = "reading"
      PROVE  /\ InBound(t) /\ ~Strays(t) /\ header # NoFile
             /\ Found(t) = {<<current_file, scans[t].next>>}
  <2>1. InBound(t) /\ ~Strays(t) /\ header # NoFile BY <1>1, <1>2, <1>3, <1>4 DEF Strays
  <2>2. LinkTypes(header) = LinkTypes(scans[t].file) BY <1>1
  <2>3. Found(t) = {<<scans[t].file, scans[t].next>>} BY <2>1, <2>2 DEF Found
  <2> QED BY <1>1, <2>1, <2>3
<1> QED BY <1>3, <1>4

LEMMA FileScanNext ==
  ASSUME FileInv, ~overlapped, NEW t \in DOMAIN scans, Scan(t) PROVE LastScan' /\ OwnOnly'
<1>0. /\ TabInv /\ LastScan /\ OwnOnly /\ RingInv /\ scans \in Seq(ScanType)
      /\ current_file' = current_file
  BY ScanSteps DEF FileInv, TabInv, TabTypeOK, ScanType, ScanPlaces
<1>1. Running(scans[t])
  BY DEF Scan, ScanResets, ScanMaps, ScanOpens, ScanFails, ScanTests, ScanPushes, ScanBreaks,
         ScanCrashes, ScanEnds, Running
<1>2. t = Len(scans) /\ LastFits(t) BY <1>0, <1>1 DEF LastScan
<1>3. /\ t # 0 /\ scans[t].file = current_file /\ Len(scans') = Len(scans)
  BY <1>0, <1>2, ScanSteps, LenProperties DEF LastFits
<1>4. ASSUME UNCHANGED vars
      PROVE  /\ LiveOnly' = LiveOnly
             /\ LiveOnly => OwnOnly'
             /\ UNCHANGED mapped => OwnOnly'
  <2>1. Kept' = Kept /\ Contents' = Contents BY <1>4 DEF vars, Kept, Contents, oldestIndex
  <2> QED BY <1>0, <1>3, <2>1 DEF LiveOnly, OwnOnly, OwnFile
<1>5. CASE ScanResets(t)
  <2>1. /\ scans[t].at = "starting" /\ Move(t, "opening") /\ UNCHANGED <<vars, unmapped>>
    BY <1>5 DEF ScanResets
  <2>2. LiveOnly /\ t \notin unmapped BY <1>2, <2>1 DEF LastFits
  <2>3. LastFits(t)' \/ ~(scans'[t].file = current_file /\ scans'[t].at = "opening")
    BY <1>0, <1>4, <2>1, <2>2 DEF LastFits
  <2>4. LastScan' BY <1>0, <1>1, <2>1, <2>3, LastMoves DEF ScanPlaces, Goes
  <2> QED BY <1>4, <2>1, <2>2, <2>4
<1>6. CASE ScanMaps(t)
  <2>1. /\ scans[t].at = "opening" /\ Move(t, "mapped") /\ UNCHANGED <<vars, unmapped>>
        /\ mapped' = t /\ sized' = scans[t].file
    BY <1>6 DEF ScanMaps
  <2>2. LiveOnly /\ t \notin unmapped BY <1>2, <2>1 DEF LastFits
  <2>3. LastFits(t)' \/ ~(scans'[t].file = current_file /\ scans'[t].at = "mapped")
    BY <1>0, <1>3, <1>4, <2>1, <2>2 DEF LastFits
  <2>4. LastScan' BY <1>0, <1>1, <2>1, <2>3, LastMoves DEF ScanPlaces, Goes
  <2> QED BY <1>4, <2>1, <2>2, <2>4
<1>7. CASE ScanOpens(t)
  <2>1. /\ scans[t].at = "mapped" /\ Move(t, "scanning") /\ UNCHANGED <<vars, mapped, sized, unmapped>>
        /\ header' = scans[t].file
    BY <1>7 DEF ScanOpens
  <2>2. mapped = t /\ sized = current_file /\ t \notin unmapped BY <1>2, <2>1 DEF LastFits
  <2>3. LastFits(t)' \/ ~(scans'[t].file = current_file /\ scans'[t].at = "scanning")
    BY <1>0, <1>3, <2>1, <2>2 DEF LastFits
  <2>4. LastScan' BY <1>0, <1>1, <2>1, <2>3, LastMoves DEF ScanPlaces, Goes
  <2> QED BY <1>4, <2>1, <2>4
<1>8. CASE ScanFails(t)
  <2>1. /\ scans[t].at \in {"opening", "mapped"} /\ Move(t, "failed") /\ UNCHANGED vars
    BY <1>8 DEF ScanFails
  <2>2. LiveOnly BY <1>2, <2>1 DEF LastFits
  <2>3. LastFits(t)' \/ ~(scans'[t].file = current_file /\ scans'[t].at = "failed")
    BY <1>0 DEF LastFits
  <2>4. LastScan' BY <1>0, <1>1, <2>1, <2>3, LastMoves DEF ScanPlaces, Goes
  <2> QED BY <1>4, <2>1, <2>2, <2>4
<1>9. CASE ScanTests(t)
  <2>1. /\ scans[t].at = "scanning" /\ Move(t, "reading") /\ UNCHANGED <<vars, reader_>>
        /\ InBound(t)
    BY <1>9 DEF ScanTests
  <2>2. /\ mapped = t /\ sized = current_file /\ t \notin unmapped /\ header = current_file
        /\ scans[t].next \in DOMAIN Disk[current_file]
    BY <1>0, <1>2, <2>1, ReadsOwn DEF LastFits
  <2>3. LastFits(t)' \/ ~(/\ scans'[t].file = current_file /\ scans'[t].at = "reading"
                        /\ scans'[t].next = scans[t].next)
    BY <1>0, <2>1, <2>2 DEF LastFits, reader_
  <2>4. LastScan' BY <1>0, <1>1, <2>1, <2>3, LastMoves DEF ScanPlaces, Goes
  <2> QED BY <1>4, <2>1, <2>4 DEF reader_
<1>10. CASE ScanPushes(t)
  <2>1. /\ scans[t].at = "reading" /\ UNCHANGED reader_
        /\ scans' = [scans EXCEPT ![t].at = "scanning", ![t].next = @ + 1]
    BY <1>10 DEF ScanPushes
  <2>2. /\ mapped = t /\ sized = current_file /\ t \notin unmapped /\ header = current_file
        /\ Found(t) = {<<current_file, scans[t].next>>}
    BY <1>0, <1>2, <2>1, ReadsOwn DEF LastFits
  <2>3. LastFits(t)' \/ ~(/\ scans'[t].file = current_file /\ scans'[t].at = "scanning")
    BY <1>0, <2>1, <2>2 DEF LastFits, reader_
  <2>4. LastScan'
    <3> DEFINE n == scans[t].next + 1
    <3>1. Advance(t, "scanning") /\ n = scans[t].next + 1 BY <2>1 DEF Advance
    <3> HIDE DEF n
    <3> QED BY <1>0, <1>1, <2>3, <3>1, LastMoves DEF ScanPlaces, Goes
  <2> DEFINE p == <<current_file, scans[t].next>>
  <2>5. p \in Packets /\ PushBegins(p, FALSE) BY <1>0, <1>10, <2>2, FoundIsPacket DEF ScanPushes
  <2>6. /\ Contents'[total].packet = p
        /\ \A i \in Kept' : i # total => i \in Kept /\ Contents'[i].packet = Contents[i].packet
    BY <1>0, <2>5, PushKeeps
  <2>7. OwnOnly' BY <1>0, <1>2, <1>3, <2>1, <2>2, <2>6 DEF OwnOnly, OwnFile, reader_
  <2> QED BY <2>4, <2>7
<1>11. CASE ScanBreaks(t) \/ ScanCrashes(t)
  <2>1. scans[t].at = "reading" /\ (header = NoFile \/ ~InBound(t) \/ Strays(t))
    BY <1>11 DEF ScanBreaks, ScanCrashes
  <2> QED BY <1>0, <1>2, <2>1, ReadsOwn
<1>12. CASE ScanEnds(t)
  <2>1. /\ scans[t].at = "scanning" /\ Move(t, "scanned") /\ UNCHANGED <<vars, reader_>>
        /\ ~InBound(t)
    BY <1>12 DEF ScanEnds
  <2>2. scans[t].next \notin DOMAIN Disk[current_file] BY <1>0, <1>2, <2>1, ReadsOwn
  <2>3. LastFits(t)' \/ ~(scans'[t].file = current_file /\ scans'[t].at = "scanned")
    BY <1>0 DEF LastFits
  <2>4. LastScan' BY <1>0, <1>1, <2>1, <2>2, <2>3, LastMoves DEF ScanPlaces, Goes
  <2> QED BY <1>4, <2>1, <2>4 DEF reader_
<1> QED BY <1>5, <1>6, <1>7, <1>8, <1>9, <1>10, <1>11, <1>12 DEF Scan

LEMMA FileInvNext == ASSUME FileInv, TabInv', [TabNext]_tabVars PROVE FileInv'
<1> SUFFICES ASSUME ~overlapped' PROVE LastScan' /\ OwnOnly'
  BY DEF FileInv
<1>0. /\ TabInv /\ RingInv /\ scans \in Seq(ScanType) /\ total \in Nat
      /\ DOMAIN scans = 1 .. Len(scans) /\ Len(scans) \in Nat
      /\ unmapped \subseteq DOMAIN scans
  <2>1. TabInv BY DEF FileInv
  <2>2. RingInv /\ scans \in Seq(ScanType) BY <2>1 DEF TabInv, TabTypeOK, ScanType, ScanPlaces
  <2>3. total \in Nat BY <2>2 DEF RingInv, TypeOK
  <2>4. unmapped \subseteq DOMAIN scans BY <2>1 DEF TabInv, TabTypeOK
  <2> QED BY <2>1, <2>2, <2>3, <2>4, LenProperties
<1>1. CASE UNCHANGED <<vars, scans, reader_, current_file, overlapped>>
  <2>1. Kept' = Kept /\ Contents' = Contents
    BY <1>1 DEF vars, Kept, Contents, oldestIndex
  <2>2. LiveOnly' = LiveOnly /\ OwnOnly' = OwnOnly BY <1>1, <2>1 DEF LiveOnly, OwnOnly, OwnFile, reader_
  <2> QED BY <1>1, <2>2 DEF FileInv, LastScan, LastFits, Running, reader_
<1>2. CASE \/ \E from \in 0 .. Len(Wire), n \in 1 .. Len(Wire) : appendLivePackets(from, n)
           \/ onLiveTimer
           \/ \E paused \in BOOLEAN : setRenderPaused(paused)
           \/ \E typed \in Lines \union {<< >>} : onFilterChanged(typed)
           \/ ListRecord \/ appendRecords \/ FilterRecord \/ FilterEnds
           \/ UNCHANGED tabVars
  <2>1. UNCHANGED <<vars, scans, reader_, current_file, overlapped>>
    BY <1>2 DEF appendLivePackets, onLiveTimer, setRenderPaused, onFilterChanged, ListRecord,
                appendRecords, FilterRecord, FilterEnds, tabVars, fileVars
  <2> QED BY <1>1, <2>1
<1>3. CASE onClearClicked
  <2>1. Clear /\ UNCHANGED <<scans, reader_, current_file, overlapped>>
    BY <1>3 DEF onClearClicked, fileVars
  <2> QED BY <2>1, FileInvClear
<1>4. ASSUME NEW f \in Files, loadFile(f) PROVE LastScan' /\ OwnOnly'
  <2>1. /\ Clear /\ current_file' = f
        /\ scans' = Append(scans, [file |-> f, next |-> 1, at |-> "starting"])
        /\ overlapped' = (overlapped \/ \E t \in DOMAIN scans : Running(scans[t]))
        /\ UNCHANGED reader_
    BY <1>4 DEF loadFile, Start
  <2>2. \A t \in DOMAIN scans : ~Running(scans[t]) BY <2>1, Zenon
  <2>3. Kept' = {} BY <2>1, RingAssumption DEF Clear, Kept, oldestIndex
  <2>4. [file |-> f, next |-> 1, at |-> "starting"] \in ScanType BY DEF ScanType, ScanPlaces
  <2>5. /\ Len(scans') = Len(scans) + 1 /\ DOMAIN scans' = 1 .. Len(scans) + 1
        /\ \A t \in DOMAIN scans : scans'[t] = scans[t]
        /\ scans'[Len(scans) + 1] = [file |-> f, next |-> 1, at |-> "starting"]
    <3>1. scans' \in Seq(ScanType) /\ Len(scans') = Len(scans) + 1
          /\ \A t \in 1 .. Len(scans) + 1 :
               scans'[t] = IF t <= Len(scans) THEN scans[t]
                           ELSE [file |-> f, next |-> 1, at |-> "starting"]
      BY <1>0, <2>1, <2>4, AppendProperties
    <3> QED BY <1>0, <3>1, LenProperties
  <2>6. \A t \in DOMAIN scans' : t # Len(scans) + 1 => t \in DOMAIN scans BY <1>0, <2>5
  <2>7. \A t \in DOMAIN scans' : Running(scans'[t]) => t = Len(scans')
    BY <2>2, <2>5, <2>6 DEF Running
  <2>8. LiveOnly' BY <2>3 DEF LiveOnly
  <2>11. \A t \in DOMAIN scans' :
           scans'[t].at = "scanned" => scans'[t].next \notin DOMAIN Disk[scans'[t].file]
    <3>1. ~overlapped BY <2>1, Zenon
    <3> QED BY <2>5, <2>6, <3>1 DEF FileInv, LastScan
  <2>12. ASSUME NEW t, t = Len(scans) + 1 PROVE LastFits(t)'
    <3>1. Len(scans) + 1 \notin unmapped BY <1>0
    <3>2. unmapped' = unmapped BY <2>1 DEF reader_
    <3> QED BY <2>1, <2>5, <2>8, <2>12, <3>1, <3>2 DEF LastFits
  <2>9. LastScan' BY <2>5, <2>7, <2>11, <2>12 DEF LastScan
  <2>10. OwnOnly' BY <2>3 DEF OwnOnly
  <2> QED BY <2>9, <2>10
<1>5. CASE FlushPushes
  <2>1. /\ PushBegins(<<"live", batch[cursor + 1]>>, TRUE)
        /\ UNCHANGED <<scans, reader_, current_file, overlapped>>
    BY <1>5 DEF FlushPushes, fileVars
  <2>2. /\ Contents'[total].packet = <<"live", batch[cursor + 1]>>
        /\ \A i \in Kept' : i # total => i \in Kept /\ Contents'[i].packet = Contents[i].packet
    BY <1>0, <1>5, <2>1, FlushedIsPacket, PushKeeps
  <2>3. OwnOnly' BY <2>1, <2>2 DEF FileInv, OwnOnly, OwnFile, reader_
  <2>4. LiveOnly => LiveOnly' BY <2>2 DEF LiveOnly
  <2> QED BY <2>1, <2>3, <2>4 DEF FileInv, LastScan, LastFits, Running, reader_
<1>6. ASSUME NEW t \in DOMAIN scans, Scan(t) PROVE LastScan' /\ OwnOnly'
  <2>1. overlapped' = overlapped BY <1>0, <1>6, ScanSteps
  <2> QED BY <1>6, <2>1, FileScanNext
<1>8. ASSUME NEW t \in DOMAIN scans, Completion(t) PROVE LastScan' /\ OwnOnly'
  <2>1. /\ UNCHANGED <<vars, reader_, current_file, overlapped>>
        /\ Move(t, "done")
    BY <1>8 DEF Completion, onScanned, onScanFailed, ScanOnly
  <2>2. Kept' = Kept /\ Contents' = Contents
    BY <2>1 DEF vars, Kept, Contents, oldestIndex
  <2>4. LiveOnly' = LiveOnly BY <2>2 DEF LiveOnly
  <2>6. /\ DOMAIN scans' = DOMAIN scans /\ Len(scans') = Len(scans)
        /\ \A u \in DOMAIN scans : u # t => scans'[u] = scans[u]
        /\ scans'[t].file = scans[t].file /\ scans'[t].at = "done"
    BY <1>0, <2>1, Moved DEF ScanPlaces, Goes
  <2>3. OwnOnly' BY <2>1, <2>2, <2>6 DEF FileInv, OwnOnly, OwnFile, reader_
  <2>5. LastScan' BY <1>0, <2>1, <2>4, <2>6 DEF FileInv, LastScan, LastFits, Running, reader_
  <2> QED BY <2>3, <2>5
<1>9. CASE PushCompletes
  <2>1. PushStores /\ UNCHANGED <<scans, reader_, current_file, overlapped>>
    BY <1>9 DEF PushCompletes, fileVars
  <2>2. total' = total /\ Contents' = Contents BY <1>0, <2>1, RefinesStore DEF PushStores
  <2>3. Kept' = Kept BY <2>2 DEF Kept, oldestIndex
  <2>4. LiveOnly' = LiveOnly BY <2>2, <2>3 DEF LiveOnly
  <2>5. OwnOnly' BY <2>1, <2>2, <2>3 DEF FileInv, OwnOnly, OwnFile, reader_
  <2> QED BY <2>1, <2>4, <2>5 DEF FileInv, LastScan, LastFits, Running, reader_
<1> QED BY <1>2, <1>3, <1>4, <1>5, <1>6, <1>8, <1>9
        DEF TabNext, GuiSteps

(* The bytes shown and saved for a packet are its own, unless files were   *)
(* scanned at the same time, although loadRawBytes never asks which file   *)
(* is in memory.                                                           *)
THEOREM BytesAreOwnHolds == TabSpec => []BytesAreOwn
<1>1. FileInv => BytesAreOwn
  <2> SUFFICES ASSUME FileInv, ~overlapped, ~pushing
               PROVE  /\ \A i \in DOMAIN rows : \A r \in recordAt(i) : BytesOf(r) \subseteq {r.packet}
                      /\ \A s \in Saved : s[2] = s[1].packet
    BY DEF BytesAreOwn
  <2>0. total \in Nat /\ oldestIndex \in Nat
    BY OldestType DEF FileInv, TabInv, RingInv, TypeOK
  <2>1. ASSUME NEW k \in Kept PROVE BytesOf(buffer[SlotOf(k)]) \subseteq {buffer[SlotOf(k)].packet}
    <3> DEFINE r == buffer[SlotOf(k)]
    <3>1. r.packet \in Packets
      BY DEF Kept, FileInv, TabInv, RingInv, WindowStored
    <3>2. r.packet = <<r.packet[1], r.packet[2]>> BY <3>1, PacketIsPair
    <3>3. Contents[k].packet = r.packet BY DEF Kept, Contents
    <3>4. OwnFile(r.packet) BY <3>3 DEF FileInv, OwnOnly
    <3> HIDE DEF r
    <3>6. mapped # 0 /\ mapped = Len(scans) => scans[mapped].file = current_file
      <4>1. scans \in Seq(ScanType) BY DEF FileInv, TabInv, TabTypeOK, ScanType, ScanPlaces
      <4>2. DOMAIN scans = 1 .. Len(scans) /\ Len(scans) \in Nat BY <4>1, LenProperties
      <4> QED BY <4>2 DEF FileInv, LastScan, LastFits
    <3>5. r.packet[1] # "live" =>
            /\ mapped # 0 => <<scans[mapped].file, r.packet[2]>> = r.packet
            /\ <<current_file, r.packet[2]>> = r.packet
      BY <3>2, <3>4, <3>6 DEF OwnFile
    <3> QED BY <3>5 DEF BytesOf, LoadedBytes, r
  <2>2. ASSUME NEW i \in DOMAIN rows, NEW r \in recordAt(i) PROVE BytesOf(r) \subseteq {r.packet}
    <3>1. rows \in Seq(Row) /\ DOMAIN rows = 1 .. Len(rows)
      BY LenProperties DEF FileInv, TabInv, TabTypeOK
    <3>2. rows[i].idx \in Nat
      <4>1. rows[i] \in Row BY <3>1, ElementOfSeq
      <4> QED BY <4>1 DEF Row
    <3>3. finds(rows[i].idx) /\ r = buffer[SlotOf(rows[i].idx)] BY DEF recordAt, At
    <3>4. rows[i].idx \in Kept BY <2>0, <3>2, <3>3 DEF finds, Kept
    <3> QED BY <2>1, <3>3, <3>4
  <2>3. ASSUME NEW s \in Saved PROVE s[2] = s[1].packet
    <3>1. PICK r \in getRange(oldestIndex, newestIndex + 1) : s \in {r} \X BytesOf(r)
      BY DEF Saved
    <3>2. PICK k \in Clipped(oldestIndex, newestIndex + 1) : r = buffer[SlotOf(k)]
      BY <3>1 DEF getRange
    <3>3. k \in Kept BY <2>0, <3>2 DEF Clipped, Kept, newestIndex
    <3>4. BytesOf(r) \subseteq {r.packet} BY <2>1, <3>2, <3>3
    <3> QED BY <3>1, <3>4
  <2> QED BY <2>2, <2>3
<1>2. FileInv /\ [TabNext]_tabVars => FileInv'
  BY FileInvNext, TabInvNext DEF FileInv
<1> QED BY <1>1, <1>2, FileInvInit, PTL DEF TabSpec

-----------------------------------------------------------------------------
(***************************************************************************)
(* What the rows show.  The two parsers read the same headers from a frame *)
(* that both are made for; where one of them counts the payload of ICMP,   *)
(* no column shows it.                                                     *)
(***************************************************************************)

LEMMA FrameTypes ==
  ASSUME NEW fr \in Frame
  PROVE  /\ fr.len \in Nat /\ fr.hl \in Nat /\ fr.off \in Nat /\ fr.ulen \in Nat /\ fr.nxt \in Nat
         /\ fr.sport \in Nat /\ fr.dport \in Nat /\ fr.tagged \in BOOLEAN
<1>1. fr.len \in Nat BY DEF Frame
<1>2. fr.ulen \in Nat BY DEF Frame
<1>3. fr.sport \in Nat BY DEF Frame
<1>4. fr.dport \in Nat BY DEF Frame
<1>5. fr.tagged \in BOOLEAN BY DEF Frame
<1>6. fr.hl \in 0 .. 15 BY DEF Frame
<1>7. fr.off \in 0 .. 15 BY DEF Frame
<1>8. fr.nxt \in 0 .. 255 BY DEF Frame
<1> QED BY <1>1, <1>2, <1>3, <1>4, <1>5, <1>6, <1>7, <1>8

LEMMA LinkOfEthernet ==
  ASSUME NEW fr \in Frame, fr.link = "EN10MB"
  PROVE  LinkLength(fr) = IF fr.tagged THEN 18 ELSE 14
  BY DEF LinkLength

(* Beyond IPv4: what either parser takes from a transport header.          *)
LEMMA SameTransport ==
  ASSUME NEW fr \in Frame, Sound(fr), fr.eth = "IPv4",
         NEW rem \in Nat, rem = fr.len - LinkLength(fr) - 4 * fr.hl
  PROVE  Columns(readTransport(fr)) = Columns(parseTransport(WithIPv4(fr), fr, rem))
<1> DEFINE h == WithIPv4(fr)
           L == LinkLength(fr)
<1>1. h.protocol = fr.nxt /\ h.eth = "IPv4" BY DEF WithIPv4, NoHeaders
<1>2. L \in Nat
  <2>1. fr.link = "EN10MB" BY DEF Sound
  <2>2. L = 18 \/ L = 14 BY <2>1, LinkOfEthernet
  <2> HIDE DEF L
  <2> QED BY <2>2
<1>3. /\ fr.len \in Nat /\ fr.hl \in Nat /\ fr.off \in Nat /\ fr.ulen \in Nat /\ fr.nxt \in Nat
      /\ fr.hl >= 5
  <2>1. fr.hl >= 5 BY DEF Sound
  <2>2. fr.len \in Nat /\ fr.hl \in Nat /\ fr.off \in Nat /\ fr.ulen \in Nat /\ fr.nxt \in Nat
    BY FrameTypes
  <2> QED BY <2>1, <2>2
<1>4. /\ fr.nxt = TCP /\ rem >= 20 => 4 * fr.off \in 20 .. rem
      /\ fr.nxt = UDP => fr.ulen = rem
  BY DEF Sound
<1> DEFINE at == L + 4 * fr.hl
<1>5. at \in Nat /\ fr.len - at = rem /\ (at + 20 <= fr.len <=> rem >= 20)
      /\ (at + 8 <= fr.len <=> rem >= 8) /\ fr.len - at - 4 * fr.off = rem - 4 * fr.off
  BY <1>2, <1>3
<1> HIDE DEF h
<1>6. readTransport(fr) =
        CASE fr.nxt = TCP /\ at + 20 <= fr.len ->
               WithPorts(h, fr, IF fr.len - at - 4 * fr.off > 0 THEN fr.len - at - 4 * fr.off ELSE 0)
          [] fr.nxt = UDP /\ at + 8 <= fr.len -> WithPorts(h, fr, IF fr.ulen > 8 THEN fr.ulen - 8 ELSE 0)
          [] OTHER -> h
  BY <1>1, <1>3 DEF readTransport, h
<1>7. parseTransport(h, fr, rem) =
        CASE fr.nxt = TCP /\ rem >= 20 /\ 4 * fr.off \in 20 .. rem -> WithPorts(h, fr, rem - 4 * fr.off)
          [] fr.nxt = UDP /\ rem >= 8 -> WithPorts(h, fr, rem - 8)
          [] fr.nxt \in {ICMP, ICMPv6} -> [h EXCEPT !.payload_len = rem]
          [] OTHER -> h
  BY <1>1 DEF parseTransport
<1> HIDE DEF at, L
<1>8. CASE fr.nxt = TCP
  <2>1. CASE rem >= 20
    <3>1. readTransport(fr) = WithPorts(h, fr, rem - 4 * fr.off)
      BY <1>3, <1>4, <1>5, <1>6, <1>8, <2>1 DEF TCP, UDP
    <3>2. parseTransport(h, fr, rem) = WithPorts(h, fr, rem - 4 * fr.off)
      BY <1>4, <1>7, <1>8, <2>1 DEF TCP, UDP, ICMP, ICMPv6
    <3> QED BY <3>1, <3>2 DEF h
  <2>2. CASE ~(rem >= 20)
    <3>1. readTransport(fr) = h BY <1>5, <1>6, <1>8, <2>2 DEF TCP, UDP
    <3>2. parseTransport(h, fr, rem) = h BY <1>7, <1>8, <2>2 DEF TCP, UDP, ICMP, ICMPv6
    <3> QED BY <3>1, <3>2 DEF h
  <2> QED BY <2>1, <2>2
<1>9. CASE fr.nxt = UDP
  <2>1. CASE rem >= 8
    <3>1. (IF fr.ulen > 8 THEN fr.ulen - 8 ELSE 0) = rem - 8 BY <1>4, <1>9, <2>1
    <3>2. readTransport(fr) = WithPorts(h, fr, rem - 8)
      BY <1>5, <1>6, <1>9, <2>1, <3>1 DEF TCP, UDP
    <3>3. parseTransport(h, fr, rem) = WithPorts(h, fr, rem - 8)
      BY <1>7, <1>9, <2>1 DEF TCP, UDP, ICMP, ICMPv6
    <3> QED BY <3>2, <3>3 DEF h
  <2>2. CASE ~(rem >= 8)
    <3>1. readTransport(fr) = h BY <1>5, <1>6, <1>9, <2>2 DEF TCP, UDP
    <3>2. parseTransport(h, fr, rem) = h BY <1>7, <1>9, <2>2 DEF TCP, UDP, ICMP, ICMPv6
    <3> QED BY <3>1, <3>2 DEF h
  <2> QED BY <2>1, <2>2
<1>10. CASE fr.nxt \in {ICMP, ICMPv6}
  <2> DEFINE g == [h EXCEPT !.payload_len = rem]
  <2>1. readTransport(fr) = h BY <1>6, <1>10 DEF TCP, UDP, ICMP, ICMPv6
  <2>2. parseTransport(h, fr, rem) = g BY <1>7, <1>10 DEF TCP, UDP, ICMP, ICMPv6
  <2>3. /\ g.protocol = h.protocol /\ g.eth = h.eth /\ g.src = h.src /\ g.dst = h.dst
        /\ g.sport = h.sport /\ g.dport = h.dport /\ g.flags = h.flags
    BY DEF h, WithIPv4, NoHeaders
  <2> HIDE DEF g
  <2>4. computeProto(g) = computeProto(h)
    BY <1>1, <1>10, <2>3 DEF computeProto, TCP, UDP, ICMP, ICMPv6, IGMP, h
  <2>5. Columns(g) = Columns(h)
    BY <1>1, <1>10, <2>3, <2>4 DEF Columns, TCP, UDP, ICMP, ICMPv6, h
  <2> QED BY <2>1, <2>2, <2>5 DEF h
<1>11. CASE fr.nxt \notin {TCP, UDP, ICMP, ICMPv6}
  <2>1. readTransport(fr) = h BY <1>6, <1>11
  <2>2. parseTransport(h, fr, rem) = h BY <1>7, <1>11
  <2> QED BY <2>1, <2>2 DEF h
<1> QED BY <1>8, <1>9, <1>10, <1>11

LEMMA ParsersAgree ==
  ASSUME NEW fr \in Frame, Sound(fr)
  PROVE  Columns(parseHeaders(fr)) = Columns(parsePacket(fr))
<1> DEFINE L == LinkLength(fr)
<1>1. L = (IF fr.tagged THEN 18 ELSE 14) /\ L \in Nat /\ fr.link = "EN10MB" /\ fr.eth # "IPv6"
  BY LinkOfEthernet DEF Sound
<1>2. fr.len \in Nat /\ fr.hl \in Nat /\ fr.tagged \in BOOLEAN BY DEF Frame
<1>3. parseHeaders(fr) =
        IF fr.len < 14 THEN NoHeaders("none")
        ELSE IF fr.len < L THEN NoHeaders("VLAN")
        ELSE CASE fr.eth # "IPv4" -> NoHeaders(fr.eth)
               [] fr.eth = "IPv4" /\ fr.len < L + 20 -> NoHeaders("IPv4")
               [] OTHER -> readTransport(fr)
  <2>1. (CASE fr.link = "RAW" -> 0 [] fr.link = "LINUX_SLL" -> 16 [] OTHER -> 14) = 14 BY <1>1
  <2>2. (IF fr.link = "RAW" THEN "IPv4" ELSE fr.eth) = fr.eth BY <1>1
  <2> QED BY <2>1, <2>2 DEF parseHeaders
<1>4. CASE fr.len < 14
  <2>1. parseHeaders(fr) = NoHeaders("none") BY <1>3, <1>4
  <2>2. parsePacket(fr) = NoHeaders("none") BY <1>4 DEF parsePacket
  <2> QED BY <2>1, <2>2
<1>5. CASE ~(fr.len < 14) /\ fr.len < L
  <2>1. parseHeaders(fr) = NoHeaders("VLAN") BY <1>3, <1>5
  <2>2. fr.tagged /\ fr.len - L < 0 BY <1>1, <1>2, <1>5
  <2>3. parsePacket(fr) = NoHeaders("VLAN") BY <1>5, <2>2 DEF parsePacket
  <2> QED BY <2>1, <2>3
<1>6. CASE ~(fr.len < 14) /\ ~(fr.len < L)
  <2>1. ~(fr.tagged /\ fr.len - L < 0) BY <1>1, <1>2, <1>6
  <2>2. CASE fr.eth # "IPv4"
    <3>1. parseHeaders(fr) = NoHeaders(fr.eth) BY <1>3, <1>6, <2>2
    <3>2. parsePacket(fr) = NoHeaders(fr.eth) BY <1>1, <1>6, <2>1, <2>2 DEF parsePacket
    <3> QED BY <3>1, <3>2
  <2>3. CASE fr.eth = "IPv4"
    <3> DEFINE remaining == fr.len - L
               rem == remaining - 4 * fr.hl
    <3>1. fr.ver = 4 /\ fr.hl >= 5 /\ rem >= 0 BY <2>3 DEF Sound
    <3>2. /\ rem \in Nat /\ remaining >= 20 /\ 4 * fr.hl \in 20 .. remaining
          /\ ~(fr.len < L + 20) /\ rem = fr.len - L - 4 * fr.hl
      BY <1>1, <1>2, <3>1
    <3>3. parseHeaders(fr) = readTransport(fr) BY <1>3, <1>6, <2>3, <3>2
    <3>4. parsePacket(fr) = parseTransport(WithIPv4(fr), fr, rem)
      BY <1>6, <2>1, <2>3, <3>1, <3>2 DEF parsePacket
    <3> HIDE DEF rem, remaining
    <3>5. Columns(readTransport(fr)) = Columns(parseTransport(WithIPv4(fr), fr, rem))
      BY <2>3, <3>2, SameTransport
    <3> QED BY <3>3, <3>4, <3>5
  <2> QED BY <2>2, <2>3
<1> QED BY <1>4, <1>5, <1>6

(* A packet of a file is the frame at its place there.                     *)
LEMMA FileFrames ==
  ASSUME NEW p \in Packets, p[1] # "live", p[1] # "misread" PROVE FrameOf(p) \in Frame
<1> DEFINE Live == {<<"live", i>> : i \in DOMAIN Wire}
           FromFiles == UNION {{<<f, i>> : i \in DOMAIN Disk[f]} : f \in Files}
           Else == {<<"misread", i>> : i \in Places}
<1>1. Packets = Live \union FromFiles \union Else BY PacketTabAssumption
<1>2. (\A q \in Live : q[1] = "live") /\ \A q \in Else : q[1] = "misread" OBVIOUS
<1>3. p \in FromFiles
  <2> HIDE DEF Live, FromFiles, Else
  <2> QED BY <1>1, <1>2
<1>4. PICK f \in Files : \E i \in DOMAIN Disk[f] : p = <<f, i>> BY <1>3
<1>5. PICK i \in DOMAIN Disk[f] : p = <<f, i>> BY <1>4
<1>6. p[1] = f /\ p[2] = i BY <1>5
<1>7. Disk[f][i] \in Frame BY PacketTabAssumption
<1> QED BY <1>6, <1>7 DEF FrameOf

(* A row looks the same whether its packet was captured or read from a     *)
(* file, for any frames on the wire and in the files.                      *)
THEOREM SameColumnsHolds == TabSpec => []SameColumns
<1>1. TabInv => SameColumns
  <2> SUFFICES ASSUME TabInv, NEW i \in DOMAIN rows, rows[i].packet[1] # "misread",
                      Sound(FrameOf(rows[i].packet))
               PROVE  Columns(HeadersOf(rows[i].packet)) = Columns(parsePacket(FrameOf(rows[i].packet)))
    BY DEF SameColumns
  <2>1. rows \in Seq(Row) /\ DOMAIN rows = 1 .. Len(rows) BY LenProperties DEF TabInv, TabTypeOK
  <2>2. rows[i] \in Row BY <2>1, ElementOfSeq
  <2> DEFINE p == rows[i].packet
  <2>3. p \in Packets BY <2>2 DEF Row
  <2> HIDE DEF p
  <2>4. CASE p[1] = "live" BY <2>4 DEF HeadersOf, p
  <2>5. CASE p[1] # "live"
    <3>1. p[1] # "misread" BY DEF p
    <3>2. HeadersOf(p) = parseHeaders(FrameOf(p)) BY <2>5, <3>1 DEF HeadersOf
    <3>3. FrameOf(p) \in Frame BY <2>3, <2>5, <3>1, FileFrames
    <3> QED BY <3>2, <3>3, ParsersAgree DEF p
  <2> QED BY <2>4, <2>5
<1> QED BY <1>1, TabInvHolds, PTL
-----------------------------------------------------------------------------
(***************************************************************************)
(* What a filter lets through.  Under a line whose terms the code          *)
(* evaluates, a record that matchFilter accepts satisfies every term; rows *)
(* reach the list one by one under the line in force, and a new line       *)
(* empties the list.                                                       *)
(***************************************************************************)

LEMMA EvaluatedCondition ==
  ASSUME NEW term \in Term, Evaluated(term)
  PROVE  /\ parseCondition(term) = [field |-> FieldOf(term.lhs), op |-> term.op, value |-> term.rhs]
         /\ FieldOf(term.lhs) = CASE term.lhs = "ip.src" -> "SRC_IP"
                                  [] term.lhs = "ip.dst" -> "DST_IP"
                                  [] term.lhs \in {"tcp.srcport", "udp.srcport"} -> "SRC_PORT"
                                  [] term.lhs \in {"tcp.dstport", "udp.dstport"} -> "DST_PORT"
         /\ parseCondition(term).field # "rejected" /\ term.op # "word"
<1>1. term.op # "word" /\ term.lhs \in {"ip.src", "ip.dst", "tcp.srcport", "udp.srcport",
                                        "tcp.dstport", "udp.dstport"}
  <2> DEFINE op == term.op
             lhs == term.lhs
  <2>1. \/ lhs \in {"ip.src", "ip.dst"} /\ op \in {"EQ", "NEQ"}
        \/ lhs \in {"tcp.srcport", "udp.srcport", "tcp.dstport", "udp.dstport"} /\ op \in Ops \ {"CONTAINS"}
    BY DEF Evaluated
  <2> HIDE DEF op, lhs
  <2>2. op # "word" /\ lhs \in {"ip.src", "ip.dst", "tcp.srcport", "udp.srcport",
                                "tcp.dstport", "udp.dstport"}
    BY <2>1 DEF Ops
  <2> QED BY <2>2 DEF op, lhs
<1>2. parseCondition(term) = [field |-> FieldOf(term.lhs), op |-> term.op, value |-> term.rhs]
  BY <1>1 DEF parseCondition
<1>3. parseCondition(term).field = FieldOf(term.lhs) BY <1>2
<1> DEFINE name == term.lhs
<1>4. CASE name \in {"ip.src", "ip.dst"}
  <2> HIDE DEF name
  <2>1. FieldOf(name) = IF name = "ip.src" THEN "SRC_IP" ELSE "DST_IP" BY <1>4 DEF FieldOf
  <2> QED BY <1>1, <1>2, <1>3, <1>4, <2>1 DEF name
<1>5. CASE name \in {"tcp.srcport", "udp.srcport"}
  <2> HIDE DEF name
  <2>1. FieldOf(name) = "SRC_PORT" BY <1>5 DEF FieldOf
  <2> QED BY <1>1, <1>2, <1>3, <1>5, <2>1 DEF name
<1>6. CASE name \in {"tcp.dstport", "udp.dstport"}
  <2> HIDE DEF name
  <2>1. FieldOf(name) = "DST_PORT" BY <1>6 DEF FieldOf
  <2> QED BY <1>1, <1>2, <1>3, <1>6, <2>1 DEF name
<1> QED BY <1>1, <1>4, <1>5, <1>6 DEF name

LEMMA PortInRange == ASSUME NEW v \in Int, v >= 0, v < 65536 PROVE Port(v) = v
  BY DEF Port

LEMMA CheckedMeans ==
  ASSUME NEW term \in Term, Evaluated(term), NEW h, h.sport \in Nat, h.dport \in Nat,
         Check(parseCondition(term), h)
  PROVE  Means(term, h)
<1> DEFINE c == [field |-> FieldOf(term.lhs), op |-> term.op, value |-> term.rhs]
<1>1. Check(c, h) BY EvaluatedCondition
<1>2. c.op = term.op /\ c.value = term.rhs /\ c.field = FieldOf(term.lhs) OBVIOUS
<1> HIDE DEF c
<1>3. CASE term.lhs = "ip.src"
  <2>1. c.field = "SRC_IP" BY <1>2, <1>3, EvaluatedCondition
  <2>2. Equality(term.op, h.src = term.rhs) BY <1>1, <1>2, <2>1 DEF Check
  <2>3. term.op \in {"EQ", "NEQ"} BY <1>3 DEF Evaluated
  <2> QED BY <1>3, <2>2, <2>3 DEF Means, Equality
<1>4. CASE term.lhs = "ip.dst"
  <2>1. c.field = "DST_IP" BY <1>2, <1>4, EvaluatedCondition
  <2>2. Equality(term.op, h.dst = term.rhs) BY <1>1, <1>2, <2>1 DEF Check
  <2>3. term.op \in {"EQ", "NEQ"} BY <1>4 DEF Evaluated
  <2> QED BY <1>4, <2>2, <2>3 DEF Means, Equality
<1> DEFINE op == term.op
           lhs == term.lhs
           rhs == term.rhs
<1>5. ASSUME lhs \notin {"ip.src", "ip.dst"}
      PROVE  op \in Ops \ {"CONTAINS"} /\ rhs \in Int /\ rhs >= 0 /\ rhs < 65536 /\ Port(rhs) = rhs
  <2>1. op \in Ops \ {"CONTAINS"} /\ rhs >= 0 /\ rhs < 65536 BY <1>5 DEF Evaluated
  <2>2. rhs \in Int BY DEF Term
  <2> HIDE DEF op, rhs
  <2> QED BY <2>1, <2>2, PortInRange
<1> DEFINE Compares(port) == CASE op = "EQ"  -> port = rhs
                               [] op = "NEQ" -> port # rhs
                               [] op = "GT"  -> port > rhs
                               [] op = "LT"  -> port < rhs
                               [] op = "GTE" -> port >= rhs
                               [] op = "LTE" -> port <= rhs
<1>6. ASSUME lhs \notin {"ip.src", "ip.dst"}, NEW port \in Nat, evalOp(op, port, rhs)
      PROVE  Compares(port)
  <2>1. op \in Ops \ {"CONTAINS"} /\ rhs \in Nat BY <1>5, <1>6
  <2> HIDE DEF op, rhs
  <2>2. \/ op = "EQ" \/ op = "NEQ" \/ op = "GT" \/ op = "LT" \/ op = "GTE" \/ op = "LTE"
    BY <2>1 DEF Ops
  <2>3. CASE op = "EQ"  BY <1>6, <2>1, <2>3 DEF evalOp
  <2>4. CASE op = "NEQ" BY <1>6, <2>1, <2>4 DEF evalOp
  <2>5. CASE op = "GT"  BY <1>6, <2>1, <2>5 DEF evalOp
  <2>6. CASE op = "LT"  BY <1>6, <2>1, <2>6 DEF evalOp
  <2>7. CASE op = "GTE" BY <1>6, <2>1, <2>7 DEF evalOp
  <2>8. CASE op = "LTE" BY <1>6, <2>1, <2>8 DEF evalOp
  <2> QED BY <2>2, <2>3, <2>4, <2>5, <2>6, <2>7, <2>8
<1>7. ASSUME lhs \notin {"ip.src", "ip.dst"},
             Compares(IF lhs \in {"tcp.srcport", "udp.srcport"} THEN h.sport ELSE h.dport)
      PROVE  Means(term, h)
  <2> DEFINE port == IF lhs \in {"tcp.srcport", "udp.srcport"} THEN h.sport ELSE h.dport
  <2>1. Compares(port) => Means(term, h) BY <1>7 DEF Means
  <2> HIDE DEF Compares
  <2> QED BY <1>7, <2>1
<1> HIDE DEF Compares
<1>8. CASE lhs \in {"tcp.srcport", "udp.srcport"}
  <2>1. c.field = "SRC_PORT" BY <1>2, <1>8, EvaluatedCondition
  <2>2. evalOp(op, h.sport, rhs) BY <1>1, <1>2, <1>5, <1>8, <2>1 DEF Check
  <2>3. Compares(h.sport) BY <1>6, <1>8, <2>2
  <2> QED BY <1>7, <1>8, <2>3
<1>9. CASE lhs \in {"tcp.dstport", "udp.dstport"}
  <2>1. c.field = "DST_PORT" BY <1>2, <1>9, EvaluatedCondition
  <2>2. evalOp(op, h.dport, rhs) BY <1>1, <1>2, <1>5, <1>9, <2>1 DEF Check
  <2>3. Compares(h.dport) BY <1>6, <1>9, <2>2
  <2> QED BY <1>7, <1>9, <2>3
<1> QED BY <1>3, <1>4, <1>8, <1>9 DEF Evaluated

(* A line of such terms is a valid filter with one condition for each.     *)
LEMMA EvaluatedFilter ==
  ASSUME NEW l \in Seq(Term), \A k \in DOMAIN l : Evaluated(l[k])
  PROVE  /\ parseFilter(l).valid /\ DOMAIN parseFilter(l).conditions = DOMAIN l
         /\ \A k \in DOMAIN l : parseFilter(l).conditions[k] = parseCondition(l[k])
         /\ l # << >> => parseFilter(l).conditions # << >>
<1> DEFINE conditions == [i \in DOMAIN l |-> parseCondition(l[i])]
<1>1. DOMAIN l = 1 .. Len(l) /\ Len(l) \in Nat /\ \A k \in DOMAIN l : l[k] \in Term
  BY LenProperties, ElementOfSeq
<1>2. \A k \in DOMAIN l : conditions[k].field # "rejected" BY <1>1, EvaluatedCondition
<1>3. ~(Len(l) = 1 /\ l[1].op = "word" /\ l[1].lhs \in Shortcuts) BY <1>1, EvaluatedCondition
<1>4. parseFilter(l) = [NoFilter EXCEPT !.conditions = conditions]
  <2> HIDE DEF conditions
  <2> QED BY <1>2, <1>3 DEF parseFilter, conditions
<1>5. parseFilter(l).valid /\ parseFilter(l).conditions = conditions BY <1>4 DEF NoFilter
<1>6. l # << >> => conditions # << >>
  <2> SUFFICES ASSUME l # << >> PROVE conditions # << >> OBVIOUS
  <2>1. 1 \in DOMAIN conditions BY <1>1, EmptySeq
  <2> QED BY <2>1
<1> QED BY <1>5, <1>6

LEMMA AcceptedMeans ==
  ASSUME NEW l \in Seq(Term), \A k \in DOMAIN l : Evaluated(l[k]),
         NEW h, h.sport \in Nat, h.dport \in Nat, matchFilter(parseFilter(l), h) = "yes"
  PROVE  \A k \in DOMAIN l : Means(l[k], h)
<1> DEFINE f == parseFilter(l)
<1>1. /\ DOMAIN f.conditions = DOMAIN l
      /\ \A k \in DOMAIN l : f.conditions[k] = parseCondition(l[k])
  BY EvaluatedFilter
<1>2. \A k \in DOMAIN l : l[k] \in Term BY ElementOfSeq, LenProperties
<1> HIDE DEF f
<1>3. \A k \in DOMAIN f.conditions : Check(f.conditions[k], h)
  <2> DEFINE stops == {i \in DOMAIN f.conditions :
                         Throws(f.conditions[i]) \/ ~Check(f.conditions[i], h)}
             first == {i \in stops : \A j \in stops : i <= j}
  <2>1. matchFilter(f, h) = CASE stops = {} -> "yes"
                              [] \E i \in first : Throws(f.conditions[i]) -> "throws"
                              [] OTHER -> "no"
    BY DEF matchFilter
  <2>2. matchFilter(f, h) = "yes" BY DEF f
  <2>3. stops = {}
    <3>1. first = {} \/ stops # {} OBVIOUS
    <3> HIDE DEF stops, first
    <3> QED BY <2>1, <2>2, <3>1
  <2> QED BY <2>3
<1> QED BY <1>1, <1>2, <1>3, CheckedMeans

(* Ports in parsed headers are the frame's, or 0.                          *)
LEMMA PortsAreNumbers ==
  ASSUME NEW fr \in Frame
  PROVE  parsePacket(fr).sport \in Nat /\ parsePacket(fr).dport \in Nat
<1> DEFINE Fine(h) == h.sport \in Nat /\ h.dport \in Nat
<1>1. fr.sport \in Nat /\ fr.dport \in Nat BY FrameTypes
<1>2. \A eth : Fine(NoHeaders(eth)) BY DEF NoHeaders
<1>3. ASSUME NEW h, NEW r, Fine(h), \A n : Fine(WithPorts(h, fr, n)), Fine([h EXCEPT !.payload_len = r])
      PROVE  Fine(parseTransport(h, fr, r))
  <2> DEFINE a == h.protocol = TCP /\ r >= 20 /\ 4 * fr.off \in 20 .. r
             b == h.protocol = UDP /\ r >= 8
             c == h.protocol \in {ICMP, ICMPv6}
  <2>1. parseTransport(h, fr, r) =
          CASE a -> WithPorts(h, fr, r - 4 * fr.off)
            [] b -> WithPorts(h, fr, r - 8)
            [] c -> [h EXCEPT !.payload_len = r]
            [] OTHER -> h
    BY DEF parseTransport
  <2>2. ~(a /\ b) /\ ~(a /\ c) /\ ~(b /\ c) BY DEF TCP, UDP, ICMP, ICMPv6
  <2> HIDE DEF a, b, c, Fine
  <2> QED BY <1>3, <2>1, <2>2
<1>4. \A r : Fine(parseTransport(WithIPv4(fr), fr, r))
  <2> DEFINE h == WithIPv4(fr)
  <2>1. Fine(h) /\ (\A n : Fine(WithPorts(h, fr, n))) /\ \A r : Fine([h EXCEPT !.payload_len = r])
    BY <1>1 DEF WithPorts, WithIPv4, NoHeaders
  <2> HIDE DEF Fine, h
  <2>2. \A r : Fine(parseTransport(h, fr, r)) BY <1>3, <2>1
  <2> QED BY <2>2 DEF h
<1>5. \A p, r : Fine(parseTransport([NoHeaders("IPv6") EXCEPT !.protocol = p], fr, r))
  <2> SUFFICES ASSUME NEW p PROVE \A r : Fine(parseTransport([NoHeaders("IPv6") EXCEPT !.protocol = p], fr, r))
    OBVIOUS
  <2> DEFINE h == [NoHeaders("IPv6") EXCEPT !.protocol = p]
  <2>1. Fine(h) /\ (\A n : Fine(WithPorts(h, fr, n))) /\ \A r : Fine([h EXCEPT !.payload_len = r])
    BY <1>1 DEF WithPorts, NoHeaders
  <2> HIDE DEF Fine, h
  <2>2. \A r : Fine(parseTransport(h, fr, r)) BY <1>3, <2>1
  <2> QED BY <2>2 DEF h
<1> DEFINE room == fr.len - LinkLength(fr)
           skipped == SkipExtensions(fr, room - 40)
           a == fr.eth = "IPv4" /\ room >= 20 /\ fr.ver = 4 /\ 4 * fr.hl \in 20 .. room
           b == fr.eth = "IPv6" /\ room >= 40
<1>6. parsePacket(fr) =
        IF fr.len < 14 THEN NoHeaders("none")
        ELSE IF fr.tagged /\ room < 0 THEN NoHeaders("VLAN")
        ELSE CASE a -> parseTransport(WithIPv4(fr), fr, room - 4 * fr.hl)
               [] b -> parseTransport([NoHeaders("IPv6") EXCEPT !.protocol = skipped.next],
                                      fr, skipped.left)
               [] OTHER -> NoHeaders(fr.eth)
  BY DEF parsePacket
<1>7. Fine(parsePacket(fr))
  <2>1. ~(a /\ b) OBVIOUS
  <2> HIDE DEF Fine, room, skipped, a, b
  <2> QED BY <1>2, <1>4, <1>5, <1>6, <2>1
<1> QED BY <1>7

-----------------------------------------------------------------------------
AllEvaluated == \A k \in DOMAIN line : Evaluated(line[k])

(* The row's packet satisfies the line in force.                           *)
Satisfies(row) == \A k \in DOMAIN line : Means(line[k], HeadersOf(row.packet))

RowsSatisfy ==
  ~disturbed /\ AllEvaluated =>
    /\ \A i \in 1 .. Len(rows) : Satisfies(rows[i])
    /\ \A i \in 1 .. Len(new_cache) : Satisfies(new_cache[i])

(* Rows change when the list is emptied, by one more row, or at the end of *)
(* a flush.                                                                *)
LEMMA RowsComeFrom ==
  ASSUME TabInv, [TabNext]_tabVars
  PROVE  \/ rows' = << >> /\ new_cache' = << >> /\ gui = "idle"
         \/ UNCHANGED <<rows, new_cache, line, disturbed>>
         \/ UNCHANGED <<rows, new_cache, line>> /\ (~disturbed' => ~disturbed)
         \/ ListRecord \/ appendRecords \/ FilterRecord
<1> DEFINE Same == UNCHANGED <<rows, new_cache, line>> /\ (~disturbed' => ~disturbed)
           Emptied == rows' = << >> /\ new_cache' = << >> /\ gui = "idle"
<1>1. gui = "idle" => new_cache = << >> BY DEF TabInv, QuietIsEmpty
<1>2. ASSUME NEW from, NEW n, appendLivePackets(from, n) PROVE Same
  BY <1>2 DEF appendLivePackets, guiVars
<1>4. ASSUME NEW paused \in BOOLEAN, setRenderPaused(paused) PROVE Same
  BY <1>4 DEF setRenderPaused
<1>5. ASSUME NEW typed, onFilterChanged(typed) PROVE Emptied
  BY <1>1, <1>5 DEF onFilterChanged, ApplyFilter
<1>6. ASSUME onClearClicked PROVE Emptied BY <1>1, <1>6 DEF onClearClicked
<1>7. ASSUME NEW f \in Files, loadFile(f) PROVE Emptied BY <1>1, <1>7 DEF loadFile
<1>10. ASSUME NEW t \in DOMAIN scans, Scan(t) PROVE Same
  <2>1. UNCHANGED <<new_cache, rows, line, disturbed>> BY <1>10, ScanSteps
  <2> QED BY <2>1
<1>11. ASSUME NEW t \in DOMAIN scans, onScanned(t) PROVE Emptied
  BY <1>1, <1>11 DEF onScanned, ApplyFilter
<1>12. ASSUME NEW t \in DOMAIN scans, onScanFailed(t) PROVE Same
  BY <1>12 DEF onScanFailed, ScanOnly, guiVars
<1> HIDE DEF Same, Emptied
<1>14. \/ Same \/ Emptied \/ UNCHANGED <<rows, new_cache, line, disturbed>>
       \/ ListRecord \/ appendRecords \/ FilterRecord
  <2>1. CASE onLiveTimer BY <2>1 DEF onLiveTimer
  <2>3. CASE FlushPushes \/ FilterEnds BY <2>3 DEF FlushPushes, FilterEnds
  <2>4. CASE PushCompletes BY <2>4 DEF PushCompletes, guiVars
  <2>5. CASE UNCHANGED tabVars BY <2>5 DEF tabVars, guiVars
  <2> QED BY <1>2, <1>4, <1>5, <1>6, <1>7, <1>10, <1>11, <1>12, <2>1, <2>3, <2>4, <2>5
          DEF TabNext, GuiSteps, Completion
<1> QED BY <1>14 DEF Same, Emptied
(* A record that passes the filter in force satisfies it.                  *)
LEMMA ListedSatisfies ==
  ASSUME RowInv, ListRecord, ~disturbed, AllEvaluated, Passes(Head(batch))
  PROVE  Satisfies(RowFor(Head(batch)))
<1> DEFINE n == Head(batch)
           h == HeadersOf(<<"live", n>>)
<1>1. /\ ~pushing /\ n \in 1 .. Len(Wire) /\ n - 1 < total /\ total \in Nat
      /\ n - 1 \in Nat /\ oldestIndex \in Nat
      /\ n - 1 >= oldestIndex => Contents[n - 1].packet = <<"live", n>>
  BY ListedIsLive
<1>2. Passes(n) OBVIOUS
<1>3. line \in Seq(Term)
  <2>1. line \in Lines \union {<< >>} BY DEF RowInv, TabInv, TabTypeOK
  <2>2. Lines \subseteq Seq(Term) BY PacketTabAssumption
  <2> QED BY <2>1, <2>2, EmptySeq
<1>4. \A k \in DOMAIN line : Evaluated(line[k]) BY DEF AllEvaluated
<1> HIDE DEF n
<1>5. RowFor(n).packet = <<"live", n>> BY DEF RowFor
<1>6. CASE line = << >>
  <2>1. DOMAIN line = {} BY <1>6
  <2> QED BY <2>1 DEF Satisfies, n
<1>7. CASE line # << >>
  <2>1. HasConditions BY <1>3, <1>4, <1>7, EvaluatedFilter DEF HasConditions, filter
  <2>2. "yes" \in Verdicts(n) BY <1>2, <2>1 DEF Passes
  <2>3. PICK r \in At(n - 1) : matchFilter(filter, HeadersOf(r.packet)) = "yes"
    BY <2>2 DEF Verdicts
  <2>4. finds(n - 1) /\ r = buffer[SlotOf(n - 1)] BY <2>3 DEF At
  <2>5. r.packet = <<"live", n>>
    <3>1. n - 1 \in oldestIndex .. total - 1 BY <1>1, <2>4 DEF finds
    <3>2. Contents[n - 1].packet = r.packet BY <1>1, <2>4, <3>1 DEF Contents
    <3> QED BY <1>1, <3>1, <3>2
  <2>6. matchFilter(parseFilter(line), h) = "yes" BY <2>3, <2>5 DEF filter
  <2>7. h.sport \in Nat /\ h.dport \in Nat
    <3>1. Wire \in Seq(Frame) BY PacketTabAssumption
    <3>2. Wire[n] \in Frame BY <1>1, <3>1, ElementOfSeq
    <3>3. h = parsePacket(Wire[n]) BY DEF HeadersOf, FrameOf
    <3> HIDE DEF h
    <3> QED BY <3>2, <3>3, PortsAreNumbers
  <2> HIDE DEF h
  <2>8. \A k \in DOMAIN line : Means(line[k], h) BY <1>3, <1>4, <2>6, <2>7, AcceptedMeans
  <2> QED BY <1>5, <2>8 DEF Satisfies, h, n
<1> QED BY <1>6, <1>7

LEMMA AppendedSatisfy ==
  ASSUME NEW S, NEW s \in Seq(S), NEW e \in S,
         \A i \in 1 .. Len(s) : Satisfies(s[i]), Satisfies(e)
  PROVE  \A i \in 1 .. Len(Append(s, e)) : Satisfies(Append(s, e)[i])
<1>1. /\ Len(s) \in Nat /\ Len(Append(s, e)) = Len(s) + 1
      /\ \A i \in 1 .. Len(s) + 1 : Append(s, e)[i] = IF i <= Len(s) THEN s[i] ELSE e
  BY AppendProperties, LenProperties
<1> DEFINE all == Append(s, e)
<1> HIDE DEF all
<1>2. ASSUME NEW i \in 1 .. Len(s) + 1 PROVE Satisfies(all[i])
  <2>1. all[i] = IF i <= Len(s) THEN s[i] ELSE e BY <1>1 DEF all
  <2>2. i <= Len(s) => i \in 1 .. Len(s) BY <1>1
  <2> QED BY <2>1, <2>2
<1> QED BY <1>1, <1>2 DEF all

SatisfyInv == RowInv /\ RowsSatisfy

LEMMA RowsSatisfyNext ==
  ASSUME SatisfyInv, RowInv', [TabNext]_tabVars PROVE RowsSatisfy'
<1>0. /\ RowInv /\ TabInv /\ rows \in Seq(Row) /\ new_cache \in Seq(Row) /\ TabTypeOK
      /\ (~disturbed /\ AllEvaluated =>
           /\ \A i \in 1 .. Len(rows) : Satisfies(rows[i])
           /\ \A i \in 1 .. Len(new_cache) : Satisfies(new_cache[i]))
  BY DEF SatisfyInv, RowsSatisfy, RowInv, TabInv, TabTypeOK
<1>1. CASE rows' = << >> /\ new_cache' = << >>
  <2>1. Len(rows') = 0 /\ Len(new_cache') = 0 BY <1>1
  <2> QED BY <2>1 DEF RowsSatisfy
<1>2. CASE UNCHANGED <<rows, new_cache, line>> /\ (~disturbed' => ~disturbed)
  BY <1>0, <1>2 DEF RowsSatisfy, AllEvaluated, Satisfies
<1> SUFFICES ASSUME ListRecord \/ appendRecords \/ FilterRecord,
                    ~disturbed', AllEvaluated'
             PROVE  /\ \A i \in 1 .. Len(rows') : Satisfies(rows'[i])
                    /\ \A i \in 1 .. Len(new_cache') : Satisfies(new_cache'[i])
  <2>1. ListRecord \/ appendRecords \/ FilterRecord => UNCHANGED line
    BY DEF ListRecord, appendRecords, FilterRecord
  <2> QED BY <1>0, <1>1, <1>2, <2>1, RowsComeFrom DEF RowsSatisfy, Satisfies
<1>3. UNCHANGED <<line, disturbed>> BY DEF ListRecord, appendRecords, FilterRecord
<1>4. ~disturbed /\ AllEvaluated BY <1>3 DEF AllEvaluated
<1>5. /\ \A i \in 1 .. Len(rows) : Satisfies(rows[i])
      /\ \A i \in 1 .. Len(new_cache) : Satisfies(new_cache[i])
  BY <1>0, <1>4
<1>6. CASE ListRecord
  <2> DEFINE n == Head(batch)
  <2>1. /\ rows' = rows
        /\ new_cache' = IF Passes(n) THEN Append(new_cache, RowFor(n)) ELSE new_cache
    BY <1>6 DEF ListRecord
  <2>2. RowFor(n) \in Row
    <3>1. n \in 1 .. Len(Wire) /\ n - 1 \in Nat BY <1>0, <1>4, <1>6, ListedIsLive
    <3>2. <<"live", n>> \in Packets BY <3>1, LiveIsPacket
    <3> QED BY <3>1, <3>2 DEF RowFor, Row
  <2>3. Passes(n) => Satisfies(RowFor(n)) BY <1>0, <1>4, <1>6, ListedSatisfies
  <2> HIDE DEF n
  <2>4. CASE Passes(n)
    <3>1. \A i \in 1 .. Len(Append(new_cache, RowFor(n))) : Satisfies(Append(new_cache, RowFor(n))[i])
      BY <1>0, <1>5, <2>2, <2>3, <2>4, AppendedSatisfy
    <3> QED BY <1>5, <2>1, <2>4, <3>1
  <2>5. CASE ~Passes(n) BY <1>5, <2>1, <2>5
  <2> QED BY <2>4, <2>5
<1>7. CASE appendRecords
  <2>1. rows' = WithNewRows(new_cache) /\ new_cache' = << >> BY <1>7 DEF appendRecords
  <2>2. \A i \in 1 .. Len(WithNewRows(new_cache)) :
              \/ \E j \in 1 .. Len(rows) : WithNewRows(new_cache)[i] = rows[j]
              \/ \E j \in 1 .. Len(new_cache) : WithNewRows(new_cache)[i] = new_cache[j]
    <3>1. Len(rows) <= MAX_DISPLAY_ROWS BY <1>0 DEF TabTypeOK
    <3> QED BY <1>0, <3>1, NewRows
  <2>3. Len(new_cache') = 0 BY <2>1
  <2> QED BY <1>5, <2>1, <2>2, <2>3
<1>8. CASE FilterRecord
  <2> DEFINE row == [idx |-> cursor, packet |-> buffer[SlotOf(cursor)].packet]
  <2>1. new_cache' = new_cache /\ (rows' = rows \/ (~HasConditions /\ rows' = Append(rows, row)))
    BY <1>8 DEF FilterRecord
  <2>2. CASE rows' = rows BY <1>5, <2>1, <2>2
  <2>3. CASE ~HasConditions /\ rows' = Append(rows, row)
    <3>1. line = << >>
      <4>1. line \in Seq(Term)
        <5>1. line \in Lines \union {<< >>} BY <1>0 DEF TabTypeOK
        <5>2. Lines \subseteq Seq(Term) BY PacketTabAssumption
        <5> QED BY <5>1, <5>2, EmptySeq
      <4> QED BY <1>4, <2>3, <4>1, EvaluatedFilter DEF HasConditions, filter, AllEvaluated
    <3>2. \A any : Satisfies(any)
      <4>1. DOMAIN line = {} BY <3>1
      <4> QED BY <4>1 DEF Satisfies
    <3> QED BY <3>2
  <2> QED BY <2>1, <2>2, <2>3
<1> QED BY <1>6, <1>7, <1>8

(* The list shows only rows that satisfy the filter, for any wire and any  *)
(* lines that users may type.                                              *)
THEOREM ShownMatchHolds == TabSpec => []ShownMatch
<1>1. TabInit => SatisfyInv
  <2> SUFFICES ASSUME TabInit PROVE SatisfyInv
    OBVIOUS
  <2>1. Len(rows) = 0 /\ Len(new_cache) = 0 BY DEF TabInit
  <2> QED BY <2>1, RowInvInit DEF SatisfyInv, RowsSatisfy
<1>2. RowInv /\ [TabNext]_tabVars => RowInv'
  BY TabInvNext, RowsNext, ApartNext, LiveOrderNext DEF RowInv
<1>3. SatisfyInv /\ [TabNext]_tabVars => SatisfyInv'
  BY <1>2, RowsSatisfyNext DEF SatisfyInv
<1>4. SatisfyInv => ShownMatch
  <2> SUFFICES ASSUME SatisfyInv, ~disturbed, \A k \in DOMAIN line : Evaluated(line[k]),
                      NEW i \in DOMAIN rows
               PROVE  \A k \in DOMAIN line : Means(line[k], HeadersOf(rows[i].packet))
    BY DEF ShownMatch
  <2>1. rows \in Seq(Row) /\ DOMAIN rows = 1 .. Len(rows)
    BY LenProperties DEF SatisfyInv, RowInv, TabInv, TabTypeOK
  <2> QED BY <2>1 DEF SatisfyInv, RowsSatisfy, AllEvaluated, Satisfies
<1> QED BY <1>1, <1>3, <1>4, PTL DEF TabSpec
-----------------------------------------------------------------------------
(***************************************************************************)
(* What the list shows of capture files.  While no packet was captured     *)
(* live, the GUI thread pushes nothing and a push belongs to a running     *)
(* scan, so that the ring stands still once every scan is over: a filter   *)
(* run that starts then sees all of it.  A run that started before is      *)
(* followed by another, when the completion of the last scan is served.    *)
(***************************************************************************)

QuietPlaces == {"starting", "opening", "mapped", "failed", "done"}

Quiet == \A t \in DOMAIN scans : scans[t].at \in QuietPlaces

(* The rows there should be, and the index of the first.                   *)
Shown == Min({total, MAX_DISPLAY_ROWS})

First == total - Shown

OnlyScansPush ==
  received = 0 =>
    /\ gui # "flushing"
    /\ pushing => \E t \in DOMAIN scans : scans[t].at = "scanning"

RowsFromFirst == \A i \in 1 .. Len(rows) : rows[i].idx = First + i - 1

RowsAreWindow ==
  received = 0 /\ ~HasConditions /\ Quiet =>
    /\ gui = "idle" => Len(rows) = Shown /\ RowsFromFirst
    /\ gui = "filtering" =>
         /\ upto = total /\ cursor <= total
         /\ Len(rows) = cursor - First /\ RowsFromFirst

OfCurrentFile ==
  received = 0 /\ ~overlapped =>
    /\ \A i \in Kept : Contents[i].packet[1] = current_file
    /\ \A i \in 1 .. Len(rows) : rows[i].packet[1] = current_file

ListInv == FileInv /\ OnlyScansPush /\ RowsAreWindow /\ OfCurrentFile

LEMMA ShownFits ==
  ASSUME total \in Nat
  PROVE  /\ Shown \in Nat /\ Shown <= total /\ First \in Nat /\ First <= total
         /\ First >= oldestIndex /\ ScanFrom = First /\ oldestIndex \in Nat
<1>1. max_packets \in Nat /\ MAX_DISPLAY_ROWS \in Nat /\ MAX_DISPLAY_ROWS <= max_packets
  BY RingAssumption, PacketTabAssumption
<1>2. Shown \in {total, MAX_DISPLAY_ROWS} /\ Shown <= total /\ Shown <= MAX_DISPLAY_ROWS
  BY <1>1, MinOfTwo DEF Shown
<1> QED BY <1>1, <1>2 DEF First, ScanFrom, oldestIndex

(* What a step of a scan may be: a crash, a push, or a move to its next    *)
(* place.                                                                  *)
Crashes(t) == gui' = "crashed" /\ scans[t].at = "reading" /\ UNCHANGED <<vars, scans>>

PushesOn(t) == gui' = gui /\ ScanPushes(t) /\ Advance(t, "scanning")

MovesOn(t) ==
  /\ gui' = gui /\ UNCHANGED vars /\ (scans[t].at = "scanning" => ~pushing)
  /\ \/ Move(t, "scanning") \/ Move(t, "reading") \/ Move(t, "scanned")
     \/ /\ scans[t].at \in QuietPlaces
        /\ Move(t, "opening") \/ Move(t, "mapped") \/ Move(t, "failed")

LEMMA KindsOfScanSteps ==
  ASSUME TabInv, NEW t \in DOMAIN scans, Scan(t)
  PROVE  Crashes(t) \/ PushesOn(t) \/ MovesOn(t)
<1>1. CASE ScanCrashes(t) BY <1>1 DEF ScanCrashes, Crashes, fileVars
<1>2. CASE ScanPushes(t)
  BY <1>2 DEF ScanPushes, ScanOnly, guiVars, PushesOn, Advance
<1>3. CASE ScanResets(t) \/ ScanMaps(t) \/ ScanOpens(t) \/ ScanFails(t)
  BY <1>3 DEF ScanResets, ScanMaps, ScanOpens, ScanFails, ScanOnly, guiVars, MovesOn, QuietPlaces
<1>4. CASE ScanTests(t) \/ ScanBreaks(t) \/ ScanEnds(t)
  BY <1>4 DEF ScanTests, ScanBreaks, ScanEnds, ScanOnly, guiVars, MovesOn
<1> QED BY <1>1, <1>2, <1>3, <1>4 DEF Scan

(* The steps there are without live packets.                               *)
LEMMA WithoutLive ==
  ASSUME TabInv, OnlyScansPush, [TabNext]_tabVars, received' = 0
  PROVE  /\ received = 0 /\ gui # "flushing"
         /\ \/ UNCHANGED <<vars, gui, cursor, upto, rows, line, scans, current_file, overlapped>>
            \/ \E typed : onFilterChanged(typed)
            \/ onClearClicked
            \/ \E f \in Files : loadFile(f)
            \/ FilterRecord \/ FilterEnds \/ PushCompletes
            \/ \E t \in DOMAIN scans : Scan(t) \/ Completion(t)
<1>0. received \in Nat BY DEF TabInv, TabTypeOK
<1>1. ASSUME NEW from \in 0 .. Len(Wire), NEW n \in 1 .. Len(Wire) PROVE ~appendLivePackets(from, n)
  <2>1. appendLivePackets(from, n) => received' = received + n BY DEF appendLivePackets
  <2>2. n \in Nat /\ n > 0 OBVIOUS
  <2> QED BY <1>0, <2>1, <2>2
<1>2. received = 0
  <2>1. ASSUME NEW t \in DOMAIN scans, Scan(t) PROVE received' = received
    BY <2>1, ScanSteps DEF liveVars
  <2>2. received' = received
    BY <1>1, <2>1 DEF TabNext, GuiSteps, Completion, onLiveTimer, setRenderPaused, onFilterChanged,
                onClearClicked, loadFile, FlushPushes, ListRecord, appendRecords, FilterRecord,
                FilterEnds, PushCompletes, ScanOnly, onScanned, onScanFailed, liveVars, tabVars
  <2> QED BY <2>2
<1>3. gui # "flushing" BY <1>2 DEF OnlyScansPush
<1>4. live_pending = << >> BY <1>2 DEF TabInv, NoLiveYet
<1>5. TakeBatch => UNCHANGED <<gui, cursor>>
  <2>1. Len(live_pending) = 0 /\ MAX_ROWS_PER_FLUSH \in Nat BY <1>4, Sizes
  <2>2. Min({Len(live_pending), MAX_ROWS_PER_FLUSH}) = 0
    <3>1. /\ Min({0, MAX_ROWS_PER_FLUSH}) \in {0, MAX_ROWS_PER_FLUSH}
          /\ Min({0, MAX_ROWS_PER_FLUSH}) <= 0
      BY <2>1, MinOfTwo
    <3> QED BY <2>1, <3>1
  <2> QED BY <2>2 DEF TakeBatch
<1>6. onLiveTimer => UNCHANGED <<vars, gui, cursor, upto, rows, line, scans, current_file, overlapped>>
  BY <1>5 DEF onLiveTimer, fileVars
<1>7. ASSUME NEW paused
      PROVE  setRenderPaused(paused) =>
               UNCHANGED <<vars, gui, cursor, upto, rows, line, scans, current_file, overlapped>>
  BY <1>5 DEF setRenderPaused, fileVars
<1>8. ~FlushPushes /\ ~ListRecord /\ ~appendRecords
  BY <1>3 DEF FlushPushes, ListRecord, appendRecords
<1>9. UNCHANGED tabVars =>
        UNCHANGED <<vars, gui, cursor, upto, rows, line, scans, current_file, overlapped>>
  BY DEF tabVars, guiVars, fileVars
<1> QED BY <1>1, <1>2, <1>3, <1>6, <1>7, <1>8, <1>9 DEF TabNext, GuiSteps

(* Another scan that moves leaves a scan that is reading where it is.      *)
LEMMA ScanningGoesOn ==
  ASSUME scans \in Seq(ScanType), NEW u \in DOMAIN scans, NEW to \in ScanPlaces, Move(u, to),
         NEW t \in DOMAIN scans, scans[t].at = "scanning", scans[u].at # "scanning"
  PROVE  t \in DOMAIN scans' /\ scans'[t].at = "scanning"
<1>1. t # u OBVIOUS
<1> QED BY <1>1, Moved DEF Goes

LEMMA OnlyScansPushNext ==
  ASSUME ListInv, [TabNext]_tabVars PROVE OnlyScansPush'
<1> DEFINE Pushed == pushing' => \E t \in DOMAIN scans' : scans'[t].at = "scanning"
           Goal == gui' # "flushing" /\ Pushed
<1> SUFFICES ASSUME received' = 0 PROVE Goal
  BY DEF OnlyScansPush
<1>0. /\ TabInv /\ OnlyScansPush /\ scans \in Seq(ScanType)
      /\ DOMAIN scans = 1 .. Len(scans) /\ Len(scans) \in Nat
  <2>1. TabInv BY DEF ListInv, FileInv
  <2>2. scans \in Seq(ScanType) BY <2>1 DEF TabInv, TabTypeOK, ScanType, ScanPlaces
  <2> QED BY <2>1, <2>2, LenProperties DEF ListInv
<1>1. /\ received = 0 /\ gui # "flushing"
      /\ pushing => \E t \in DOMAIN scans : scans[t].at = "scanning"
  BY <1>0, WithoutLive DEF OnlyScansPush
<1>2. ASSUME gui' # "flushing", UNCHANGED <<pushing, scans>> PROVE Goal BY <1>1, <1>2
<1>3. ASSUME ~pushing', gui' # "flushing" PROVE Goal BY <1>3
<1>4. ASSUME NEW u \in DOMAIN scans, NEW to \in ScanPlaces, Move(u, to), UNCHANGED pushing,
             scans[u].at = "scanning" => ~pushing
      PROVE  Pushed
  <2> SUFFICES ASSUME pushing PROVE \E t \in DOMAIN scans' : scans'[t].at = "scanning"
    BY <1>4
  <2>1. PICK t \in DOMAIN scans : scans[t].at = "scanning" BY <1>1
  <2> QED BY <1>0, <1>4, <2>1, ScanningGoesOn
<1>5. ASSUME UNCHANGED <<vars, gui, cursor, upto, rows, line, scans, current_file, overlapped>>
      PROVE  Goal
  <2> HIDE DEF Goal
  <2> QED BY <1>1, <1>2, <1>5 DEF vars
<1>6. ASSUME \E typed : onFilterChanged(typed) PROVE Goal
  <2> HIDE DEF Goal
  <2> QED BY <1>2, <1>6 DEF onFilterChanged, ApplyFilter, vars, fileVars
<1>7. ASSUME onClearClicked PROVE Goal
  <2> HIDE DEF Goal
  <2> QED BY <1>1, <1>3, <1>7 DEF onClearClicked, Clear
<1>8. ASSUME \E f \in Files : loadFile(f) PROVE Goal
  <2> HIDE DEF Goal
  <2> QED BY <1>1, <1>3, <1>8 DEF loadFile, Clear
<1>9. ASSUME FilterRecord \/ FilterEnds PROVE Goal
  <2>1. gui' \in {"hung", "idle", "filtering"} /\ UNCHANGED <<pushing, scans>>
    BY <1>9 DEF FilterRecord, FilterEnds, vars, fileVars
  <2> HIDE DEF Goal
  <2> QED BY <1>2, <2>1
<1>10. ASSUME PushCompletes PROVE Goal
  <2> HIDE DEF Goal
  <2> QED BY <1>1, <1>3, <1>10 DEF PushCompletes, PushStores, guiVars
<1>11. ASSUME NEW u \in DOMAIN scans, Completion(u) PROVE Goal
  <2>1. /\ gui' # "flushing" /\ UNCHANGED pushing /\ scans[u].at # "scanning" /\ Move(u, "done")
    BY <1>1, <1>11 DEF Completion, onScanned, onScanFailed, ApplyFilter, ScanOnly, guiVars, vars
  <2>2. "done" \in ScanPlaces BY DEF ScanPlaces
  <2> QED BY <1>4, <2>1, <2>2
<1>12. ASSUME NEW u \in DOMAIN scans, Scan(u) PROVE Goal
  <2>1. CASE Crashes(u)
    <3> HIDE DEF Goal
    <3> QED BY <1>2, <2>1 DEF Crashes, vars
  <2>2. CASE PushesOn(u)
    <3>1. Goes(u, "scanning", scans[u].next + 1) /\ gui' = gui BY <2>2 DEF PushesOn, Goes
    <3>2. u \in DOMAIN scans' /\ scans'[u].at = "scanning"
      BY <1>0, <3>1, Moved DEF ScanPlaces
    <3> QED BY <1>1, <3>1, <3>2
  <2>3. CASE MovesOn(u)
    <3>1. gui' = gui /\ UNCHANGED pushing /\ (scans[u].at = "scanning" => ~pushing)
      BY <2>3 DEF MovesOn, vars
    <3>2. \E to \in ScanPlaces : Move(u, to) BY <2>3 DEF MovesOn, ScanPlaces
    <3> HIDE DEF Pushed
    <3>3. Pushed BY <1>4, <3>1, <3>2
    <3> QED BY <1>1, <3>1, <3>3
  <2> HIDE DEF Goal
  <2> QED BY <1>0, <1>12, <2>1, <2>2, <2>3, KindsOfScanSteps
<1> HIDE DEF ListInv, Goal
<1> QED BY <1>0, <1>5, <1>6, <1>7, <1>8, <1>9, <1>10, <1>11, <1>12, WithoutLive

(* A filter run starts at the first row there should be.                   *)
LEMMA RunStarts ==
  ASSUME total \in Nat, ApplyFilter, UNCHANGED vars PROVE RowsAreWindow'
<1>1. gui' = "filtering" /\ cursor' = First /\ upto' = total /\ Len(rows') = 0
  BY ShownFits DEF ApplyFilter
<1>2. total' = total /\ First' = First BY DEF vars, First, Shown
<1>3. First \in Nat /\ First <= total BY ShownFits
<1>4. RowsFromFirst' BY <1>1 DEF RowsFromFirst
<1> QED BY <1>1, <1>2, <1>3, <1>4 DEF RowsAreWindow

LEMMA EmptyIsWindow ==
  ASSUME Clear, rows' = << >>, gui = "idle", gui' = gui PROVE RowsAreWindow'
<1>1. total' = 0 /\ Len(rows') = 0 BY DEF Clear
<1>2. Shown' = 0
  <2>1. Min({0, MAX_DISPLAY_ROWS}) \in {0, MAX_DISPLAY_ROWS} /\ Min({0, MAX_DISPLAY_ROWS}) <= 0
    BY Sizes, MinOfTwo
  <2>2. MAX_DISPLAY_ROWS \in Nat BY Sizes
  <2> QED BY <1>1, <2>1, <2>2 DEF Shown
<1>3. RowsFromFirst' BY <1>1 DEF RowsFromFirst
<1> QED BY <1>1, <1>2, <1>3 DEF RowsAreWindow
(* One more row, of the record under `cursor'.                             *)
LEMMA RunGoesOn ==
  ASSUME TabInv, RowsAreWindow, FilterRecord, received = 0, ~HasConditions, Quiet
  PROVE  /\ gui' = "filtering" /\ UNCHANGED <<total, upto>> /\ cursor' <= total
         /\ Len(rows') = cursor' - First /\ RowsFromFirst'
<1> DEFINE row == [idx |-> cursor, packet |-> buffer[SlotOf(cursor)].packet]
<1>1. /\ gui = "filtering" /\ cursor < upto /\ ~pushing /\ UNCHANGED vars
      /\ gui' = (IF HasConditions /\ finds(cursor) THEN "hung" ELSE gui)
      /\ rows' = IF HasConditions \/ ~finds(cursor) THEN rows ELSE Append(rows, row)
      /\ cursor' = cursor + 1 /\ upto' = upto
  BY DEF FilterRecord
<1>2. /\ upto = total /\ cursor <= total /\ Len(rows) = cursor - First /\ RowsFromFirst
  BY <1>1 DEF RowsAreWindow
<1>3. total \in Nat /\ cursor \in Nat /\ rows \in Seq(Row) /\ Len(rows) \in Nat
  <2>1. RingInv /\ TabTypeOK BY DEF TabInv
  <2>2. total \in Nat BY <2>1 DEF RingInv, TypeOK
  <2>3. cursor \in Nat /\ rows \in Seq(Row) BY <2>1 DEF TabTypeOK
  <2> QED BY <2>2, <2>3, LenProperties
<1>4. First \in Nat /\ First >= oldestIndex /\ oldestIndex \in Nat BY <1>3, ShownFits
<1>5. finds(cursor)
  <2>1. cursor \in oldestIndex .. total - 1 BY <1>1, <1>2, <1>3, <1>4
  <2> QED BY <1>1, <2>1, InvImpliesWindowComplete DEF TabInv, WindowComplete
<1>6. rows' = Append(rows, row) /\ gui' = "filtering" BY <1>1, <1>5
<1> HIDE DEF row
<1>7. rows \in Seq(Row \union {row})
  <2>1. rows = [i \in 1 .. Len(rows) |-> rows[i]] BY <1>3, LenProperties
  <2>2. \A i \in 1 .. Len(rows) : rows[i] \in Row \union {row} BY <1>3, ElementOfSeq
  <2> QED BY <1>3, <2>1, <2>2, IsASeq
<1>8. /\ Len(rows') = Len(rows) + 1
      /\ \A i \in 1 .. Len(rows) + 1 : rows'[i] = IF i <= Len(rows) THEN rows[i] ELSE row
  BY <1>6, <1>7, AppendProperties
<1>9. First' = First /\ total' = total BY <1>1 DEF vars, First, Shown
<1>10. row.idx = cursor BY DEF row
<1>11. ASSUME NEW i \in 1 .. Len(rows) + 1 PROVE rows'[i].idx = First + i - 1
  <2>1. CASE i <= Len(rows)
    <3>1. i \in 1 .. Len(rows) BY <1>3, <2>1
    <3> QED BY <1>2, <1>8, <2>1, <3>1 DEF RowsFromFirst
  <2>2. CASE ~(i <= Len(rows))
    <3>1. i = Len(rows) + 1 BY <1>3, <2>2
    <3>2. rows'[i] = row BY <1>8, <2>2
    <3>3. First + i - 1 = cursor BY <1>2, <1>3, <1>4, <3>1
    <3> QED BY <1>10, <3>2, <3>3
  <2> QED BY <2>1, <2>2
<1>12. RowsFromFirst' BY <1>8, <1>9, <1>11 DEF RowsFromFirst
<1>13. cursor + 1 <= total /\ Len(rows) + 1 = (cursor + 1) - First BY <1>1, <1>2, <1>3, <1>4
<1> QED BY <1>1, <1>6, <1>8, <1>9, <1>12, <1>13

LEMMA WindowStands ==
  ASSUME RowsAreWindow, UNCHANGED <<vars, gui, cursor, upto, rows, line>>,
         received' = 0 => received = 0, Quiet' => Quiet
  PROVE  RowsAreWindow'
<1>1. total' = total /\ First' = First /\ Shown' = Shown /\ HasConditions' = HasConditions
  BY DEF vars, First, Shown, HasConditions, filter
<1>2. RowsFromFirst' = RowsFromFirst BY <1>1 DEF RowsFromFirst
<1> QED BY <1>1, <1>2 DEF RowsAreWindow

LEMMA RowsAreWindowNext ==
  ASSUME ListInv, [TabNext]_tabVars PROVE RowsAreWindow'
<1> SUFFICES ASSUME received' = 0, ~HasConditions', Quiet' PROVE RowsAreWindow'
  BY DEF RowsAreWindow
<1>0. /\ TabInv /\ OnlyScansPush /\ RowsAreWindow /\ scans \in Seq(ScanType)
      /\ DOMAIN scans = 1 .. Len(scans) /\ Len(scans) \in Nat /\ total \in Nat
  <2>1. TabInv BY DEF ListInv, FileInv
  <2>2. scans \in Seq(ScanType) BY <2>1 DEF TabInv, TabTypeOK, ScanType, ScanPlaces
  <2>3. total \in Nat BY <2>1 DEF TabInv, RingInv, TypeOK
  <2> QED BY <2>1, <2>2, <2>3, LenProperties DEF ListInv
<1>1. received = 0 BY <1>0, WithoutLive
<1>2. CASE UNCHANGED <<vars, gui, cursor, upto, rows, line, scans, current_file, overlapped>>
  BY <1>0, <1>1, <1>2, WindowStands DEF Quiet
<1>3. CASE \E typed : onFilterChanged(typed)
  <2>1. ApplyFilter /\ UNCHANGED vars BY <1>3 DEF onFilterChanged
  <2> QED BY <1>0, <2>1, RunStarts
<1>4. CASE onClearClicked
  <2>1. Clear /\ rows' = << >> /\ gui = "idle" /\ gui' = gui BY <1>4 DEF onClearClicked
  <2> QED BY <2>1, EmptyIsWindow
<1>5. CASE \E f \in Files : loadFile(f)
  <2>1. Clear /\ rows' = << >> /\ gui = "idle" /\ gui' = gui BY <1>5 DEF loadFile
  <2> QED BY <2>1, EmptyIsWindow
<1>6. CASE FilterRecord
  <2>1. UNCHANGED <<line, scans, received>> BY <1>6 DEF FilterRecord, liveVars, fileVars
  <2>2. ~HasConditions /\ Quiet BY <2>1 DEF HasConditions, filter, Quiet
  <2>3. /\ gui' = "filtering" /\ UNCHANGED <<total, upto>> /\ cursor' <= total
        /\ Len(rows') = cursor' - First /\ RowsFromFirst'
    BY <1>0, <1>1, <1>6, <2>2, RunGoesOn
  <2>4. upto = total BY <1>0, <1>1, <1>6, <2>2 DEF RowsAreWindow, FilterRecord
  <2>5. First' = First BY <2>3 DEF First, Shown
  <2> QED BY <2>3, <2>4, <2>5 DEF RowsAreWindow
<1>7. CASE FilterEnds
  <2>1. /\ gui = "filtering" /\ cursor >= upto /\ gui' = "idle"
        /\ UNCHANGED <<vars, rows, line, scans>>
    BY <1>7 DEF FilterEnds, fileVars
  <2>2. ~HasConditions /\ Quiet BY <2>1 DEF HasConditions, filter, Quiet
  <2>3. upto = total /\ cursor <= total /\ Len(rows) = cursor - First /\ RowsFromFirst
    BY <1>0, <1>1, <2>1, <2>2 DEF RowsAreWindow
  <2>4. Len(rows) = Shown
    <3>1. cursor \in Nat BY <1>0 DEF TabInv, TabTypeOK
    <3>2. cursor = total BY <1>0, <2>1, <2>3, <3>1
    <3>3. Shown \in Nat BY <1>0, ShownFits
    <3> QED BY <1>0, <2>3, <3>2, <3>3 DEF First
  <2>5. First' = First /\ Shown' = Shown BY <2>1 DEF vars, First, Shown
  <2>6. RowsFromFirst' BY <2>1, <2>3, <2>5 DEF RowsFromFirst
  <2> QED BY <2>1, <2>4, <2>5, <2>6 DEF RowsAreWindow
<1>8. CASE PushCompletes
  <2>1. pushing /\ UNCHANGED scans BY <1>8 DEF PushCompletes, PushStores, fileVars
  <2>2. PICK t \in DOMAIN scans : scans[t].at = "scanning" BY <1>0, <1>1, <2>1 DEF OnlyScansPush
  <2>3. scans'[t].at \in QuietPlaces BY <2>1 DEF Quiet
  <2> QED BY <2>1, <2>2, <2>3 DEF QuietPlaces
<1>9. ASSUME NEW t \in DOMAIN scans, NEW to \in ScanPlaces, NEW n, Goes(t, to, n)
      PROVE  /\ to \in QuietPlaces
             /\ scans[t].at \in QuietPlaces => Quiet
  <2>1. /\ DOMAIN scans' = DOMAIN scans /\ scans'[t].at = to
        /\ \A u \in DOMAIN scans : u # t => scans'[u] = scans[u]
    BY <1>0, <1>9, Moved
  <2> QED BY <2>1 DEF Quiet
<1>10. ASSUME NEW t \in DOMAIN scans, NEW to \in ScanPlaces, Move(t, to),
              scans[t].at \in QuietPlaces, UNCHANGED <<vars, gui, cursor, upto, rows, line>>
       PROVE  RowsAreWindow'
  <2>1. Quiet BY <1>9, <1>10 DEF Goes
  <2> QED BY <1>0, <1>1, <1>10, <2>1, WindowStands
<1>11. ASSUME NEW t \in DOMAIN scans, onScanned(t) PROVE RowsAreWindow'
  <2>1. ApplyFilter /\ UNCHANGED vars BY <1>11 DEF onScanned
  <2> QED BY <1>0, <2>1, RunStarts
<1>12. ASSUME NEW t \in DOMAIN scans, onScanFailed(t) PROVE RowsAreWindow'
  <2>1. /\ UNCHANGED <<vars, gui, cursor, upto, rows, line>> /\ scans[t].at = "failed"
        /\ Move(t, "done")
    BY <1>12 DEF onScanFailed, ScanOnly, guiVars
  <2>2. "done" \in ScanPlaces /\ "failed" \in QuietPlaces BY DEF ScanPlaces, QuietPlaces
  <2> QED BY <1>10, <2>1, <2>2
<1>13. ASSUME NEW t \in DOMAIN scans, Scan(t) PROVE RowsAreWindow'
  <2>1. CASE Crashes(t)
    <3>1. t \in DOMAIN scans' /\ scans'[t].at = "reading" BY <2>1 DEF Crashes
    <3> QED BY <3>1 DEF Quiet, QuietPlaces
  <2>2. CASE PushesOn(t)
    <3>1. Goes(t, "scanning", scans[t].next + 1) BY <2>2 DEF PushesOn, Goes
    <3> QED BY <1>9, <3>1 DEF QuietPlaces, ScanPlaces
  <2>3. ASSUME MovesOn(t) PROVE RowsAreWindow'
    <3>1. ~Move(t, "scanning") /\ ~Move(t, "reading") /\ ~Move(t, "scanned")
      BY <1>9 DEF Goes, QuietPlaces, ScanPlaces
    <3>2. /\ scans[t].at \in QuietPlaces /\ UNCHANGED vars
          /\ Move(t, "opening") \/ Move(t, "mapped") \/ Move(t, "failed")
      BY <2>3, <3>1 DEF MovesOn
    <3>3. \E to \in ScanPlaces : Move(t, to) BY <3>2 DEF ScanPlaces
    <3>4. UNCHANGED <<gui, cursor, upto, rows, line>>
      <4>1. gui' = gui BY <2>3 DEF MovesOn
      <4> QED BY <1>0, <1>13, <4>1, ScanSteps
    <3> QED BY <1>10, <3>2, <3>3, <3>4
  <2> QED BY <1>0, <1>13, <2>1, <2>2, <2>3, KindsOfScanSteps
<1> QED BY <1>0, <1>2, <1>3, <1>4, <1>5, <1>6, <1>7, <1>8, <1>11, <1>12, <1>13, WithoutLive
        DEF Completion

LEMMA OfCurrentFileNext ==
  ASSUME ListInv, TabInv', [TabNext]_tabVars PROVE OfCurrentFile'
<1> SUFFICES ASSUME received' = 0, ~overlapped'
             PROVE  /\ \A i \in Kept' : Contents'[i].packet[1] = current_file'
                    /\ \A i \in 1 .. Len(rows') : rows'[i].packet[1] = current_file'
  BY DEF OfCurrentFile
<1>0. /\ TabInv /\ RingInv /\ OnlyScansPush /\ scans \in Seq(ScanType) /\ total \in Nat
      /\ rows \in Seq(Row) /\ Len(rows) \in Nat
  <2>1. TabInv BY DEF ListInv, FileInv
  <2>2. scans \in Seq(ScanType) /\ rows \in Seq(Row) BY <2>1 DEF TabInv, TabTypeOK, ScanType, ScanPlaces
  <2>3. RingInv /\ total \in Nat BY <2>1 DEF TabInv, RingInv, TypeOK
  <2> QED BY <2>1, <2>2, <2>3, LenProperties DEF ListInv
<1>1. received = 0 BY <1>0, WithoutLive
<1> DEFINE Mine(p) == p[1] = current_file
           KeptMine == \A i \in Kept : Mine(Contents[i].packet)
           RowsMine == \A i \in 1 .. Len(rows) : Mine(rows[i].packet)
           Goal == /\ \A i \in Kept' : Contents'[i].packet[1] = current_file'
                   /\ \A i \in 1 .. Len(rows') : rows'[i].packet[1] = current_file'
<1>2. ~overlapped => KeptMine /\ RowsMine BY <1>1 DEF ListInv, OfCurrentFile
<1>3. ASSUME UNCHANGED <<vars, current_file, overlapped>>, rows' = rows \/ rows' = << >> PROVE Goal
  <2>1. Kept' = Kept /\ Contents' = Contents BY <1>3 DEF vars, Kept, Contents, oldestIndex
  <2>2. rows' = << >> => Len(rows') = 0 OBVIOUS
  <2> QED BY <1>2, <1>3, <2>1, <2>2
<1>4. ASSUME Clear, rows' = << >> PROVE Goal
  <2>1. Kept' = {} BY <1>4, RingAssumption DEF Clear, Kept, oldestIndex
  <2>2. Len(rows') = 0 BY <1>4
  <2> QED BY <2>1, <2>2
<1>5. ASSUME UNCHANGED <<vars, gui, cursor, upto, rows, line, scans, current_file, overlapped>>
      PROVE  Goal
  BY <1>3, <1>5
<1>6. ASSUME \E typed : onFilterChanged(typed) PROVE Goal
  BY <1>3, <1>6 DEF onFilterChanged, ApplyFilter, fileVars
<1>7. ASSUME onClearClicked PROVE Goal BY <1>4, <1>7 DEF onClearClicked
<1>8. ASSUME \E f \in Files : loadFile(f) PROVE Goal BY <1>4, <1>8 DEF loadFile
<1>9. ASSUME FilterEnds PROVE Goal BY <1>3, <1>9 DEF FilterEnds, fileVars
<1>10. ASSUME FilterRecord PROVE Goal
  <2> DEFINE row == [idx |-> cursor, packet |-> buffer[SlotOf(cursor)].packet]
  <2>1. /\ UNCHANGED <<vars, current_file, overlapped>> /\ ~pushing
        /\ rows' = rows \/ (finds(cursor) /\ rows' = Append(rows, row))
    BY <1>10 DEF FilterRecord, fileVars
  <2>2. CASE rows' = rows BY <1>3, <2>1, <2>2
  <2>3. CASE finds(cursor) /\ rows' = Append(rows, row)
    <3>1. Kept' = Kept /\ Contents' = Contents BY <2>1 DEF vars, Kept, Contents, oldestIndex
    <3>2. cursor \in Kept
      <4>1. cursor \in Nat /\ oldestIndex \in Nat BY <1>0, OldestType DEF TabInv, TabTypeOK
      <4> QED BY <1>0, <2>3, <4>1 DEF finds, Kept
    <3>3. Contents[cursor].packet = row.packet BY <2>1, <3>2 DEF Contents, Kept
    <3>4. Mine(row.packet) BY <1>2, <2>1, <3>2, <3>3
    <3> HIDE DEF row
    <3>5. rows \in Seq(Row \union {row})
      <4>1. rows = [i \in 1 .. Len(rows) |-> rows[i]] BY <1>0, LenProperties
      <4>2. \A i \in 1 .. Len(rows) : rows[i] \in Row \union {row} BY <1>0, ElementOfSeq
      <4> QED BY <1>0, <4>1, <4>2, IsASeq
    <3>6. /\ Len(rows') = Len(rows) + 1
          /\ \A i \in 1 .. Len(rows) + 1 : rows'[i] = IF i <= Len(rows) THEN rows[i] ELSE row
      BY <2>3, <3>5, AppendProperties
    <3>7. ASSUME NEW i \in 1 .. Len(rows) + 1 PROVE Mine(rows'[i].packet)
      <4>1. i <= Len(rows) => i \in 1 .. Len(rows) BY <1>0
      <4> QED BY <1>2, <2>1, <3>4, <3>6, <4>1
    <3> QED BY <1>2, <2>1, <3>1, <3>6, <3>7
  <2> QED BY <2>1, <2>2, <2>3
<1>11. ASSUME PushCompletes PROVE Goal
  <2>1. PushStores /\ UNCHANGED <<rows, current_file, overlapped>>
    BY <1>11 DEF PushCompletes, guiVars, fileVars
  <2>2. total' = total /\ Contents' = Contents BY <1>0, <2>1, RefinesStore DEF PushStores
  <2>3. Kept' = Kept BY <2>2 DEF Kept, oldestIndex
  <2> QED BY <1>2, <2>1, <2>2, <2>3
<1>12. ASSUME NEW t \in DOMAIN scans, Scan(t) PROVE Goal
  <2>1. UNCHANGED <<rows, current_file, overlapped>> BY <1>0, <1>12, ScanSteps
  <2>2. CASE UNCHANGED vars
    <3> HIDE DEF Goal
    <3> QED BY <1>3, <2>1, <2>2
  <2>3. CASE ScanPushes(t) /\ \E p \in Found(t) : p \in Packets /\ PushBegins(p, FALSE)
    <3>1. PICK p \in Found(t) : p \in Packets /\ PushBegins(p, FALSE) BY <2>3
    <3>2. scans[t].at = "reading" /\ LastFits(t)
      BY <2>1, <2>3 DEF ListInv, FileInv, LastScan, Running, ScanPushes
    <3>3. p = <<current_file, scans[t].next>>
      BY <1>0, <3>1, <3>2, ReadsOwn
    <3>4. p[1] = current_file BY <3>3
    <3>5. /\ Contents'[total].packet = p
          /\ \A i \in Kept' : i # total => i \in Kept /\ Contents'[i].packet = Contents[i].packet
      BY <1>0, <3>1, PushKeeps
    <3> QED BY <1>2, <2>1, <3>4, <3>5
  <2> HIDE DEF Goal
  <2> QED BY <1>0, <1>12, <2>2, <2>3, ScanPushesPackets
<1>13. ASSUME NEW t \in DOMAIN scans, Completion(t) PROVE Goal
  <2>1. UNCHANGED <<vars, current_file, overlapped>> /\ (rows' = rows \/ rows' = << >>)
    BY <1>13 DEF Completion, onScanned, onScanFailed, ApplyFilter, ScanOnly, guiVars
  <2> HIDE DEF Goal
  <2> QED BY <1>3, <2>1
<1> HIDE DEF Goal
<1>16. Goal
  <2>1. /\ TabInv /\ OnlyScansPush /\ [TabNext]_tabVars /\ received' = 0 BY <1>0
  <2> QED BY <2>1, <1>5, <1>6, <1>7, <1>8, <1>9, <1>10, <1>11, <1>12, <1>13, WithoutLive
<1> QED BY <1>16 DEF Goal

(* When every load is done the list shows the ring's last records, all of  *)
(* them and in order, and only those of the current file unless scans      *)
(* overlapped: for any files, and any sizes of ring and list.              *)
THEOREM ListShowsWindowHolds == TabSpec => []ListShowsWindow
<1>1. TabInit => ListInv
  <2> SUFFICES ASSUME TabInit PROVE ListInv
    OBVIOUS
  <2>1. /\ gui = "idle" /\ ~pushing /\ total = 0 /\ Len(rows) = 0 /\ DOMAIN rows = {}
    BY DEF TabInit, Init
  <2>2. Kept = {} BY RingAssumption DEF TabInit, Init, Kept, oldestIndex
  <2>3. Shown = 0
    <3>1. Min({0, MAX_DISPLAY_ROWS}) \in {0, MAX_DISPLAY_ROWS} /\ Min({0, MAX_DISPLAY_ROWS}) <= 0
      BY Sizes, MinOfTwo
    <3>2. MAX_DISPLAY_ROWS \in Nat BY Sizes
    <3> QED BY <2>1, <3>1, <3>2 DEF Shown
  <2> QED BY <2>1, <2>2, <2>3, FileInvInit
          DEF ListInv, OnlyScansPush, RowsAreWindow, RowsFromFirst, OfCurrentFile
<1>2. ListInv /\ [TabNext]_tabVars => ListInv'
  <2>1. FileInv /\ [TabNext]_tabVars => TabInv' BY TabInvNext DEF FileInv
  <2> QED BY <2>1, FileInvNext, OnlyScansPushNext, RowsAreWindowNext, OfCurrentFileNext DEF ListInv
<1>3. ListInv => ListShowsWindow
  <2> SUFFICES ASSUME ListInv, gui = "idle", received = 0, ~HasConditions,
                      \A t \in DOMAIN scans : scans[t].at = "done"
               PROVE  /\ [i \in DOMAIN rows |-> rows[i].idx] = [i \in 1 .. Shown |-> First + i - 1]
                      /\ ~overlapped => \A i \in DOMAIN rows : rows[i].packet[1] = current_file
    BY DEF ListShowsWindow, Shown, First
  <2>1. rows \in Seq(Row) /\ DOMAIN rows = 1 .. Len(rows)
    BY LenProperties DEF ListInv, FileInv, TabInv, TabTypeOK
  <2>2. Quiet BY DEF Quiet, QuietPlaces
  <2>3. Len(rows) = Shown /\ RowsFromFirst BY <2>2 DEF ListInv, RowsAreWindow
  <2> HIDE DEF ListInv
  <2>4. [i \in DOMAIN rows |-> rows[i].idx] = [i \in 1 .. Shown |-> First + i - 1]
    BY <2>1, <2>3 DEF RowsFromFirst
  <2> QED BY <2>1, <2>4 DEF ListInv, OfCurrentFile
<1> QED BY <1>1, <1>2, <1>3, PTL DEF TabSpec

-----------------------------------------------------------------------------
(***************************************************************************)
(* Files loaded one at a time, of any length and link type, are read to    *)
(* their end: FileInv keeps the reader's fields those of the scan's file.  *)
(***************************************************************************)

THEOREM LoadsAreCompleteHolds == TabSpec => []LoadsAreComplete
<1>1. FileInv => LoadsAreComplete BY DEF FileInv, LastScan, LoadsAreComplete
<1>2. FileInv /\ [TabNext]_tabVars => FileInv' BY TabInvNext, FileInvNext DEF FileInv
<1> QED BY <1>1, <1>2, FileInvInit, PTL DEF TabSpec

-----------------------------------------------------------------------------
(***************************************************************************)
(* What the program dies of: an exception of the filter in force, which no *)
(* step changes any more, or a read of a scan whose mapping was taken, for *)
(* which scans must have overlapped.                                       *)
(***************************************************************************)

Throwing == \E i \in DOMAIN filter.conditions : Throws(filter.conditions[i])

CrashInv == FileInv /\ CrashIsExplained

LEMMA MatchThrows ==
  ASSUME NEW f, NEW h, matchFilter(f, h) = "throws"
  PROVE  \E i \in DOMAIN f.conditions : Throws(f.conditions[i])
<1> DEFINE stops == {i \in DOMAIN f.conditions :
                       Throws(f.conditions[i]) \/ ~Check(f.conditions[i], h)}
           first == {i \in stops : \A j \in stops : i <= j}
<1>1. matchFilter(f, h) = CASE stops = {} -> "yes"
                            [] \E i \in first : Throws(f.conditions[i]) -> "throws"
                            [] OTHER -> "no"
  BY DEF matchFilter
<1>2. first \subseteq DOMAIN f.conditions OBVIOUS
<1>3. stops = {} => first = {} OBVIOUS
<1> HIDE DEF stops, first
<1>4. \E i \in first : Throws(f.conditions[i]) BY <1>1, <1>3
<1> QED BY <1>2, <1>4

LEMMA CrashIsExplainedNext ==
  ASSUME CrashInv, [TabNext]_tabVars PROVE CrashIsExplained'
<1>0. FileInv /\ TabInv /\ (gui = "crashed" => overlapped \/ Throwing)
  BY DEF CrashInv, FileInv, CrashIsExplained, Throwing
<1> SUFFICES ASSUME gui' = "crashed" PROVE overlapped' \/ Throwing'
  BY DEF CrashIsExplained, Throwing
<1>1. ASSUME UNCHANGED <<gui, line, overlapped>> PROVE overlapped' \/ Throwing'
  BY <1>0, <1>1 DEF Throwing, filter
<1>2. ASSUME NEW from, NEW n, appendLivePackets(from, n) PROVE UNCHANGED <<gui, line, overlapped>>
  BY <1>2 DEF appendLivePackets, guiVars, fileVars
<1>3. ASSUME onLiveTimer \/ \E paused \in BOOLEAN : setRenderPaused(paused) PROVE FALSE
  BY <1>3 DEF onLiveTimer, setRenderPaused, TakeBatch
<1>4. ASSUME NEW typed, onFilterChanged(typed) PROVE FALSE
  BY <1>4 DEF onFilterChanged, ApplyFilter
<1>5. ASSUME onClearClicked \/ \E f \in Files : loadFile(f) PROVE FALSE
  BY <1>5 DEF onClearClicked, loadFile
<1>6. ASSUME FlushPushes \/ appendRecords \/ FilterRecord \/ FilterEnds \/ PushCompletes
      PROVE  FALSE
  BY <1>6 DEF FlushPushes, appendRecords, FilterRecord, FilterEnds, PushCompletes, guiVars
<1>7. ASSUME ListRecord PROVE Throwing'
  <2>1. gui = "flushing" /\ UNCHANGED line
        /\ gui' = IF HasConditions /\ "throws" \in Verdicts(Head(batch)) THEN "crashed" ELSE gui
    BY <1>7 DEF ListRecord
  <2>2. "throws" \in Verdicts(Head(batch)) BY <2>1
  <2>3. \E h : matchFilter(filter, h) = "throws" BY <2>2 DEF Verdicts
  <2>4. Throwing BY <2>3, MatchThrows DEF Throwing
  <2> QED BY <2>1, <2>4 DEF Throwing, filter
<1>8. ASSUME NEW t \in DOMAIN scans, Completion(t) PROVE FALSE
  BY <1>8 DEF Completion, onScanned, onScanFailed, ApplyFilter, ScanOnly, guiVars
<1>9. ASSUME NEW t \in DOMAIN scans, Scan(t) PROVE overlapped'
  <2>1. gui # "crashed" /\ UNCHANGED overlapped BY <1>0, <1>9, ScanSteps DEF Scan
  <2>2. ScanCrashes(t)
    BY <1>9, <2>1 DEF Scan, ScanResets, ScanMaps, ScanOpens, ScanFails, ScanTests, ScanPushes,
                      ScanBreaks, ScanEnds, ScanOnly, guiVars
  <2>3. scans[t].at = "reading" /\ Strays(t) BY <2>2 DEF ScanCrashes
  <2>4. ASSUME ~overlapped PROVE FALSE
    <3>1. LastFits(t) BY <1>0, <2>3, <2>4 DEF FileInv, LastScan, Running
    <3> QED BY <1>0, <2>3, <3>1, ReadsOwn
  <2> QED BY <2>1, <2>4
<1>10. CASE UNCHANGED tabVars BY <1>1, <1>10 DEF tabVars, guiVars, fileVars
<1> QED BY <1>1, <1>2, <1>3, <1>4, <1>5, <1>6, <1>7, <1>8, <1>9, <1>10 DEF TabNext, GuiSteps

(* The program dies of nothing else, for any files, lines and live packets.*)
THEOREM CrashIsExplainedHolds == TabSpec => []CrashIsExplained
<1>1. TabInit => CrashInv
  BY FileInvInit DEF TabInit, CrashInv, CrashIsExplained
<1>2. CrashInv /\ [TabNext]_tabVars => CrashInv'
  <2>1. FileInv /\ [TabNext]_tabVars => FileInv' BY TabInvNext, FileInvNext DEF FileInv
  <2> QED BY <2>1, CrashIsExplainedNext DEF CrashInv
<1>3. CrashInv => CrashIsExplained BY DEF CrashInv
<1> QED BY <1>1, <1>2, <1>3, PTL DEF TabSpec
=============================================================================

----------------------------- MODULE BatchProofs -----------------------------
(***************************************************************************)
(* Theorems about the work that goes on without a transaction around it:   *)
(* uploads, bulk deletions, backups and the translation scripts, each by   *)
(* itself, for every set of rows and of requests, and every bound.         *)
(***************************************************************************)
EXTENDS MediaLibrary, BulkDelete, Backups, Backfill, FiniteSetTheorems,
        FunctionTheorems, SequenceTheorems, TLAPS

-----------------------------------------------------------------------------
(* Uploads                                                                 *)

\* The inductive invariant: a file that is being uploaded is in the store, and
\* is nobody else's.
MediaInv ==
    /\ MediaTypeOK
    /\ \A u \in Uploader : uploading[u] # NoFile =>
           /\ uploading[u] \in store
           /\ \A v \in Uploader \ {u} : uploading[v] # uploading[u]

\* Any change of a row but of its file keeps the invariant, and so does one that
\* forgets the file. (update, trash, restore, purge)
LEMMA AssetWritten ==
    ASSUME MediaInv, NEW m \in Asset, NEW row \in AssetRow,
           row.file \in {asset[m].file, NoFile},
           asset' = [asset EXCEPT ![m] = row],
           turning' \in [Asset -> SUBSET (BOOLEAN \cup {NoFile})],
           UNCHANGED <<store, uploading>>
    PROVE  MediaInv'
<1>1. asset' \in [Asset -> AssetRow]
  BY DEF MediaInv, MediaTypeOK
<1>2. \A n \in Asset : asset'[n].file \in {asset[n].file, NoFile}
  BY DEF MediaInv, MediaTypeOK
<1> QED
  BY <1>1, <1>2 DEF MediaInv, MediaTypeOK

\* Every step of the library keeps the invariant.
LEMMA MediaStep == MediaInv /\ [MediaNext]_mediaVars => MediaInv'
<1> SUFFICES ASSUME MediaInv, [MediaNext]_mediaVars PROVE MediaInv'
  OBVIOUS
<1> USE MediaAssumption
<1>1. CASE \E u \in Uploader, file \in Asset : UploadFile(u, file)
  BY <1>1 DEF UploadFile, FreshName, MediaInv, MediaTypeOK
<1>2. CASE \E u \in Uploader, m \in Asset : RecordUpload(u, m)
  <2>1. PICK u \in Uploader, m \in Asset : RecordUpload(u, m)
    BY <1>2
  <2> DEFINE row == [life |-> "live", active |-> TRUE, file |-> uploading[u]]
  <2>2. row \in AssetRow /\ row.file = uploading[u] /\ uploading[u] # NoFile
    BY <2>1 DEF AssetRow, MediaInv, MediaTypeOK, RecordUpload
  <2>3. /\ asset' = [asset EXCEPT ![m] = row]
        /\ uploading' = [uploading EXCEPT ![u] = NoFile]
        /\ UNCHANGED <<store, turning>>
    BY <2>1 DEF RecordUpload, InsertAsset
  <2> HIDE DEF row
  <2>4. asset' \in [Asset -> AssetRow] /\ uploading' \in [Uploader -> Asset \cup {NoFile}]
    BY <2>2, <2>3 DEF MediaInv, MediaTypeOK
  <2>5. \A n \in Asset : asset'[n].file = IF n = m THEN uploading[u] ELSE asset[n].file
    BY <2>2, <2>3 DEF MediaInv, MediaTypeOK
  <2>6. \A v \in Uploader : uploading'[v] = IF v = u THEN NoFile ELSE uploading[v]
    BY <2>3 DEF MediaInv, MediaTypeOK
  <2> QED
    BY <2>2, <2>3, <2>4, <2>5, <2>6 DEF MediaInv, MediaTypeOK
<1>3. CASE \E u \in Uploader : LoseUpload(u)
  BY <1>3 DEF LoseUpload, MediaInv, MediaTypeOK
<1>4. CASE \E m \in Asset, active \in BOOLEAN : EnterAsset(m, active)
  <2>1. PICK m \in Asset, active \in BOOLEAN : EnterAsset(m, active)
    BY <1>4
  <2> DEFINE row == [life |-> "live", active |-> active, file |-> NoFile]
  <2>2. row \in AssetRow /\ row.file = NoFile /\ asset' = [asset EXCEPT ![m] = row]
    BY <2>1 DEF AssetRow, EnterAsset, InsertAsset
  <2> HIDE DEF row
  <2>3. turning' \in [Asset -> SUBSET (BOOLEAN \cup {NoFile})] /\ UNCHANGED <<store, uploading>>
    BY <2>1 DEF EnterAsset, InsertAsset, MediaInv, MediaTypeOK
  <2> QED
    BY <2>2, <2>3, AssetWritten
<1>5. CASE \E m \in Asset, active \in BOOLEAN \cup {NoFile} : FindAsset(m, active)
  BY <1>5 DEF FindAsset, MediaInv, MediaTypeOK
<1>6. CASE \E m \in Asset, active \in BOOLEAN \cup {NoFile}, renamed \in BOOLEAN :
               UpdateAsset(m, active, renamed)
  <2>1. PICK m \in Asset, active \in BOOLEAN \cup {NoFile}, renamed \in BOOLEAN :
            UpdateAsset(m, active, renamed)
    BY <1>6
  <2> DEFINE row == [asset[m] EXCEPT
                         !.active = IF active = NoFile THEN @ ELSE active,
                         !.file = IF renamed THEN NoFile ELSE @]
  <2>2. asset[m] \in AssetRow
    BY DEF MediaInv, MediaTypeOK
  <2>3. row \in AssetRow /\ row.file \in {asset[m].file, NoFile}
    BY <2>2 DEF AssetRow
  <2>4. asset' = [asset EXCEPT ![m] = row]
    BY <2>1, <2>2 DEF UpdateAsset, MediaInv, MediaTypeOK, AssetRow
  <2>5. turning' \in [Asset -> SUBSET (BOOLEAN \cup {NoFile})] /\ UNCHANGED <<store, uploading>>
    BY <2>1 DEF UpdateAsset, MediaInv, MediaTypeOK
  <2> HIDE DEF row
  <2> QED
    BY <2>3, <2>4, <2>5, AssetWritten
<1>7. CASE \E m \in Asset, life \in {"live", "trashed"} : BinAsset(m, life)
  <2>1. PICK m \in Asset, life \in {"live", "trashed"} : BinAsset(m, life)
    BY <1>7
  <2> DEFINE row == [asset[m] EXCEPT !.life = life, !.active = FALSE]
  <2>2. asset[m] \in AssetRow
    BY DEF MediaInv, MediaTypeOK
  <2>3. row \in AssetRow /\ row.file \in {asset[m].file, NoFile}
    BY <2>2 DEF AssetRow
  <2>4. asset' = [asset EXCEPT ![m] = row]
    BY <2>1, <2>2 DEF BinAsset, MediaInv, MediaTypeOK, AssetRow
  <2>5. turning' \in [Asset -> SUBSET (BOOLEAN \cup {NoFile})] /\ UNCHANGED <<store, uploading>>
    BY <2>1 DEF BinAsset, MediaInv, MediaTypeOK
  <2> HIDE DEF row
  <2> QED
    BY <2>3, <2>4, <2>5, AssetWritten
<1>8. CASE \E m \in Asset : PurgeAsset(m)
  <2>1. PICK m \in Asset : PurgeAsset(m)
    BY <1>8
  <2> DEFINE row == [asset[m] EXCEPT !.life = "purged", !.file = NoFile]
  <2>2. asset[m] \in AssetRow
    BY DEF MediaInv, MediaTypeOK
  <2>3. row \in AssetRow /\ row.file \in {asset[m].file, NoFile}
    BY <2>2 DEF AssetRow
  <2>4. asset' = [asset EXCEPT ![m] = row]
    BY <2>1, <2>2 DEF PurgeAsset, MediaInv, MediaTypeOK, AssetRow
  <2>5. turning' \in [Asset -> SUBSET (BOOLEAN \cup {NoFile})] /\ UNCHANGED <<store, uploading>>
    BY <2>1 DEF PurgeAsset, MediaInv, MediaTypeOK
  <2> HIDE DEF row
  <2> QED
    BY <2>3, <2>4, <2>5, AssetWritten
<1>9. CASE UNCHANGED mediaVars
  BY <1>9 DEF mediaVars, MediaInv, MediaTypeOK
<1> QED
  BY <1>1, <1>2, <1>3, <1>4, <1>5, <1>6, <1>7, <1>8, <1>9 DEF MediaNext, AssetStep

\* The file of a row that an upload inserted is always in the store, and no other
\* row or upload has it. (uploadImage's unique_filename)
THEOREM UploadedFilesStay == MediaSpec => []MediaTypeOK
<1>1. MediaInit => MediaInv
  BY MediaAssumption DEF MediaInit, MediaInv, MediaTypeOK, AssetRow
<1>2. MediaInv => MediaTypeOK
  BY DEF MediaInv
<1> QED
  BY <1>1, <1>2, MediaStep, PTL DEF MediaSpec

-----------------------------------------------------------------------------
(* The translation scripts                                                 *)

\* What a run will write into a row that nobody wrote since it read is what it
\* would work out now. (backfillText)
PlanFresh(s) ==
    plan[s] # Nothing => \A d \in DOMAIN plan[s].next \ plan[s].late : plan[s].next[d] = Filled(d)

\* The inductive invariant
BackfillInv == BackfillTypeOK /\ \A s \in Script : PlanFresh(s)

\* A run has texts of rows to write.
LEMMA PlanShape ==
    ASSUME NEW p \in Plan
    PROVE  /\ DOMAIN p.next \subseteq Sheet /\ p.late \subseteq Sheet
           /\ p.next \in [DOMAIN p.next -> Words]
           /\ p # Nothing
BY BackfillAssumption DEF Plan

\* Rows with some texts less are a plan, whoever was late.
LEMMA PlanFrom ==
    ASSUME NEW sheets \in SUBSET Sheet, NEW next \in [sheets -> Words], NEW late \in SUBSET Sheet
    PROVE  /\ [next |-> next, late |-> late] \in Plan
           /\ [next |-> next, late |-> late] # Nothing
<1>1. next \in UNION {[s -> Words] : s \in SUBSET Sheet}
  OBVIOUS
<1> QED
  BY <1>1, BackfillAssumption DEF Plan

\* A text that the scripts fill is a text. (backfillText)
LEMMA FilledTyped ==
    ASSUME BackfillTypeOK, NEW d \in Sheet
    PROVE  Filled(d) \in Words
<1>1. \A p \in Spot : words[d][p] \in Text \cup {Nothing}
  BY DEF BackfillTypeOK, Words
<1>2. \A t \in Text : [t EXCEPT !.en = "added"] \in Text
  BY DEF Text
<1>3. \A t \in Text \cup {Nothing} : backfillText(t) \in Text \cup {Nothing}
  BY <1>2 DEF backfillText
<1> QED
  BY <1>1, <1>3 DEF Filled, Words

\* Once a row has been written every run that is going on was late for it, and
\* what the runs have for the other rows is as fresh as it was.
LEMMA WrittenKeeps ==
    ASSUME NEW d \in Sheet, NEW row \in Words, BackfillTypeOK,
           words' = [words EXCEPT ![d] = row],
           NEW plans \in [Script -> Plan \cup {Nothing}],
           \A s \in Script : plans[s] # Nothing =>
               /\ plan[s] # Nothing
               /\ DOMAIN plans[s].next \subseteq DOMAIN plan[s].next
               /\ plans[s].late = plan[s].late
               /\ \A e \in DOMAIN plans[s].next : plans[s].next[e] = plan[s].next[e],
           plan' = Noticed(plans, d),
           \A s \in Script : PlanFresh(s)
    PROVE  BackfillInv'
<1>1. words' \in [Sheet -> Words] /\ \A e \in Sheet \ {d} : words'[e] = words[e]
  BY DEF BackfillTypeOK
<1>2. \A e \in Sheet \ {d} : Filled(e)' = Filled(e)
  BY <1>1 DEF Filled
<1>3. ASSUME NEW s \in Script
      PROVE  plan'[s] \in Plan \cup {Nothing} /\ PlanFresh(s)'
  <2>1. CASE plans[s] = Nothing
    BY <2>1 DEF Noticed, PlanFresh
  <2>2. CASE plans[s] # Nothing
    <3>1. plans[s] \in Plan
      BY <2>2
    <3>2. plan'[s] = [next |-> plans[s].next, late |-> plans[s].late \cup {d}]
      BY <2>2, <3>1 DEF Noticed, Plan
    <3>3. /\ DOMAIN plans[s].next \in SUBSET Sheet /\ plans[s].late \cup {d} \in SUBSET Sheet
          /\ plans[s].next \in [DOMAIN plans[s].next -> Words]
      BY <3>1, PlanShape
    <3>4. plan'[s] \in Plan
      BY <3>2, <3>3, PlanFrom
    <3>5. plan'[s].next = plans[s].next /\ plan'[s].late = plans[s].late \cup {d}
      BY <3>2
    <3>6. \A e \in DOMAIN plan[s].next \ plan[s].late : plan[s].next[e] = Filled(e)
      BY <2>2 DEF PlanFresh
    <3>7. \A e \in DOMAIN plan'[s].next \ plan'[s].late : plan'[s].next[e] = Filled(e)'
      <4>1. /\ DOMAIN plans[s].next \subseteq DOMAIN plan[s].next
            /\ plans[s].late = plan[s].late
            /\ \A e \in DOMAIN plans[s].next : plans[s].next[e] = plan[s].next[e]
        BY <2>2
      <4> QED
        BY <3>3, <3>5, <3>6, <4>1, <1>2
    <3> QED
      BY <3>4, <3>7 DEF PlanFresh
  <2> QED
    BY <2>1, <2>2
<1>4. plan' = [s \in Script |-> plan'[s]]
  BY DEF Noticed
<1>5. plan' \in [Script -> Plan \cup {Nothing}]
  BY <1>3, <1>4
<1> QED
  BY <1>1, <1>3, <1>5 DEF BackfillInv, BackfillTypeOK

\* The plans once one run has written a row; it has none left or the others.
LEMMA AfterUpdate ==
    ASSUME NEW s \in Script, NEW d \in Sheet, BackfillTypeOK, UpdateTexts(s, d)
    PROVE  \E plans \in [Script -> Plan \cup {Nothing}] :
             /\ plan' = Noticed(plans, d)
             /\ words' = [words EXCEPT ![d] = plan[s].next[d]]
             /\ plan[s].next[d] \in Words
             /\ \A r \in Script \ {s} : plans[r] = plan[r]
             /\ plans[s] # Nothing =>
                    /\ DOMAIN plans[s].next = DOMAIN plan[s].next \ {d}
                    /\ plans[s].late = plan[s].late
                    /\ \A e \in DOMAIN plans[s].next : plans[s].next[e] = plan[s].next[e]
<1> DEFINE left == DOMAIN plan[s].next \ {d}
           rest == [e \in left |-> plan[s].next[e]]
           mine == IF left = {} THEN Nothing ELSE [next |-> rest, late |-> plan[s].late]
           plans == [plan EXCEPT ![s] = mine]
<1>1. plan[s] \in Plan /\ plan[s] # Nothing /\ d \in DOMAIN plan[s].next
  BY DEF UpdateTexts, Planned, BackfillTypeOK
<1>2. /\ DOMAIN plan[s].next \subseteq Sheet /\ plan[s].late \subseteq Sheet
      /\ plan[s].next \in [DOMAIN plan[s].next -> Words]
  BY <1>1, PlanShape
<1>3. rest \in [left -> Words] /\ left \in SUBSET Sheet
  BY <1>2
<1>4. [next |-> rest, late |-> plan[s].late] \in Plan
  BY <1>2, <1>3, PlanFrom
<1>5. mine \in Plan \cup {Nothing}
  BY <1>4
<1>6. [plan[s] EXCEPT !.next = rest] = [next |-> rest, late |-> plan[s].late]
  BY <1>1 DEF Plan
<1>7. plan' = Noticed(plans, d) /\ words' = [words EXCEPT ![d] = plan[s].next[d]]
  BY <1>6, Zenon DEF UpdateTexts
<1>8. plans \in [Script -> Plan \cup {Nothing}]
  BY <1>5 DEF BackfillTypeOK
<1>9. plans[s] = mine /\ \A r \in Script \ {s} : plans[r] = plan[r]
  BY DEF BackfillTypeOK
<1>10. mine # Nothing =>
           /\ DOMAIN mine.next = DOMAIN plan[s].next \ {d}
           /\ mine.late = plan[s].late
           /\ \A e \in DOMAIN mine.next : mine.next[e] = plan[s].next[e]
  OBVIOUS
<1>11. plan[s].next[d] \in Words
  BY <1>1, <1>2
<1> HIDE DEF mine, plans
<1> QED
  BY <1>7, <1>8, <1>9, <1>10, <1>11

\* Every step of the scripts, and of staff, keeps the invariant.
LEMMA BackfillStep == BackfillInv /\ [BackfillNext]_backfillVars => BackfillInv'
<1> SUFFICES ASSUME BackfillInv, [BackfillNext]_backfillVars PROVE BackfillInv'
  OBVIOUS
<1>1. CASE \E s \in Script : ReadTexts(s)
  <2>1. PICK s \in Script : ReadTexts(s)
    BY <1>1
  <2> DEFINE changed == {d \in Sheet : Filled(d) # words[d]}
             next == [d \in changed |-> Filled(d)]
             mine == [next |-> next, late |-> {}]
  <2>2. next \in [changed -> Words] /\ changed \in SUBSET Sheet /\ {} \in SUBSET Sheet
    BY FilledTyped DEF BackfillInv
  <2>3. mine \in Plan
    BY <2>2, PlanFrom
  <2>4. DOMAIN mine.next = changed /\ \A d \in changed : mine.next[d] = Filled(d)
    OBVIOUS
  <2>5. words' = words /\ plan' = [plan EXCEPT ![s] = mine]
    BY <2>1 DEF ReadTexts
  <2>6. \A d \in Sheet : Filled(d)' = Filled(d)
    BY <2>5 DEF Filled
  <2> HIDE DEF mine
  <2>7. BackfillTypeOK'
    BY <2>3, <2>5 DEF BackfillInv, BackfillTypeOK
  <2>8. plan'[s] = mine /\ \A r \in Script \ {s} : plan'[r] = plan[r]
    BY <2>5 DEF BackfillInv, BackfillTypeOK
  <2>9. PlanFresh(s)'
    BY <2>4, <2>6, <2>8 DEF PlanFresh
  <2>10. ASSUME NEW r \in Script \ {s} PROVE PlanFresh(r)'
    <3>1. PlanFresh(r)
      BY DEF BackfillInv
    <3>2. plan[r] # Nothing => DOMAIN plan[r].next \subseteq Sheet
      BY PlanShape DEF BackfillInv, BackfillTypeOK
    <3> QED
      BY <2>6, <2>8, <3>1, <3>2 DEF PlanFresh
  <2> QED
    BY <2>7, <2>9, <2>10 DEF BackfillInv
<1>2. CASE \E s \in Script : DropScript(s)
  BY <1>2 DEF DropScript, BackfillInv, BackfillTypeOK, PlanFresh, Filled
<1>3. CASE \E s \in Script, d \in Sheet : UpdateTexts(s, d)
  <2>1. PICK s \in Script, d \in Sheet : UpdateTexts(s, d)
    BY <1>3
  <2>2. PICK plans \in [Script -> Plan \cup {Nothing}] :
             /\ plan' = Noticed(plans, d)
             /\ words' = [words EXCEPT ![d] = plan[s].next[d]]
             /\ plan[s].next[d] \in Words
             /\ \A r \in Script \ {s} : plans[r] = plan[r]
             /\ plans[s] # Nothing =>
                    /\ DOMAIN plans[s].next = DOMAIN plan[s].next \ {d}
                    /\ plans[s].late = plan[s].late
                    /\ \A e \in DOMAIN plans[s].next : plans[s].next[e] = plan[s].next[e]
    BY <2>1, AfterUpdate DEF BackfillInv
  <2>3. plan[s] # Nothing
    BY <2>1 DEF UpdateTexts, Planned
  <2>4. \A r \in Script : plans[r] # Nothing =>
               /\ plan[r] # Nothing
               /\ DOMAIN plans[r].next \subseteq DOMAIN plan[r].next
               /\ plans[r].late = plan[r].late
               /\ \A e \in DOMAIN plans[r].next : plans[r].next[e] = plan[r].next[e]
    BY <2>2, <2>3
  <2> QED
    BY <2>2, <2>4, WrittenKeeps DEF BackfillInv
<1>4. CASE \E d \in Sheet, p \in Spot, text \in {t \in Text : t.en # "added"} \cup {Nothing} :
               EditText(d, p, text)
  <2>1. PICK d \in Sheet, p \in Spot, text \in {t \in Text : t.en # "added"} \cup {Nothing} :
            EditText(d, p, text)
    BY <1>4
  <2> DEFINE row == [words[d] EXCEPT ![p] = text]
  <2>2. row \in Words
    BY DEF BackfillInv, BackfillTypeOK, Words
  <2>3. words' = [words EXCEPT ![d] = row] /\ plan' = Noticed(plan, d)
    BY <2>1 DEF EditText
  <2> HIDE DEF row
  <2> QED
    BY <2>2, <2>3, WrittenKeeps DEF BackfillInv, BackfillTypeOK
<1>5. CASE UNCHANGED backfillVars
  BY <1>5 DEF backfillVars, BackfillInv, BackfillTypeOK, PlanFresh, Filled
<1> QED
  BY <1>1, <1>2, <1>3, <1>4, <1>5 DEF BackfillNext

\* The plans of the scripts are always as fresh as they can tell.
THEOREM BackfillInvariant == BackfillSpec => []BackfillInv
<1>1. BackfillInit => BackfillInv
  <2> SUFFICES ASSUME BackfillInit PROVE BackfillInv
    OBVIOUS
  <2>1. PICK old \in [Spot -> {t \in Text : t.en = "none"}] : words = [d \in Sheet |-> old]
    BY DEF BackfillInit
  <2>2. old \in Words
    BY DEF Words
  <2> QED
    BY <2>1, <2>2 DEF BackfillInit, BackfillInv, BackfillTypeOK, PlanFresh
<1> QED
  BY <1>1, BackfillStep, PTL DEF BackfillSpec

\* A run of the scripts adds English and takes nothing away from a row that
\* nobody wrote since it read. (backfillText, main)
THEOREM BackfillAddsOnlyAlways == BackfillSpec => [][BackfillAddsOnly]_backfillVars
<1>1. BackfillInv /\ BackfillInv' /\ [BackfillNext]_backfillVars => [BackfillAddsOnly]_backfillVars
  <2> SUFFICES ASSUME BackfillInv, BackfillNext,
                      NEW s \in Script, NEW d \in Sheet,
                      Planned(s, d), words'[d] # words[d], d \notin plan[s].late,
                      plan'[s] = Nothing \/ d \notin DOMAIN plan'[s].next
               PROVE  \A p \in Spot : words'[d][p] = words[d][p]
                                      \/ words'[d][p] = [words[d][p] EXCEPT !.en = "added"]
    BY DEF BackfillAddsOnly
  <2>1. plan[s] # Nothing /\ d \in DOMAIN plan[s].next /\ plan[s] \in Plan
    BY DEF Planned, BackfillInv, BackfillTypeOK
  <2>2. ASSUME NEW plans, plan' = Noticed(plans, d), plans[s] = plan[s]
        PROVE  FALSE
    <3>1. plan'[s] = [plan[s] EXCEPT !.late = @ \cup {d}]
      BY <2>1, <2>2 DEF Noticed
    <3>2. plan[s].late \cup {d} \subseteq Sheet /\ DOMAIN plan[s].next \subseteq Sheet
          /\ plan[s].next \in [DOMAIN plan[s].next -> Words]
      BY <2>1, PlanShape
    <3>3. plan'[s] = [next |-> plan[s].next, late |-> plan[s].late \cup {d}]
      BY <2>1, <3>1 DEF Plan
    <3>4. plan'[s] # Nothing /\ plan'[s].next = plan[s].next
      BY <3>2, <3>3, PlanFrom
    <3> QED
      BY <2>1, <3>4
  <2>3. PICK r \in Script, e \in Sheet : UpdateTexts(r, e)
    <3>1. CASE \E e \in Sheet, p \in Spot,
                  text \in {t \in Text : t.en # "added"} \cup {Nothing} : EditText(e, p, text)
      <4>1. PICK e \in Sheet, p \in Spot,
                 text \in {t \in Text : t.en # "added"} \cup {Nothing} : EditText(e, p, text)
        BY <3>1
      <4>2. words' = [words EXCEPT ![e] = [words[e] EXCEPT ![p] = text]]
        BY <4>1 DEF EditText
      <4>3. e = d
        BY <4>2 DEF BackfillInv, BackfillTypeOK
      <4> QED
        BY <2>2, <4>1, <4>3 DEF EditText
    <3>2. CASE \E r \in Script : ReadTexts(r) \/ DropScript(r)
      BY <3>2 DEF ReadTexts, DropScript
    <3> QED
      BY <3>1, <3>2 DEF BackfillNext
  <2>4. PICK plans \in [Script -> Plan \cup {Nothing}] :
             /\ plan' = Noticed(plans, e)
             /\ words' = [words EXCEPT ![e] = plan[r].next[e]]
             /\ \A q \in Script \ {r} : plans[q] = plan[q]
    BY <2>3, AfterUpdate DEF BackfillInv
  <2>5. e = d
    BY <2>4 DEF BackfillInv, BackfillTypeOK
  <2>6. r = s
    BY <2>2, <2>4, <2>5
  <2>7. words'[d] = Filled(d)
    <3>1. words'[d] = plan[s].next[d]
      BY <2>4, <2>5, <2>6 DEF BackfillInv, BackfillTypeOK
    <3> QED
      BY <2>1, <3>1 DEF BackfillInv, PlanFresh
  <2> QED
    BY <2>7 DEF Filled, backfillText
<1> QED
  BY <1>1, BackfillInvariant, PTL DEF BackfillSpec

-----------------------------------------------------------------------------
(* Backups                                                                 *)

\* A whole backup of the newest stamp, which no pruning has on its list.
Newest(n) ==
    /\ \E f \in Files : f[1] = n /\ disk[f] = "whole"
    /\ \A f \in Present : f[1] <= n
    /\ \A f \in doomed : f[1] < n

\* What a run of backup.sh knows of the files it works on
AtStep ==
    /\ run.step # "idle" => run.stamp \in Stamps
    /\ run.step = "dump" => \A f \in Present : f[1] < run.stamp
    /\ run.step \in {"encrypt", "encrypting"} => disk[Dump] = "whole" /\ Newest(run.stamp)
    /\ run.step = "strip" => disk[Gpg] = "whole" /\ Newest(run.stamp)
    /\ run.step = "upload" => Newest(run.stamp)

\* The inductive invariant: as long as anything is on the disk, the newest stamp
\* has a whole file, and every run that ended well left something there.
BackupsInv ==
    /\ BackupsTypeOK
    /\ \A f \in Present : f[1] <= run.stamp
    /\ (\E n \in Stamps : Newest(n)) \/ (Present = {} /\ doomed = {} /\ ~proven)
    /\ AtStep

\* A file has a stamp, and a run's files are files.
LEMMA FilesStamped ==
    /\ \A f \in Files : f[1] \in Stamps /\ f[1] \in Nat /\ f = <<f[1], f[2]>>
                        /\ f[2] \in {"dump", "gpg"}
    /\ \A n \in Stamps : <<n, "dump">> \in Files /\ <<n, "gpg">> \in Files
    /\ Present \subseteq Files
BY BackupsAssumption DEF Files, Stamps, Present

\* The pruning always keeps the files of the newest stamp.  (KEEP_MIN, at least
\* two, in prune.sh)
LEMMA NewestKept ==
    ASSUME NEW n \in Stamps, \A f \in Present : f[1] <= n,
           NEW f \in Present, f[1] = n
    PROVE  AmongNewest(f)
<1> DEFINE newer == {g \in Present : NewerThan(g, f)}
<1>1. newer \subseteq {<<n, "gpg">>}
  <2> SUFFICES ASSUME NEW g \in Present, NewerThan(g, f) PROVE g = <<n, "gpg">>
    OBVIOUS
  <2>1. g \in Files /\ g[1] <= n /\ g[1] \in Nat /\ n \in Nat
    BY FilesStamped, BackupsAssumption DEF Stamps
  <2>2. g[1] = n /\ g[2] = "gpg"
    BY <2>1 DEF NewerThan
  <2> QED
    BY <2>1, <2>2, FilesStamped
<1>2. IsFiniteSet({<<n, "gpg">>}) /\ Cardinality({<<n, "gpg">>}) = 1
  BY FS_Singleton
<1>3. Cardinality(newer) <= 1 /\ IsFiniteSet(newer)
  BY <1>1, <1>2, FS_Subset
<1>4. Cardinality(newer) \in Nat
  BY <1>3, FS_CardinalityType
<1> HIDE DEF newer
<1>5. Cardinality(newer) < KEEP_MIN
  BY <1>3, <1>4, BackupsAssumption
<1> QED
  BY <1>5 DEF AmongNewest, newer

\* Putting a file of the run's own stamp, when it is the newest or there is none
\* as new, makes or keeps it the newest.
LEMMA PutKeeps ==
    ASSUME BackupsInv, NEW f \in Files, f[1] = run.stamp, NEW content \in {"cut", "whole"},
           disk' = [disk EXCEPT ![f] = content], run'.stamp = run.stamp, doomed' = doomed,
           run.step = "dump" \/ Newest(run.stamp),
           content = "whole" \/ (f[2] = "gpg" /\ disk[Dump] = "whole")
    PROVE  Newest(run.stamp)' /\ \A g \in Present' : g[1] <= run'.stamp
<1>1. run.stamp \in Stamps /\ run.stamp \in Nat
  BY FilesStamped
<1>2. \A g \in Files : disk'[g] = IF g = f THEN content ELSE disk[g]
  BY DEF BackupsInv, BackupsTypeOK
<1>3. \A g \in Present' : g \in Present \/ g = f
  BY <1>2 DEF Present
<1>4. \A g \in Present : g[1] <= run.stamp
  BY DEF BackupsInv
<1>5. \A g \in Present' : g[1] <= run.stamp
  BY <1>1, <1>3, <1>4
<1>6. \A g \in doomed : g[1] < run.stamp
  <2>1. CASE Newest(run.stamp)
    BY <2>1 DEF Newest
  <2>2. CASE run.step = "dump"
    <3>1. \A g \in Present : g[1] < run.stamp
      BY <2>2 DEF BackupsInv, AtStep
    <3>2. CASE \E n \in Stamps : Newest(n)
      <4>1. PICK n \in Stamps : Newest(n)
        BY <3>2
      <4>2. n < run.stamp
        BY <3>1, <4>1, FilesStamped DEF Newest, Present
      <4>3. \A g \in doomed : g \in Files /\ g[1] < n
        BY <4>1 DEF Newest, BackupsInv, BackupsTypeOK
      <4> QED
        BY <1>1, <4>2, <4>3, FilesStamped, BackupsAssumption DEF Stamps
    <3>3. CASE doomed = {}
      BY <3>3
    <3> QED
      BY <3>2, <3>3 DEF BackupsInv
  <2> QED
    BY <2>1, <2>2
<1>7. \E g \in Files : g[1] = run.stamp /\ disk'[g] = "whole"
  <2>1. CASE content = "whole"
    BY <1>2, <2>1
  <2>2. CASE f[2] = "gpg" /\ disk[Dump] = "whole"
    <3>1. Dump \in Files /\ Dump[1] = run.stamp /\ Dump # f
      BY <1>1, <2>2, FilesStamped DEF Dump
    <3> QED
      BY <1>2, <2>2, <3>1
  <2> QED
    BY <2>1, <2>2
<1> QED
  BY <1>5, <1>6, <1>7 DEF Newest

\* Taking away a file that pruning may remove, or a plain text that is encrypted,
\* leaves the newest stamp its whole file.
LEMMA RemoveKeeps ==
    ASSUME BackupsInv, NEW n \in Stamps, Newest(n), NEW f \in Files,
           disk' = [disk EXCEPT ![f] = "none"], doomed' \subseteq doomed,
           f \in doomed \/ (\E g \in Files \ {f} : g[1] = n /\ disk[g] = "whole")
    PROVE  Newest(n)'
<1>1. \A g \in Files : disk'[g] = IF g = f THEN "none" ELSE disk[g]
  BY DEF BackupsInv, BackupsTypeOK
<1>2. Present' \subseteq Present
  BY <1>1 DEF Present
<1>3. f \in doomed => f[1] # n
  BY FilesStamped DEF Newest
<1>4. \E g \in Files \ {f} : g[1] = n /\ disk[g] = "whole"
  BY <1>3 DEF Newest
<1> QED
  BY <1>1, <1>2, <1>4 DEF Newest

\* The types hold after every step.
LEMMA BackupsTyped == BackupsInv /\ [BackupsNext]_backupVars => BackupsTypeOK'
<1> SUFFICES ASSUME BackupsInv, [BackupsNext]_backupVars PROVE BackupsTypeOK'
  OBVIOUS
<1>0. /\ run = [stamp |-> run.stamp, step |-> run.step] /\ run.stamp \in 0..BackupRuns
      /\ run.step \in Steps
      /\ run.step # "idle" => run.stamp \in Stamps /\ Dump \in Files /\ Gpg \in Files
  BY FilesStamped DEF BackupsInv, BackupsTypeOK, AtStep, Dump, Gpg
<1>1. CASE StartBackup
  BY <1>0, <1>1, BackupsAssumption DEF StartBackup, BackupsInv, BackupsTypeOK, Steps
<1>2. ASSUME NEW f \in Files, NEW content \in {"none", "cut", "whole"}, NEW step \in Steps,
             disk' = [disk EXCEPT ![f] = content], f[2] = "dump" => content # "cut",
             written' \in [Files -> 0..BackupDays], run' \in {run, [run EXCEPT !.step = step]},
             doomed' \subseteq doomed, UNCHANGED <<environment, date, remote, proven>>
      PROVE  BackupsTypeOK'
  <2>1. run' \in [stamp : 0..BackupRuns, step : Steps]
    BY <1>0, <1>2
  <2>2. disk' \in [Files -> {"none", "cut", "whole"}]
    BY <1>2 DEF BackupsInv, BackupsTypeOK
  <2>3. \A n \in Stamps : disk'[<<n, "dump">>] # "cut"
    BY <1>2, FilesStamped DEF BackupsInv, BackupsTypeOK
  <2> QED
    BY <1>2, <2>1, <2>2, <2>3 DEF BackupsInv, BackupsTypeOK
<1>3. CASE RenameDump \/ OpenGpg \/ CloseGpg
  <2>1. PICK f \in {Dump, Gpg}, content \in {"cut", "whole"}, step \in Steps :
             /\ run.step # "idle" /\ Put(f, content) /\ GoOn(step)
             /\ f = Dump => content = "whole"
             /\ UNCHANGED <<environment, date, doomed, remote, proven>>
    <3>1. CASE RenameDump
      BY <3>1 DEF RenameDump, Steps
    <3>2. CASE OpenGpg
      BY <3>2 DEF OpenGpg, Steps, Dump, Gpg
    <3>3. CASE CloseGpg
      BY <3>3 DEF CloseGpg, Steps
    <3> QED
      BY <1>3, <3>1, <3>2, <3>3
  <2>2. f \in Files /\ (f[2] = "dump" => content # "cut")
    BY <1>0, <2>1 DEF Dump, Gpg
  <2>3. written' \in [Files -> 0..BackupDays]
    BY <2>1 DEF Put, BackupsInv, BackupsTypeOK
  <2> QED
    BY <1>2, <2>1, <2>2, <2>3 DEF Put, GoOn
<1>4. CASE RemovePlainText
  <2>1. "upload" \in Steps /\ written \in [Files -> 0..BackupDays]
    BY DEF Steps, BackupsInv, BackupsTypeOK
  <2> QED
    BY <1>0, <1>2, <1>4, <2>1 DEF RemovePlainText, GoOn
<1>5. CASE FinishBackup
  BY <1>0, <1>5 DEF FinishBackup, GoOn, BackupsInv, BackupsTypeOK, Steps
<1>6. CASE AbortBackup
  BY <1>0, <1>6 DEF AbortBackup, GoOn, BackupsInv, BackupsTypeOK, Steps
<1>7. CASE ListFiles
  BY <1>7 DEF ListFiles, Present, BackupsInv, BackupsTypeOK
<1>8. CASE \E f \in Files : RemoveOld(f)
  <2>1. PICK f \in Files : RemoveOld(f)
    BY <1>8
  <2>2. "idle" \in Steps /\ written \in [Files -> 0..BackupDays]
    BY DEF Steps, BackupsInv, BackupsTypeOK
  <2> QED
    BY <1>2, <2>1, <2>2 DEF RemoveOld
<1>9. CASE (\E f \in Files : KeepRecent(f)) \/ AbortPrune
  BY <1>9 DEF KeepRecent, AbortPrune, BackupsInv, BackupsTypeOK
<1>10. CASE NextDay
  <2>1. date' \in 0..BackupDays
    BY <1>10, BackupsAssumption DEF NextDay, BackupsInv, BackupsTypeOK
  <2> QED
    BY <1>10, <2>1 DEF NextDay, BackupsInv, BackupsTypeOK
<1>11. CASE UNCHANGED backupVars
  BY <1>11 DEF backupVars, BackupsInv, BackupsTypeOK
<1> QED
  BY <1>1, <1>3, <1>4, <1>5, <1>6, <1>7, <1>8, <1>9, <1>10, <1>11
  DEF BackupsNext, BackupStep, PruneStep

\* Every step of the two scripts keeps the invariant.
LEMMA BackupsStep == BackupsInv /\ [BackupsNext]_backupVars => BackupsInv'
<1> SUFFICES ASSUME BackupsInv, [BackupsNext]_backupVars PROVE BackupsInv'
  OBVIOUS
<1>0. BackupsTypeOK'
  BY BackupsTyped
<1>1. CASE StartBackup
  <2>1. /\ run' = [stamp |-> run.stamp + 1, step |-> "dump"] /\ run.stamp \in Nat
        /\ run.stamp + 1 \in Stamps
        /\ UNCHANGED <<disk, doomed, proven>>
    BY <1>1, BackupsAssumption DEF StartBackup, BackupsInv, BackupsTypeOK, Stamps
  <2>2. \A f \in Present : f[1] \in Nat /\ f[1] <= run.stamp
    BY FilesStamped DEF BackupsInv
  <2>3. \A f \in Present' : f[1] < run'.stamp /\ f[1] <= run'.stamp
    BY <2>1, <2>2 DEF Present
  <2>4. AtStep'
    BY <2>1, <2>3 DEF AtStep
  <2>5. (\E n \in Stamps : Newest(n)') \/ (Present' = {} /\ doomed' = {} /\ ~proven')
    BY <2>1 DEF BackupsInv, Newest, Present
  <2> QED
    BY <1>0, <2>3, <2>4, <2>5 DEF BackupsInv
<1>2. CASE RenameDump
  <2>1. run.stamp \in Stamps /\ Dump \in Files /\ Dump[1] = run.stamp
    BY <1>2, FilesStamped DEF RenameDump, BackupsInv, AtStep, Dump
  <2>2. /\ disk' = [disk EXCEPT ![Dump] = "whole"] /\ run'.stamp = run.stamp
        /\ run'.step \in {"encrypt", "upload"} /\ doomed' = doomed
    BY <1>2 DEF RenameDump, Put, GoOn, BackupsInv, BackupsTypeOK
  <2>3. Newest(run.stamp)' /\ \A g \in Present' : g[1] <= run'.stamp
    BY <1>2, <2>1, <2>2, PutKeeps DEF RenameDump
  <2>4. disk'[Dump'] = "whole"
    BY <2>1, <2>2 DEF Dump, BackupsInv, BackupsTypeOK
  <2> QED
    BY <1>0, <2>1, <2>2, <2>3, <2>4 DEF BackupsInv, AtStep
<1>3. CASE OpenGpg
  <2>1. /\ run.stamp \in Stamps /\ Dump \in Files /\ Gpg \in Files /\ Gpg # Dump
        /\ Gpg[1] = run.stamp /\ Gpg[2] = "gpg" /\ disk[Dump] = "whole" /\ Newest(run.stamp)
    BY <1>3, FilesStamped DEF OpenGpg, BackupsInv, AtStep, Dump, Gpg
  <2>2. /\ disk' = [disk EXCEPT ![Gpg] = "cut"] /\ run'.stamp = run.stamp
        /\ run'.step = "encrypting" /\ doomed' = doomed
    BY <1>3 DEF OpenGpg, Put, GoOn, BackupsInv, BackupsTypeOK
  <2>3. Newest(run.stamp)' /\ \A g \in Present' : g[1] <= run'.stamp
    BY <2>1, <2>2, PutKeeps
  <2>4. disk'[Dump'] = "whole"
    BY <2>1, <2>2 DEF Dump, BackupsInv, BackupsTypeOK
  <2> QED
    BY <1>0, <2>1, <2>2, <2>3, <2>4 DEF BackupsInv, AtStep
<1>4. CASE CloseGpg
  <2>1. /\ run.stamp \in Stamps /\ Gpg \in Files /\ Gpg[1] = run.stamp /\ Newest(run.stamp)
    BY <1>4, FilesStamped DEF CloseGpg, BackupsInv, AtStep, Gpg
  <2>2. /\ disk' = [disk EXCEPT ![Gpg] = "whole"] /\ run'.stamp = run.stamp
        /\ run'.step = "strip" /\ doomed' = doomed
    BY <1>4 DEF CloseGpg, Put, GoOn, BackupsInv, BackupsTypeOK
  <2>3. Newest(run.stamp)' /\ \A g \in Present' : g[1] <= run'.stamp
    BY <2>1, <2>2, PutKeeps
  <2>4. disk'[Gpg'] = "whole"
    BY <2>1, <2>2 DEF Gpg, BackupsInv, BackupsTypeOK
  <2> QED
    BY <1>0, <2>1, <2>2, <2>3, <2>4 DEF BackupsInv, AtStep
<1>5. CASE RemovePlainText
  <2>1. /\ run.stamp \in Stamps /\ Dump \in Files /\ Gpg \in Files /\ Gpg # Dump
        /\ Gpg[1] = run.stamp /\ disk[Gpg] = "whole" /\ Newest(run.stamp)
    BY <1>5, FilesStamped DEF RemovePlainText, BackupsInv, AtStep, Dump, Gpg
  <2>2. /\ disk' = [disk EXCEPT ![Dump] = "none"] /\ run'.stamp = run.stamp
        /\ run'.step = "upload" /\ doomed' = doomed
    BY <1>5 DEF RemovePlainText, GoOn, BackupsInv, BackupsTypeOK
  <2>3. \A n \in {run.stamp} : Newest(n)'
    BY <2>1, <2>2, RemoveKeeps
  <2>4. Newest(run.stamp)'
    BY <2>2, <2>3 DEF Newest
  <2>5. \A g \in Present' : g[1] <= run'.stamp
    BY <2>2, <2>4 DEF Newest
  <2> QED
    BY <1>0, <2>1, <2>2, <2>4, <2>5 DEF BackupsInv, AtStep
<1>6. CASE FinishBackup
  <2>1. run.stamp \in Stamps /\ Newest(run.stamp)
    BY <1>6 DEF FinishBackup, BackupsInv, AtStep
  <2>2. run'.stamp = run.stamp /\ run'.step = "idle" /\ UNCHANGED <<disk, doomed>>
    BY <1>6 DEF FinishBackup, GoOn, BackupsInv, BackupsTypeOK
  <2>3. Newest(run.stamp)' /\ \A g \in Present' : g[1] <= run'.stamp
    BY <2>1, <2>2 DEF Newest, Present
  <2> QED
    BY <1>0, <2>1, <2>2, <2>3 DEF BackupsInv, AtStep
<1>7. CASE AbortBackup
  <2>1. run'.stamp = run.stamp /\ run'.step = "idle" /\ UNCHANGED <<disk, doomed, proven>>
    BY <1>7 DEF AbortBackup, GoOn, BackupsInv, BackupsTypeOK
  <2>2. (\E n \in Stamps : Newest(n)') \/ (Present' = {} /\ doomed' = {} /\ ~proven')
    BY <2>1 DEF BackupsInv, Newest, Present
  <2>3. \A g \in Present' : g[1] <= run'.stamp
    BY <2>1 DEF BackupsInv, Present
  <2> QED
    BY <1>0, <2>1, <2>2, <2>3 DEF BackupsInv, AtStep
<1>8. CASE ListFiles
  <2>1. UNCHANGED <<disk, run, proven>> /\ doomed' = {f \in Present : ~AmongNewest(f)}
    BY <1>8 DEF ListFiles
  <2>2. \A n \in Stamps : Newest(n) => Newest(n)'
    <3> SUFFICES ASSUME NEW n \in Stamps, Newest(n) PROVE Newest(n)'
      OBVIOUS
    <3>1. \A f \in doomed' : f \in Present /\ f[1] # n /\ f[1] <= n
      BY <2>1, NewestKept DEF Newest
    <3>2. \A f \in doomed' : f[1] < n
      BY <3>1, FilesStamped, BackupsAssumption DEF Stamps
    <3> QED
      BY <2>1, <3>2 DEF Newest, Present
  <2>3. Present' = Present /\ (Present = {} => doomed' = {})
    BY <2>1 DEF Present
  <2>4. (\E n \in Stamps : Newest(n)') \/ (Present' = {} /\ doomed' = {} /\ ~proven')
    BY <2>1, <2>2, <2>3 DEF BackupsInv
  <2>5. AtStep'
    <3>1. run.step \in {"encrypt", "encrypting", "strip", "upload"} =>
              \A n \in {run.stamp} : n \in Stamps /\ Newest(n) => Newest(n)'
      BY <2>2
    <3>2. /\ run.step \in {"encrypt", "encrypting", "strip", "upload"} => Newest(run.stamp)'
          /\ \A f \in Present' : f \in Present
      BY <2>1, <2>3, <3>1 DEF AtStep, BackupsInv, Newest
    <3> QED
      BY <2>1, <3>2 DEF AtStep, BackupsInv, Dump, Gpg
  <2>6. \A g \in Present' : g[1] <= run'.stamp
    BY <2>1, <2>3 DEF BackupsInv
  <2> QED
    BY <1>0, <2>4, <2>5, <2>6 DEF BackupsInv
<1>9. CASE \E f \in Files : RemoveOld(f)
  <2>1. PICK f \in Files : RemoveOld(f)
    BY <1>9
  <2>2. /\ disk' = [disk EXCEPT ![f] = "none"] /\ doomed' \subseteq doomed /\ f \in doomed
        /\ UNCHANGED <<run, proven>>
    BY <2>1 DEF RemoveOld
  <2>3. \A n \in Stamps : Newest(n) => Newest(n)' /\ f[1] # n
    <3> SUFFICES ASSUME NEW n \in Stamps, Newest(n) PROVE Newest(n)' /\ f[1] # n
      OBVIOUS
    <3>1. f[1] < n /\ f[1] \in Nat /\ n \in Nat
      BY <2>2, FilesStamped, BackupsAssumption DEF Newest, Stamps
    <3>2. Newest(n)'
      BY <2>2, RemoveKeeps
    <3> QED
      BY <3>1, <3>2
  <2>4. \A g \in Files \ {f} : disk'[g] = disk[g]
    BY <2>2 DEF BackupsInv, BackupsTypeOK
  <2>5. Present' \subseteq Present
    BY <2>2, <2>4 DEF Present, BackupsInv, BackupsTypeOK
  <2>6. \E n \in Stamps : Newest(n)'
    BY <2>2, <2>3 DEF BackupsInv
  <2>7. AtStep'
    <3>1. run.step # "idle" => Dump \in Files /\ Gpg \in Files
                               /\ Dump[1] = run.stamp /\ Gpg[1] = run.stamp
      BY FilesStamped DEF BackupsInv, AtStep, Dump, Gpg
    <3>2. run.step \in {"encrypt", "encrypting", "strip", "upload"} =>
              run.stamp \in Stamps /\ Newest(run.stamp)
      BY DEF BackupsInv, AtStep
    <3>3. run.step \in {"encrypt", "encrypting", "strip", "upload"} =>
              Newest(run.stamp)' /\ Dump # f /\ Gpg # f
      <4>1. \A n \in {run.stamp} : n \in Stamps /\ Newest(n) => Newest(n)'
        BY <2>3
      <4> QED
        BY <2>2, <2>3, <3>1, <3>2, <4>1 DEF Newest
    <3> QED
      BY <2>2, <2>4, <2>5, <3>1, <3>3 DEF BackupsInv, AtStep, Dump, Gpg
  <2>8. \A g \in Present' : g[1] <= run'.stamp
    BY <2>2, <2>5 DEF BackupsInv
  <2> QED
    BY <1>0, <2>6, <2>7, <2>8 DEF BackupsInv
<1>10. CASE (\E f \in Files : KeepRecent(f)) \/ AbortPrune \/ NextDay \/ UNCHANGED backupVars
  <2>1. UNCHANGED <<disk, run, proven>> /\ doomed' \subseteq doomed
    BY <1>10 DEF KeepRecent, AbortPrune, NextDay, backupVars
  <2>2. \A n : Newest(n) => \A m \in {n} : Newest(m)'
    BY <2>1 DEF Newest, Present
  <2>3. Present' = Present /\ \A g \in Present' : g[1] <= run'.stamp
    BY <2>1 DEF BackupsInv, Present
  <2>4. (\E n \in Stamps : Newest(n)') \/ (Present' = {} /\ doomed' = {} /\ ~proven')
    BY <2>1, <2>2, <2>3 DEF BackupsInv
  <2>5. AtStep'
    <3>1. /\ run.step \in {"encrypt", "encrypting", "strip", "upload"} => Newest(run.stamp)'
          /\ \A f \in Present' : f \in Present
      BY <2>1, <2>2, <2>3 DEF AtStep, BackupsInv, Newest
    <3> QED
      BY <2>1, <3>1 DEF AtStep, BackupsInv, Dump, Gpg
  <2> QED
    BY <1>0, <2>3, <2>4, <2>5 DEF BackupsInv
<1> QED
  BY <1>1, <1>2, <1>3, <1>4, <1>5, <1>6, <1>7, <1>8, <1>9, <1>10
  DEF BackupsNext, BackupStep, PruneStep

\* As long as there is anything in the backup directory, its newest stamp has a
\* whole file, whatever failed and whatever was pruned. (backup.sh, prune.sh)
THEOREM BackupsInvariant == BackupsSpec => []BackupsInv
<1>1. BackupsInit => BackupsInv
  <2> SUFFICES ASSUME BackupsInit PROVE BackupsInv
    OBVIOUS
  <2>1. BackupsTypeOK
    <3>1. 0 \in 0..BackupDays /\ 0 \in 0..BackupRuns
      BY BackupsAssumption
    <3>2. run \in [stamp : 0..BackupRuns, step : Steps]
      BY <3>1 DEF BackupsInit, Steps
    <3>3. \A n \in Stamps : disk[<<n, "dump">>] # "cut"
      BY FilesStamped DEF BackupsInit
    <3> QED
      BY <3>1, <3>2, <3>3 DEF BackupsInit, BackupsTypeOK
  <2>2. Present = {}
    BY DEF BackupsInit, Present
  <2> QED
    BY <2>1, <2>2 DEF BackupsInit, BackupsInv, AtStep
<1> QED
  BY <1>1, BackupsStep, PTL DEF BackupsSpec

\* Once a backup has been made, a whole one stays on the disk, however many runs
\* fail and whatever is pruned. (backup.sh, prune.sh)
THEOREM AWholeBackupAlways == BackupsSpec => []AWholeBackupSurvives
<1>1. BackupsInv => AWholeBackupSurvives
  BY DEF BackupsInv, Newest, AWholeBackupSurvives
<1> QED
  BY <1>1, BackupsInvariant, PTL

-----------------------------------------------------------------------------
(* Bulk deletion                                                           *)

\* The ids of the failures
IdsOf(failed) == {f[1] : f \in failed}

\* Those of them that an error of the system ended
Unanswered(failed) == {f[1] : f \in {g \in failed : g[2] = 500}}

\* The ids from one place of the list to another
Between(ids, i, j) == {ids[k] : k \in i..j}

\* The answer so far: it is about the ids up to the one that is worked on, each
\* of them once.
ReportInv(p) ==
    /\ p.at \in 1 .. Len(p.ids) + 1
    /\ IsFiniteSet(p.succeeded) /\ IsFiniteSet(p.failed)
    /\ p.succeeded \cup IdsOf(p.failed) = Between(p.ids, 1, p.at - 1)
    /\ Cardinality(p.succeeded) + Cardinality(p.failed) = p.at - 1
    /\ p.succeeded \subseteq p.touched
    /\ p.touched \subseteq p.succeeded \cup Unanswered(p.failed)
    /\ IF p.step = "end" THEN p.remaining = Between(p.ids, p.at, Len(p.ids))
                         ELSE p.at <= Len(p.ids) /\ p.remaining = {}

\* At most one record is deleted once the right is lost, and none before the
\* right has been read again.
OverrunInv(b) ==
    batch[b] # NoBatch =>
        /\ batch[b].overrun \in {0, 1}
        /\ batch[b].step = "delete" => batch[b].overrun = 0
        /\ batch[b].step = "authorize" /\ entitled[b] => batch[b].overrun = 0

\* The inductive invariant
BulkInv ==
    /\ BulkTypeOK
    /\ batch \in [Batcher -> Batch \cup {NoBatch}]
    /\ \A b \in Batcher : batch[b] # NoBatch => ReportInv(batch[b])
    /\ \A b \in Batcher : OverrunInv(b)

\* A list of ids has each once.
LEMMA IdListShape ==
    ASSUME NEW ids \in IdLists
    PROVE  /\ Len(ids) \in Nat /\ Len(ids) >= 1 /\ DOMAIN ids = 1..Len(ids)
           /\ ids \in [1..Len(ids) -> Record]
           /\ \A i, j \in 1..Len(ids) : ids[i] = ids[j] => i = j
<1>1. PICK n \in 1..Cardinality(Record) : ids \in [1..n -> Record]
  BY DEF IdLists
<1>2. Cardinality(Record) \in Nat
  BY BulkAssumption, FS_CardinalityType
<1>3. n \in Nat /\ n >= 1
  BY <1>2
<1>4. ids \in Seq(Record)
  BY <1>1, <1>3, SeqDef
<1>5. Len(ids) \in Nat /\ DOMAIN ids = 1..Len(ids) /\ ids \in [1..Len(ids) -> Record]
  BY <1>4, LenProperties
<1>6. Len(ids) >= 1
  <2>1. 1 \in DOMAIN ids
    BY <1>1, <1>3
  <2> QED
    BY <2>1, <1>5
<1>7. \A i, j \in DOMAIN ids : i # j => ids[i] # ids[j]
  BY DEF IdLists
<1> QED
  BY <1>5, <1>6, <1>7

\* A part of a list has as many ids as places.
LEMMA BetweenCardinality ==
    ASSUME NEW ids \in IdLists, NEW i \in 1 .. Len(ids) + 1
    PROVE  /\ IsFiniteSet(Between(ids, i, Len(ids)))
           /\ Cardinality(Between(ids, i, Len(ids))) = Len(ids) + 1 - i
<1> DEFINE S == i..Len(ids)
           T == Between(ids, i, Len(ids))
           F == [k \in S |-> ids[k]]
<1>1. Len(ids) \in Nat /\ i \in Nat /\ i >= 1 /\ i <= Len(ids) + 1
  BY IdListShape
<1>2. S \subseteq 1..Len(ids)
  BY <1>1
<1>3. F \in [S -> T]
  BY DEF Between
<1>4. \A k, l \in S : F[k] = F[l] => k = l
  BY <1>2, IdListShape
<1>5. \A t \in T : \E k \in S : F[k] = t
  BY DEF Between
<1>6. IsFiniteSet(S) /\ Cardinality(S) = Len(ids) + 1 - i
  <2>1. i \in Int /\ Len(ids) \in Int
    BY <1>1
  <2>2. IsFiniteSet(S) /\ Cardinality(S) = IF i > Len(ids) THEN 0 ELSE Len(ids) - i + 1
    BY <2>1, FS_Interval
  <2> QED
    BY <1>1, <2>2
<1> HIDE DEF S, T, F
<1>7. F \in Injection(S, T) /\ F \in Surjection(S, T)
  BY <1>3, <1>4, <1>5, Fun_IsInj, Fun_IsSurj
<1>8. F \in Bijection(S, T)
  BY <1>7 DEF Bijection
<1>9. ExistsBijection(S, T)
  BY <1>8, Fun_ExistsBij
<1>10. IsFiniteSet(T) /\ Cardinality(T) = Cardinality(S)
  BY <1>6, <1>9, FS_Bijection
<1> QED
  BY <1>6, <1>10 DEF T

\* The ids up to one place are those before it and the one that is there.
LEMMA BetweenNext ==
    ASSUME NEW ids, NEW at \in Nat, at >= 1
    PROVE  Between(ids, 1, at) = Between(ids, 1, at - 1) \cup {ids[at]}
<1>1. \A k : k \in 1..at <=> k \in 1..at - 1 \/ k = at
  OBVIOUS
<1> QED
  BY <1>1, Zenon DEF Between

\* One more record is counted once.
LEMMA OneMoreSucceeded ==
    ASSUME NEW succeeded, NEW x, x \notin succeeded, IsFiniteSet(succeeded)
    PROVE  /\ IsFiniteSet(succeeded \cup {x})
           /\ Cardinality(succeeded \cup {x}) = Cardinality(succeeded) + 1
BY FS_AddElement

\* The ids of failures are theirs.
LEMMA FailureNamed ==
    ASSUME NEW failed, NEW x, NEW status, x \notin IdsOf(failed)
    PROVE  <<x, status>> \notin failed
<1> SUFFICES ASSUME <<x, status>> \in failed PROVE FALSE
  OBVIOUS
<1>1. <<x, status>>[1] \in IdsOf(failed)
  BY DEF IdsOf
<1> QED
  BY <1>1

\* What working on one id makes of the answer
Advances(p, q, status) ==
    LET x    == p.ids[p.at]
        rest == Between(p.ids, p.at + 1, Len(p.ids))
    IN  /\ q.ids = p.ids
        /\ q.at = p.at + 1
        /\ \/ /\ q.succeeded = p.succeeded \cup {x}
              /\ q.failed = p.failed
              /\ q.touched = p.touched \cup {x}
           \/ /\ q.succeeded = p.succeeded
              /\ q.failed = p.failed \cup {<<x, status>>}
              /\ q.touched = p.touched \/ (status = 500 /\ q.touched = p.touched \cup {x})
        /\ IF q.step = "end" THEN q.remaining = rest ELSE q.remaining = {} /\ rest # {}

\* Working on one more id, which is deleted or fails, keeps the answer true.
LEMMA WorkedOn ==
    ASSUME NEW p \in Batch, ReportInv(p), p.step # "end", NEW q, NEW status,
           Advances(p, q, status)
    PROVE  ReportInv(q)
<1>1. p.ids \in IdLists
  BY DEF Batch
<1>2. /\ Len(p.ids) \in Nat /\ p.at \in Nat /\ p.at >= 1 /\ p.at <= Len(p.ids)
      /\ \A i, j \in 1..Len(p.ids) : p.ids[i] = p.ids[j] => i = j
  BY <1>1, IdListShape DEF ReportInv
<1>3. PICK x : x = p.ids[p.at]
  OBVIOUS
<1>4. PICK before : before = Between(p.ids, 1, p.at - 1)
  OBVIOUS
<1>5. x \notin before
  BY <1>2, <1>3, <1>4 DEF Between
<1>6. Between(q.ids, 1, q.at - 1) = before \cup {x}
  <2>1. q.at - 1 = p.at
    BY <1>2 DEF Advances
  <2>2. q.ids = p.ids
    BY DEF Advances
  <2> QED
    BY <1>2, <1>3, <1>4, <2>1, <2>2, BetweenNext
<1>7. q.at \in 1 .. Len(q.ids) + 1
  BY <1>2 DEF Advances
<1>8. /\ IsFiniteSet(p.succeeded) /\ IsFiniteSet(p.failed)
      /\ p.succeeded \cup IdsOf(p.failed) = before
      /\ Cardinality(p.succeeded) + Cardinality(p.failed) = p.at - 1
      /\ p.succeeded \subseteq p.touched
      /\ p.touched \subseteq p.succeeded \cup Unanswered(p.failed)
  BY <1>4 DEF ReportInv
<1>9. x \notin p.succeeded /\ x \notin IdsOf(p.failed)
  BY <1>5, <1>8
<1>11. /\ IsFiniteSet(q.succeeded) /\ IsFiniteSet(q.failed)
       /\ q.succeeded \cup IdsOf(q.failed) = before \cup {x}
       /\ Cardinality(q.succeeded) + Cardinality(q.failed) = q.at - 1
  <2>1. PICK S, G, S2, G2 :
             /\ S = p.succeeded /\ G = p.failed
             /\ S2 = q.succeeded /\ G2 = q.failed
    OBVIOUS
  <2>2. /\ x \notin S /\ x \notin IdsOf(G)
        /\ IsFiniteSet(S) /\ IsFiniteSet(G) /\ Cardinality(S) + Cardinality(G) = p.at - 1
        /\ S \cup IdsOf(G) = before
    BY <1>2, <1>8, <1>9, <2>1
  <2>3. \/ S2 = S \cup {x} /\ G2 = G
        \/ S2 = S /\ G2 = G \cup {<<x, status>>}
    BY <1>3, <2>1 DEF Advances
  <2>4. /\ IsFiniteSet(S2) /\ IsFiniteSet(G2)
        /\ S2 \cup IdsOf(G2) = (S \cup IdsOf(G)) \cup {x}
        /\ Cardinality(S2) + Cardinality(G2) = Cardinality(S) + Cardinality(G) + 1
    <3>1. Cardinality(S) \in Nat /\ Cardinality(G) \in Nat
      BY <2>2, FS_CardinalityType
    <3>2. CASE S2 = S \cup {x} /\ G2 = G
      <4>1. IsFiniteSet(S \cup {x}) /\ Cardinality(S \cup {x}) = Cardinality(S) + 1
        BY <2>2, OneMoreSucceeded
      <4>2. IsFiniteSet(S2) /\ Cardinality(S2) = Cardinality(S) + 1
        BY <3>2, <4>1, Zenon
      <4> QED
        BY <2>2, <3>1, <3>2, <4>2
    <3>3. CASE S2 = S /\ G2 = G \cup {<<x, status>>}
      <4>1. PICK f : f = <<x, status>>
        OBVIOUS
      <4>2. /\ IsFiniteSet(G2) /\ Cardinality(G2) = Cardinality(G) + 1
            /\ IdsOf(G2) = IdsOf(G) \cup {x}
        <5>1. f \notin G /\ G2 = G \cup {f}
          BY <2>2, <3>3, <4>1, FailureNamed, Zenon
        <5>2. IsFiniteSet(G2) /\ Cardinality(G2) = Cardinality(G) + 1
          BY <2>2, <5>1, FS_AddElement
        <5>3. \A g : g \in G2 <=> g \in G \/ g = <<x, status>>
          BY <3>3
        <5>4. \A y : y \in IdsOf(G2) <=> y \in IdsOf(G) \/ y = x
          <6>1. <<x, status>>[1] = x
            OBVIOUS
          <6> QED
            BY <5>3, <6>1, Zenon DEF IdsOf
        <5>5. IdsOf(G2) = IdsOf(G) \cup {x}
          BY <5>4
        <5> QED
          BY <5>2, <5>5
      <4>3. Cardinality(S2) + Cardinality(G2) = Cardinality(S) + Cardinality(G) + 1
        <5>1. Cardinality(S2) = Cardinality(S)
          BY <3>3
        <5> QED
          BY <3>1, <4>2, <5>1
      <4>4. S2 \cup IdsOf(G2) = (S \cup IdsOf(G)) \cup {x}
        <5>1. S2 = S
          BY <3>3
        <5> QED
          BY <4>2, <5>1
      <4>5. IsFiniteSet(S2)
        BY <2>2, <3>3
      <4> QED
        BY <4>2, <4>3, <4>4, <4>5
    <3> QED
      BY <2>3, <3>2, <3>3
  <2>5. Cardinality(q.succeeded) + Cardinality(q.failed) = (p.at - 1) + 1
    BY <2>1, <2>2, <2>4, Zenon
  <2>6. q.succeeded \cup IdsOf(q.failed) = before \cup {x}
    BY <2>1, <2>2, <2>4, Zenon
  <2>7. IsFiniteSet(q.succeeded) /\ IsFiniteSet(q.failed)
    BY <2>1, <2>4, Zenon
  <2> QED
    BY <1>2, <2>5, <2>6, <2>7 DEF Advances
<1>12. /\ q.succeeded \subseteq q.touched
       /\ q.touched \subseteq q.succeeded \cup Unanswered(q.failed)
  <2>1. CASE /\ q.succeeded = p.succeeded \cup {x}
             /\ q.failed = p.failed
             /\ q.touched = p.touched \cup {x}
    BY <1>8, <2>1
  <2>2. CASE /\ q.succeeded = p.succeeded
             /\ q.failed = p.failed \cup {<<x, status>>}
             /\ q.touched = p.touched \/ (status = 500 /\ q.touched = p.touched \cup {x})
    <3>1. Unanswered(p.failed) \subseteq Unanswered(q.failed)
      BY <2>2 DEF Unanswered
    <3>2. status = 500 => x \in Unanswered(q.failed)
      <4>1. <<x, status>> \in q.failed
        BY <2>2
      <4> QED
        BY <4>1 DEF Unanswered
    <3>3. p.touched \subseteq q.touched /\ p.succeeded = q.succeeded
      BY <2>2
    <3>4. ASSUME NEW t \in q.touched PROVE t \in q.succeeded \cup Unanswered(q.failed)
      <4>1. t \in p.touched \/ (status = 500 /\ t = x)
        BY <2>2
      <4>2. t \in p.touched => t \in p.succeeded \/ t \in Unanswered(p.failed)
        BY <1>8
      <4> QED
        BY <3>1, <3>2, <3>3, <4>1, <4>2
    <3>5. p.succeeded \subseteq p.touched
      BY <1>8
    <3> QED
      BY <3>3, <3>4, <3>5
  <2> QED
    BY <1>3, <2>1, <2>2 DEF Advances
<1>13. IF q.step = "end" THEN q.remaining = Between(q.ids, q.at, Len(q.ids))
                         ELSE q.at <= Len(q.ids) /\ q.remaining = {}
  <2>1. CASE q.step = "end"
    BY <2>1 DEF Advances
  <2>2. CASE q.step # "end"
    <3>1. Between(p.ids, p.at + 1, Len(p.ids)) # {} /\ q.remaining = {}
          /\ q.ids = p.ids /\ q.at = p.at + 1
      BY <2>2 DEF Advances
    <3>2. \E k \in p.at + 1 .. Len(p.ids) : TRUE
      BY <3>1 DEF Between
    <3> QED
      BY <1>2, <2>2, <3>1, <3>2
  <2> QED
    BY <2>1, <2>2
<1> QED
  BY <1>6, <1>7, <1>11, <1>12, <1>13 DEF ReportInv

\* The parts of the answer are sets of records and of failures.
LEMMA BatchFields ==
    ASSUME NEW p \in Batch, ReportInv(p)
    PROVE  /\ p.ids \in IdLists /\ p.at \in Nat /\ p.overrun \in Nat
           /\ p.step # "end" => p.at \in 1..Len(p.ids) /\ p.ids[p.at] \in Record
           /\ \A i : Between(p.ids, p.at + 1, Len(p.ids)) \subseteq Record
<1>1. p.ids \in IdLists /\ p.at \in Nat /\ p.overrun \in Nat /\ p.at >= 1
  BY DEF Batch, ReportInv
<1>2. Len(p.ids) \in Nat /\ p.ids \in [1..Len(p.ids) -> Record]
  BY <1>1, IdListShape
<1> QED
  BY <1>1, <1>2 DEF ReportInv, Between

\* A step that changes one slot
Writes(b, q) == batch' = [batch EXCEPT ![b] = q]

\* A slot that is written with a true answer keeps the invariant.
LEMMA BatchWritten ==
    ASSUME BulkInv, NEW b \in Batcher, NEW q \in Batch \cup {NoBatch},
           Writes(b, q),
           q # NoBatch => /\ ReportInv(q)
                          /\ q.overrun \in {0, 1}
                          /\ q.step = "delete" => q.overrun = 0
                          /\ q.step = "authorize" /\ entitled[b] => q.overrun = 0,
           record' \in [Record -> {"live", "trashed", "purged"}], entitled' = entitled
    PROVE  BulkInv'
<1>1. \A c \in Batcher : batch'[c] = IF c = b THEN q ELSE batch[c]
  BY DEF BulkInv, Writes
<1>2. BulkTypeOK' /\ (batch \in [Batcher -> Batch \cup {NoBatch}])'
  BY <1>1 DEF BulkInv, BulkTypeOK, Writes
<1>3. \A c \in Batcher : batch'[c] # NoBatch => ReportInv(batch'[c])
  BY <1>1 DEF BulkInv
<1>4. \A c \in Batcher : OverrunInv(c)'
  BY <1>1 DEF BulkInv, OverrunInv
<1> QED
  BY <1>2, <1>3, <1>4 DEF BulkInv

\* The fields of a request
BatchNames == {"ids", "mode", "at", "step", "succeeded", "failed", "remaining", "touched",
               "overrun"}

\* A request is a record with these fields.
LEMMA BatchShape ==
    ASSUME NEW p
    PROVE  p \in Batch <=>
             /\ p = [f \in BatchNames |-> p[f]]
             /\ p.ids \in IdLists /\ p.mode \in {"trash", "permanent"} /\ p.at \in Nat
             /\ p.step \in {"authorize", "delete", "end"}
             /\ p.succeeded \in SUBSET Record /\ p.failed \in SUBSET (Record \X Statuses)
             /\ p.remaining \in SUBSET Record /\ p.touched \in SUBSET Record
             /\ p.overrun \in Nat
BY DEF Batch, BatchNames

\* What a failure makes of a request p
FailureOf(b, p, status, touched, q) ==
    /\ q = [f \in BatchNames |-> q[f]]
    /\ q.ids = p.ids /\ q.mode = p.mode /\ q.at = p.at + 1
    /\ q.step = IF EndsBatch(status) THEN "end" ELSE NextStep(b)
    /\ q.succeeded = p.succeeded
    /\ q.failed = p.failed \cup {<<Current(b), status>>}
    /\ q.remaining = Unreached(b, status)
    /\ q.touched = p.touched \cup touched
    /\ q.overrun = IF entitled[b] THEN p.overrun ELSE p.overrun + Cardinality(touched)

\* The model writes that. (Failed)
LEMMA FailedRow ==
    ASSUME NEW b \in Batcher, batch[b] \in Batch, NEW status, NEW touched
    PROVE  FailureOf(b, batch[b], status, touched, Failed(b, status, touched))
<1> DEFINE p == batch[b]
<1>1. p = [f \in BatchNames |-> p[f]]
  BY BatchShape
<1>2. PICK q, step, failed, remaining, more, overrun :
          /\ q = Failed(b, status, touched)
          /\ step = IF EndsBatch(status) THEN "end" ELSE NextStep(b)
          /\ failed = p.failed \cup {<<Current(b), status>>}
          /\ remaining = Unreached(b, status)
          /\ more = p.touched \cup touched
          /\ overrun = IF entitled[b] THEN p.overrun ELSE p.overrun + Cardinality(touched)
  OBVIOUS
<1>3. q = [p EXCEPT !.at = p.at + 1, !.step = step, !.failed = failed, !.remaining = remaining,
                    !.touched = more, !.overrun = overrun]
  BY <1>2, Zenon DEF Failed
<1>4. q = [f \in BatchNames |-> q[f]]
  BY <1>1, <1>3
<1>5. /\ q.ids = p.ids /\ q.mode = p.mode /\ q.at = p.at + 1 /\ q.step = step
      /\ q.succeeded = p.succeeded /\ q.failed = failed /\ q.remaining = remaining
      /\ q.touched = more /\ q.overrun = overrun
  BY <1>1, <1>3 DEF BatchNames
<1> QED
  BY <1>2, <1>4, <1>5, Zenon DEF FailureOf

\* What a deletion makes of a request p
DeletionOf(b, p, q) ==
    /\ q = [f \in BatchNames |-> q[f]]
    /\ q.ids = p.ids /\ q.mode = p.mode /\ q.at = p.at + 1
    /\ q.step = NextStep(b)
    /\ q.succeeded = p.succeeded \cup {Current(b)}
    /\ q.failed = p.failed /\ q.remaining = p.remaining
    /\ q.touched = p.touched \cup {Current(b)}
    /\ q.overrun = IF entitled[b] THEN p.overrun ELSE p.overrun + 1

\* The model writes that. (Deleted)
LEMMA DeletedRow ==
    ASSUME NEW b \in Batcher, batch[b] \in Batch
    PROVE  DeletionOf(b, batch[b], Deleted(b))
<1> DEFINE p == batch[b]
<1>1. p = [f \in BatchNames |-> p[f]]
  BY BatchShape
<1>2. PICK q, step, succeeded, touched, overrun :
          /\ q = Deleted(b)
          /\ step = NextStep(b)
          /\ succeeded = p.succeeded \cup {Current(b)}
          /\ touched = p.touched \cup {Current(b)}
          /\ overrun = IF entitled[b] THEN p.overrun ELSE p.overrun + 1
  OBVIOUS
<1>3. q = [p EXCEPT !.at = p.at + 1, !.step = step, !.succeeded = succeeded,
                    !.touched = touched, !.overrun = overrun]
  BY <1>2, Zenon DEF Deleted
<1>4. q = [f \in BatchNames |-> q[f]]
  BY <1>1, <1>3
<1>5. /\ q.ids = p.ids /\ q.mode = p.mode /\ q.at = p.at + 1 /\ q.step = step
      /\ q.succeeded = succeeded /\ q.failed = p.failed /\ q.remaining = p.remaining
      /\ q.touched = touched /\ q.overrun = overrun
  BY <1>1, <1>3 DEF BatchNames
<1> QED
  BY <1>2, <1>4, <1>5, Zenon DEF DeletionOf

\* The request in a slot, and the id it is at
LEMMA InFlight ==
    ASSUME BulkInv, NEW b \in Batcher, At(b, "authorize") \/ At(b, "delete")
    PROVE  /\ batch[b] \in Batch /\ ReportInv(batch[b]) /\ batch[b].step # "end"
           /\ Current(b) \in Record /\ Current(b) = batch[b].ids[batch[b].at]
           /\ Rest(b) = Between(batch[b].ids, batch[b].at + 1, Len(batch[b].ids))
           /\ Rest(b) \in SUBSET Record
           /\ OverrunInv(b)
<1>1. batch[b] \in Batch /\ ReportInv(batch[b]) /\ batch[b].step # "end" /\ OverrunInv(b)
  BY DEF BulkInv, BulkTypeOK, At
<1>2. Rest(b) = Between(batch[b].ids, batch[b].at + 1, Len(batch[b].ids))
  BY DEF Rest, Between
<1>3. Between(batch[b].ids, batch[b].at + 1, Len(batch[b].ids)) \subseteq Record
  BY <1>1, BatchFields
<1> QED
  BY <1>1, <1>2, <1>3, BatchFields DEF Current

\* A failure, for whatever reason, keeps the invariant; only an error of the
\* system may hide a deletion. (Fail)
LEMMA FailKeeps ==
    ASSUME BulkInv, NEW b \in Batcher, NEW status \in Statuses,
           At(b, "authorize") \/ At(b, "delete"), NEW touched,
           touched = {} \/ (touched = {Current(b)} /\ status = 500 /\ At(b, "delete")),
           Fail(b, status, touched),
           record' \in [Record -> {"live", "trashed", "purged"}], entitled' = entitled
    PROVE  BulkInv'
<1>1. PICK p, q, x : p = batch[b] /\ q = Failed(b, status, touched) /\ x = Current(b)
  OBVIOUS
<1>2. /\ p \in Batch /\ ReportInv(p) /\ p.step # "end"
      /\ x \in Record /\ x = p.ids[p.at]
      /\ Rest(b) = Between(p.ids, p.at + 1, Len(p.ids)) /\ Rest(b) \in SUBSET Record
      /\ OverrunInv(b)
  BY <1>1, InFlight
<1>3. /\ q = [f \in BatchNames |-> q[f]]
      /\ q.ids = p.ids /\ q.mode = p.mode /\ q.at = p.at + 1
      /\ q.step = IF EndsBatch(status) THEN "end" ELSE NextStep(b)
      /\ q.succeeded = p.succeeded /\ q.failed = p.failed \cup {<<x, status>>}
      /\ q.remaining = Unreached(b, status)
      /\ q.touched = p.touched \cup touched
      /\ q.overrun = IF entitled[b] THEN p.overrun ELSE p.overrun + Cardinality(touched)
  <2>1. batch[b] \in Batch
    BY InFlight
  <2>2. FailureOf(b, batch[b], status, touched, Failed(b, status, touched))
    BY <2>1, FailedRow
  <2>3. FailureOf(b, p, status, touched, q)
    BY <1>1, <2>2, Zenon
  <2> QED
    BY <1>1, <2>3 DEF FailureOf
<1>4. /\ Cardinality(touched) \in {0, 1} /\ (touched = {} => Cardinality(touched) = 0)
      /\ (touched # {} => At(b, "delete") /\ status = 500 /\ touched = {x})
  BY <1>1, FS_EmptySet, FS_Singleton
<1>5. q.step \in {"end", "authorize"} /\ (touched # {} => q.step = "end")
  BY <1>3, <1>4 DEF NextStep, EndsBatch
<1>6. /\ q.overrun \in {0, 1}
      /\ q.step = "authorize" /\ entitled[b] => q.overrun = 0
  <2>1. /\ p.overrun \in {0, 1} /\ (p.step = "delete" => p.overrun = 0)
        /\ (p.step = "authorize" /\ entitled[b] => p.overrun = 0)
        /\ p.step \in {"authorize", "delete"}
        /\ (touched # {} => p.step = "delete")
    BY <1>1, <1>2, <1>4 DEF OverrunInv, At
  <2> QED
    BY <1>3, <1>4, <2>1
<1>7. q \in Batch
  <2>1. /\ p.ids \in IdLists /\ p.at + 1 \in Nat /\ p.mode \in {"trash", "permanent"}
        /\ p.succeeded \in SUBSET Record /\ p.failed \in SUBSET (Record \X Statuses)
        /\ p.touched \in SUBSET Record
    BY <1>2, BatchShape
  <2>2. /\ p.failed \cup {<<x, status>>} \in SUBSET (Record \X Statuses)
        /\ p.touched \cup touched \in SUBSET Record
        /\ Unreached(b, status) \in SUBSET Record
    BY <1>2, <1>4, <2>1 DEF Unreached
  <2> QED
    BY <1>3, <1>5, <1>6, <2>1, <2>2, BatchShape
<1>8. Advances(p, q, status)
  <2>1. IF q.step = "end" THEN q.remaining = Rest(b) ELSE q.remaining = {} /\ Rest(b) # {}
    BY <1>3 DEF NextStep, Unreached
  <2>2. q.touched = p.touched \/ (status = 500 /\ q.touched = p.touched \cup {x})
    <3>1. CASE touched = {}
      BY <1>3, <3>1
    <3>2. CASE touched # {}
      BY <1>3, <1>4, <3>2
    <3> QED
      BY <3>1, <3>2
  <2> QED
    BY <1>2, <1>3, <2>1, <2>2 DEF Advances
<1>9. /\ ReportInv(q) /\ q.overrun \in {0, 1} /\ q.step # "delete"
      /\ q.step = "authorize" /\ entitled[b] => q.overrun = 0
  BY <1>2, <1>5, <1>6, <1>8, WorkedOn
<1>10. Writes(b, q)
  BY <1>1, Zenon DEF Fail, Writes
<1> QED
  BY <1>7, <1>9, <1>10, BatchWritten

\* A deletion that succeeds keeps the invariant. (Delete)
LEMMA DeleteKeeps ==
    ASSUME BulkInv, NEW b \in Batcher, At(b, "delete"), Writes(b, Deleted(b)),
           record' \in [Record -> {"live", "trashed", "purged"}], entitled' = entitled
    PROVE  BulkInv'
<1>1. PICK p, q, x : p = batch[b] /\ q = Deleted(b) /\ x = Current(b)
  OBVIOUS
<1>2. /\ p \in Batch /\ ReportInv(p) /\ p.step = "delete"
      /\ x \in Record /\ x = p.ids[p.at]
      /\ Rest(b) = Between(p.ids, p.at + 1, Len(p.ids)) /\ Rest(b) \in SUBSET Record
      /\ p.overrun = 0
  BY <1>1, InFlight DEF At, OverrunInv
<1>3. /\ q = [f \in BatchNames |-> q[f]]
      /\ q.ids = p.ids /\ q.mode = p.mode /\ q.at = p.at + 1
      /\ q.step = NextStep(b)
      /\ q.succeeded = p.succeeded \cup {x}
      /\ q.failed = p.failed /\ q.remaining = p.remaining
      /\ q.touched = p.touched \cup {x}
      /\ q.overrun = IF entitled[b] THEN p.overrun ELSE p.overrun + 1
  <2>1. batch[b] \in Batch
    BY InFlight
  <2>2. DeletionOf(b, batch[b], Deleted(b))
    BY <2>1, DeletedRow
  <2>3. DeletionOf(b, p, q)
    BY <1>1, <2>2, Zenon
  <2> QED
    BY <1>1, <2>3 DEF DeletionOf
<1>4. q.step \in {"end", "authorize"} /\ (q.step = "end" <=> Rest(b) = {})
  BY <1>3 DEF NextStep
<1>5. q.overrun \in {0, 1} /\ (entitled[b] => q.overrun = 0)
  BY <1>2, <1>3
<1>6. p.remaining = {}
  BY <1>2 DEF ReportInv
<1>7. q \in Batch
  <2>1. /\ p.ids \in IdLists /\ p.at + 1 \in Nat /\ p.mode \in {"trash", "permanent"}
        /\ p.succeeded \cup {x} \in SUBSET Record /\ p.failed \in SUBSET (Record \X Statuses)
        /\ p.touched \cup {x} \in SUBSET Record /\ p.remaining \in SUBSET Record
    BY <1>2, BatchShape
  <2> QED
    BY <1>3, <1>4, <1>5, <2>1, BatchShape
<1>8. Advances(p, q, 500)
  BY <1>2, <1>3, <1>4, <1>6 DEF Advances
<1>9. ReportInv(q)
  BY <1>2, <1>8, WorkedOn
<1>10. Writes(b, q)
  BY <1>1
<1> QED
  BY <1>4, <1>5, <1>7, <1>9, <1>10, BatchWritten

\* Every step of a bulk deletion, and of those beside it, keeps the invariant.
LEMMA BulkStep == BulkInv /\ [BulkNext]_bulkVars => BulkInv'
<1> SUFFICES ASSUME BulkInv, [BulkNext]_bulkVars PROVE BulkInv'
  OBVIOUS
<1>0. /\ record \in [Record -> {"live", "trashed", "purged"}]
      /\ entitled \in [Batcher -> BOOLEAN]
      /\ \A b \in Batcher, place \in {"live", "trashed", "purged"}, x \in Record :
             [record EXCEPT ![x] = place] \in [Record -> {"live", "trashed", "purged"}]
  BY DEF BulkInv, BulkTypeOK
<1>1. ASSUME NEW b \in Batcher, BatchStep(b) PROVE BulkInv'
  <2>1. CASE \E ids \in IdLists, mode \in {"trash", "permanent"} : Submit(b, ids, mode)
    <3>1. PICK ids \in IdLists, mode \in {"trash", "permanent"} : Submit(b, ids, mode)
      BY <2>1
    <3> DEFINE q == [ids |-> ids, mode |-> mode, at |-> 1, step |-> "authorize",
                     succeeded |-> {}, failed |-> {}, remaining |-> {}, touched |-> {},
                     overrun |-> 0]
    <3>2. q \in Batch
      BY DEF Batch
    <3>3. /\ q.ids = ids /\ q.at = 1 /\ q.succeeded = {} /\ q.failed = {} /\ q.touched = {}
          /\ q.remaining = {} /\ q.step = "authorize" /\ q.overrun = 0
      OBVIOUS
    <3>4. Writes(b, q) /\ record' = record /\ entitled' = entitled
      BY <3>1 DEF Submit, Writes
    <3> HIDE DEF q
    <3>5. Between(ids, 1, 0) = {} /\ IdsOf({}) = {} /\ Unanswered({}) = {}
      BY DEF Between, IdsOf, Unanswered
    <3>6. IsFiniteSet({}) /\ Cardinality({}) = 0
      BY FS_EmptySet
    <3>7. Len(ids) \in Nat /\ Len(ids) >= 1
      BY IdListShape
    <3>8. ReportInv(q)
      <4>1. q.at \in 1 .. Len(q.ids) + 1 /\ q.at - 1 = 0 /\ q.at <= Len(q.ids)
        BY <3>3, <3>7
      <4>2. q.succeeded \cup IdsOf(q.failed) = Between(q.ids, 1, q.at - 1)
        BY <3>3, <3>5, <4>1
      <4>3. Cardinality(q.succeeded) + Cardinality(q.failed) = q.at - 1
        BY <3>3, <3>6, <4>1
      <4> QED
        BY <3>3, <3>6, <4>1, <4>2, <4>3 DEF ReportInv
    <3> QED
      BY <1>0, <3>2, <3>3, <3>4, <3>8, BatchWritten
  <2>2. CASE Authorize(b)
    <3>1. At(b, "authorize") /\ UNCHANGED <<record, entitled>>
      BY <2>2 DEF Authorize
    <3>2. CASE ~Authorized(b)
      <4>1. Fail(b, 403, {}) /\ 403 \in Statuses
        BY <2>2, <3>2 DEF Authorize, Statuses
      <4> QED
        BY <1>0, <3>1, <4>1, FailKeeps
    <3>3. CASE Authorized(b)
      <4>1. PICK p, q : p = batch[b] /\ q = [p EXCEPT !.step = "delete"]
        OBVIOUS
      <4>2. /\ p \in Batch /\ ReportInv(p) /\ p.step # "end" /\ p.overrun = 0
        BY <3>1, <3>3, <4>1, InFlight DEF OverrunInv, At, Authorized
      <4>3. p = [f \in BatchNames |-> p[f]]
        BY <4>2, BatchShape
      <4>4. q = [f \in BatchNames |-> q[f]]
        BY <4>1, <4>3
      <4>5. /\ q.ids = p.ids /\ q.mode = p.mode /\ q.at = p.at /\ q.step = "delete"
            /\ q.succeeded = p.succeeded /\ q.failed = p.failed /\ q.remaining = p.remaining
            /\ q.touched = p.touched /\ q.overrun = p.overrun
        BY <4>1, <4>3 DEF BatchNames
      <4>6. q \in Batch
        BY <4>2, <4>4, <4>5, BatchShape
      <4>7. ReportInv(q)
        BY <4>2, <4>5 DEF ReportInv
      <4>8. Writes(b, q)
        BY <2>2, <3>3, <4>1 DEF Authorize, Writes
      <4> QED
        BY <1>0, <3>1, <4>2, <4>5, <4>6, <4>7, <4>8, BatchWritten
    <3> QED
      BY <3>2, <3>3
  <2>3. CASE Delete(b)
    <3>1. At(b, "delete") /\ Writes(b, Deleted(b)) /\ entitled' = entitled
      BY <2>3 DEF Delete, Writes
    <3>2. record' \in [Record -> {"live", "trashed", "purged"}]
      BY <1>0, <2>3 DEF Delete, DeleteCurrent
    <3> QED
      BY <3>1, <3>2, DeleteKeeps
  <2>4. CASE NotFound(b) \/ Conflict(b) \/ Outage(b)
    <3>1. PICK status \in Statuses : Fail(b, status, {})
      BY <2>4 DEF NotFound, Conflict, Outage, Statuses
    <3>2. /\ At(b, "authorize") \/ At(b, "delete")
          /\ UNCHANGED <<record, entitled>>
      BY <2>4 DEF NotFound, Conflict, Outage
    <3> QED
      BY <1>0, <3>1, <3>2, FailKeeps
  <2>5. CASE LostCommit(b)
    <3>1. /\ At(b, "delete") /\ Fail(b, 500, {Current(b)}) /\ entitled' = entitled
          /\ 500 \in Statuses
      BY <2>5 DEF LostCommit, Statuses
    <3>2. record' \in [Record -> {"live", "trashed", "purged"}]
      BY <1>0, <2>5 DEF LostCommit, DeleteCurrent
    <3> QED
      BY <3>1, <3>2, FailKeeps
  <2>6. CASE LeaveBatch(b)
    <3>1. Writes(b, NoBatch) /\ record' = record /\ entitled' = entitled
      BY <2>6 DEF LeaveBatch, Writes
    <3> QED
      BY <1>0, <3>1, BatchWritten
  <2>7. CASE \E right \in BOOLEAN : Entitle(b, right)
    <3>1. PICK right \in BOOLEAN : Entitle(b, right)
      BY <2>7
    <3>2. entitled' \in [Batcher -> BOOLEAN] /\ record' = record
          /\ \A c \in Batcher \ {b} : entitled'[c] = entitled[c]
      BY <1>0, <3>1 DEF Entitle
    <3>3. CASE batch[b] = NoBatch
      <4>1. batch' = batch
        BY <3>1, <3>3 DEF Entitle
      <4> QED
        BY <3>2, <3>3, <4>1 DEF BulkInv, BulkTypeOK, OverrunInv
    <3>4. CASE batch[b] # NoBatch
      <4>1. PICK p, q : p = batch[b] /\ q = [p EXCEPT !.overrun = 0]
        OBVIOUS
      <4>2. p \in Batch /\ ReportInv(p)
        BY <3>4, <4>1 DEF BulkInv, BulkTypeOK
      <4>3. p = [f \in BatchNames |-> p[f]]
        BY <4>2, BatchShape
      <4>4. q = [f \in BatchNames |-> q[f]]
        BY <4>1, <4>3
      <4>5. /\ q.ids = p.ids /\ q.mode = p.mode /\ q.at = p.at /\ q.step = p.step
            /\ q.succeeded = p.succeeded /\ q.failed = p.failed /\ q.remaining = p.remaining
            /\ q.touched = p.touched /\ q.overrun = 0
        BY <4>1, <4>3 DEF BatchNames
      <4>6. q \in Batch
        BY <4>2, <4>4, <4>5, BatchShape
      <4>7. ReportInv(q)
        BY <4>2, <4>5 DEF ReportInv
      <4>8. batch' = [batch EXCEPT ![b] = q]
        BY <3>1, <3>4, <4>1 DEF Entitle
      <4>9. \A c \in Batcher : batch'[c] = IF c = b THEN q ELSE batch[c]
        BY <4>8 DEF BulkInv
      <4>10. BulkTypeOK' /\ (batch \in [Batcher -> Batch \cup {NoBatch}])'
        BY <3>2, <4>6, <4>8, <4>9 DEF BulkInv, BulkTypeOK
      <4>11. \A c \in Batcher : batch'[c] # NoBatch => ReportInv(batch'[c])
        BY <4>7, <4>9 DEF BulkInv
      <4>12. \A c \in Batcher : OverrunInv(c)'
        BY <3>2, <4>5, <4>9 DEF BulkInv, OverrunInv
      <4> QED
        BY <4>10, <4>11, <4>12 DEF BulkInv
    <3> QED
      BY <3>3, <3>4
  <2> QED
    BY <1>1, <2>1, <2>2, <2>3, <2>4, <2>5, <2>6, <2>7 DEF BatchStep
<1>2. CASE \E x \in Record, place \in {"live", "trashed", "purged"} : MoveRecord(x, place)
  <2>1. record' \in [Record -> {"live", "trashed", "purged"}] /\ UNCHANGED <<entitled, batch>>
    BY <1>0, <1>2 DEF MoveRecord
  <2> QED
    BY <2>1 DEF BulkInv, BulkTypeOK, OverrunInv
<1>3. CASE UNCHANGED bulkVars
  BY <1>3 DEF bulkVars, BulkInv, BulkTypeOK, OverrunInv
<1> QED
  BY <1>1, <1>2, <1>3 DEF BulkNext

\* The answer that a request is making is always true so far, and once the right
\* is lost it deletes one more record at most. (bulkDelete)
THEOREM BulkInvariant == BulkSpec => []BulkInv
<1>1. BulkInit => BulkInv
  BY DEF BulkInit, BulkInv, BulkTypeOK, OverrunInv
<1> QED
  BY <1>1, BulkStep, PTL DEF BulkSpec

\* A bulk deletion says truly what it did, and a right that was withdrawn ends
\* it. (bulkDelete, authorize)
THEOREM BulkDeletionAlways == BulkSpec => []BulkDeletionTrue
<1>1. BulkInv => BulkReportTrue
  <2> SUFFICES ASSUME BulkInv, NEW b \in Batcher, At(b, "end"), NEW p, p = batch[b]
               PROVE  /\ p.succeeded \cup FailedIds(b) \cup p.remaining
                             = {p.ids[i] : i \in DOMAIN p.ids}
                      /\ Cardinality(p.succeeded) + Cardinality(p.failed)
                             + Cardinality(p.remaining) = Len(p.ids)
                      /\ p.succeeded \subseteq p.touched
                      /\ p.touched \subseteq
                             p.succeeded \cup {f[1] : f \in {g \in p.failed : g[2] = 500}}
                      /\ p.remaining \cap p.touched = {}
    BY Zenon DEF BulkReportTrue
  <2>1. p = batch[b]
    OBVIOUS
  <2>2. p \in Batch /\ ReportInv(p) /\ p.step = "end" /\ p.ids \in IdLists
    BY <2>1, BatchFields DEF At, BulkInv, BulkTypeOK
  <2>3. PICK ids, at, n : ids = p.ids /\ at = p.at /\ n = Len(p.ids)
    OBVIOUS
  <2>4. /\ n \in Nat /\ at \in 1..n + 1 /\ DOMAIN ids = 1..n
        /\ \A i, j \in 1..n : ids[i] = ids[j] => i = j
    BY <2>2, <2>3, IdListShape DEF ReportInv
  <2>5. /\ p.succeeded \cup IdsOf(p.failed) = Between(ids, 1, at - 1)
        /\ p.remaining = Between(ids, at, n)
        /\ Cardinality(p.succeeded) + Cardinality(p.failed) = at - 1
        /\ p.succeeded \subseteq p.touched
        /\ p.touched \subseteq p.succeeded \cup Unanswered(p.failed)
    BY <2>2, <2>3 DEF ReportInv
  <2>6. {ids[i] : i \in DOMAIN ids} = Between(ids, 1, at - 1) \cup Between(ids, at, n)
    <3>1. \A i : i \in DOMAIN ids <=> i \in 1..at - 1 \/ i \in at..n
      BY <2>4
    <3>2. \A y : y \in {ids[i] : i \in DOMAIN ids} <=>
                     y \in Between(ids, 1, at - 1) \/ y \in Between(ids, at, n)
      BY <3>1, Zenon DEF Between
    <3> QED
      BY <3>2
  <2>7. Cardinality(p.remaining) = n + 1 - at
    BY <2>2, <2>3, <2>4, <2>5, BetweenCardinality
  <2>8. Cardinality(p.succeeded) + Cardinality(p.failed) + Cardinality(p.remaining) = n
    BY <2>4, <2>5, <2>7
  <2>9. Between(ids, 1, at - 1) \cap Between(ids, at, n) = {}
    BY <2>4 DEF Between
  <2>10. Unanswered(p.failed) \subseteq IdsOf(p.failed)
    BY DEF Unanswered, IdsOf
  <2>11. p.remaining \cap p.touched = {}
    BY <2>5, <2>9, <2>10
  <2>12. FailedIds(b) = IdsOf(p.failed)
    BY <2>1 DEF FailedIds, IdsOf
  <2>13. p.succeeded \cup FailedIds(b) \cup p.remaining = {p.ids[i] : i \in DOMAIN p.ids}
    BY <2>3, <2>5, <2>6, <2>12
  <2>14. p.touched \subseteq p.succeeded \cup {f[1] : f \in {g \in p.failed : g[2] = 500}}
    BY <2>5, Zenon DEF Unanswered
  <2> QED
    BY <2>1, <2>3, <2>5, <2>8, <2>11, <2>13, <2>14, Zenon
<1>2. BulkInv => LostRightStopsBatch
  BY DEF BulkInv, OverrunInv, LostRightStopsBatch
<1>3. BulkInv => BulkDeletionTrue
  BY <1>1, <1>2 DEF BulkDeletionTrue
<1> QED
  BY <1>3, BulkInvariant, PTL
=============================================================================

------------------------- MODULE DiagnosticsProofs -------------------------
(***************************************************************************)
(* Theorems about Diagnostics, for any number of files, publications and   *)
(* passes.  The argument rests on the stamps of texts, which are never     *)
(* used twice: a list that was made for the text the editor still has was  *)
(* made of that text.                                                      *)
(***************************************************************************)
EXTENDS Diagnostics, TLAPS

\* What another program may leave on disk, and what the editor may send.
NewOnDisk == {NoText} \cup {Text(texts + 1, 0, f) : f \in Findings}
NewTexts == {Text(texts + 1, v, f) : v \in Nat, f \in Findings}

Opening == {"open", "change"}

-----------------------------------------------------------------------------
(* Types.                                                                  *)

StoreOK ==
    /\ settings \in [project : BOOLEAN, continuous : BOOLEAN, fails : SUBSET Faults]
    /\ settings \in Settings
    /\ texts \in Nat /\ saves \in Nat /\ unmoved \subseteq Passes
    /\ disk \in [Docs -> Texts] /\ doc \in [Docs -> Texts]
    /\ idx \in [Docs -> Texts]
    /\ events \subseteq Docs
    /\ onDisk \in [Docs -> SUBSET Nat]
    /\ failed \subseteq Docs /\ ahead \subseteq Docs

CachesOK ==
    /\ published \subseteq Docs
    /\ semantic \in [Docs -> Nat \cup {Nothing}]
    /\ transaction \in [Docs -> Nat \cup {Nothing}]
    /\ shown \in [Docs -> Lists]

RunsOK == run \in [Runs -> RunStates]

\* The findings a pass has for a file are those of the text it read, and a
\* file it clears has none.
MadeOfSource(s) ==
    /\ s.list.native = NativeOf(s.source) /\ s.list.proj = ProjOf(s.source)
    /\ s.list.tx = TxOf(s.source)
    /\ s.clear => NativeOf(s.source) = 0 /\ ProjOf(s.source) = 0

\* A pass that may stage has an attempt left.
StagedOK(x) ==
    /\ x.pc # "staged" => x.attempt < MAX_STAGING_ATTEMPTS
    /\ x.pc \in {"staged", "send"} => \A d \in Docs : MadeOfSource(x.staged[d])

PassTables == {f \in [Passes -> PassStates] : \A p \in Passes : StagedOK(f[p])}

PassesOK == pass \in PassTables

AbortedOK == aborted \subseteq Runs \cup Passes

Typing == StoreOK /\ CachesOK /\ RunsOK /\ PassesOK /\ AbortedOK

\* The initial values have their types.
LEMMA Values ==
    /\ NoText \in Texts /\ NoText.id = 0 /\ Empty \in Lists /\ AnyDoc \in Docs
    /\ Nothing \notin Nat /\ NotStaged \in StagedStates
    /\ NothingStaged \in [Docs -> StagedStates]
<1>1. AnyDoc \in Docs BY TasksAssumption DEF AnyDoc
<1>2. NotStaged \in StagedStates
  BY DEF NotStaged, StagedStates, NoText, Texts, Empty, Lists
<1> QED BY <1>1, <1>2 DEF NoText, Texts, Empty, Lists, Nothing, NothingStaged

\* The record of no publication.
LEMMA NoRunType ==
    /\ NoRun \in RunStates /\ NoRun.pc = "idle" /\ NoRun.kind = "open"
    /\ NoRun.text = NoText
BY Values DEF NoRun, RunStates, RunSteps, RunKinds

\* The record of no pass.
LEMMA NoPassType ==
    NoPass \in PassStates /\ NoPass.pc = "idle" /\ NoPass.attempt = 0 /\ StagedOK(NoPass)
BY Values DEF NoPass, PassStates, PassSteps, PassKinds, MAX_STAGING_ATTEMPTS,
    StagedOK

\* A publication that starts has its type.
LEMMA NewRunType ==
    ASSUME NEW kind \in RunKinds, NEW pc \in RunSteps, NEW d \in Docs, NEW t \in Texts
    PROVE  /\ NewRun(kind, pc, d, t) \in RunStates
           /\ NewRun(kind, pc, d, t).pc = pc /\ NewRun(kind, pc, d, t).kind = kind
           /\ NewRun(kind, pc, d, t).of = d /\ NewRun(kind, pc, d, t).text = t
BY NoRunType DEF NewRun, RunStates

\* What a publication starts with.
LEMMA NewRunFields ==
    \A kind, pc, d, t :
        /\ NewRun(kind, pc, d, t).pc = pc /\ NewRun(kind, pc, d, t).kind = kind
        /\ NewRun(kind, pc, d, t).of = d /\ NewRun(kind, pc, d, t).text = t
BY DEF NewRun, NoRun

\* A pass that starts has its type.
LEMMA NewPassType ==
    ASSUME NEW kind \in PassKinds, NEW pc \in {"sleep", "stage", "wait"}
    PROVE  /\ NewPass(kind, pc) \in PassStates
           /\ NewPass(kind, pc).pc = pc /\ NewPass(kind, pc).kind = kind
           /\ StagedOK(NewPass(kind, pc))
BY NoPassType DEF NewPass, PassStates, PassSteps, StagedOK, MAX_STAGING_ATTEMPTS

\* A new text has its type and its stamp.
LEMMA TextType ==
    ASSUME NEW id \in Nat, NEW ver \in Nat, NEW f \in Findings
    PROVE  Text(id, ver, f) \in Texts /\ Text(id, ver, f).id = id
BY BoundsAssumption DEF Text, Texts

\* A text the editor sends has its type and a new stamp.
LEMMA NewTextType ==
    ASSUME StoreOK, NEW t \in NewTexts
    PROVE  t \in Texts /\ t.id = texts + 1 /\ t # NoText
<1>1. texts + 1 \in Nat /\ texts + 1 # 0 BY DEF StoreOK
<1>2. PICK v \in Nat, f \in Findings : t = Text(texts + 1, v, f) BY DEF NewTexts
<1> QED BY <1>1, <1>2, TextType, Values

\* The findings of a text are its stamp or 0.
LEMMA FindingsType ==
    ASSUME NEW t \in Texts
    PROVE  /\ NativeOf(t) \in Nat /\ ProjOf(t) \in Nat
           /\ TxOf(t) \in Nat /\ MsOf(t) \in Nat
BY DEF NativeOf, ProjOf, TxOf, MsOf, Texts

\* What a list takes from a cache is a stamp or 0.
LEMMA CachedType ==
    ASSUME NEW e \in Nat \cup {Nothing} PROVE Cached(e) \in Nat
BY DEF Cached

\* An abort removes publications that sleep and leaves the others.
LEMMA RunsWithoutType ==
    ASSUME RunsOK, NEW S
    PROVE  /\ RunsWithout(S) \in [Runs -> RunStates]
           /\ \A r \in Runs : \/ RunsWithout(S)[r] = run[r]
                              \/ /\ RunsWithout(S)[r] = NoRun
                                 /\ r \in S /\ run[r].pc \in Sleeping
BY NoRunType DEF RunsOK, RunsWithout

\* A pass is put into a table of passes.
LEMMA PassTablesType ==
    ASSUME NEW f \in PassTables, NEW p \in Passes, NEW x \in PassStates,
           StagedOK(x)
    PROVE  [f EXCEPT ![p] = x] \in PassTables
BY DEF PassTables

\* An abort leaves a table of passes.
LEMMA PassesWithoutType ==
    ASSUME PassesOK, NEW S
    PROVE  PassesWithout(S) \in PassTables
BY NoPassType DEF PassesOK, PassesWithout, PassTables

\* Arming a pass leaves a table of passes.
LEMMA ArmedType ==
    ASSUME NEW f \in PassTables
    PROVE  PassArmed(f) \subseteq PassTables /\ SemanticArmed(f) \subseteq PassTables
<1>1. \A p \in Passes : [f EXCEPT ![p] = NewPass("debounced", "sleep")] \in PassTables
  BY NewPassType, PassTablesType DEF PassKinds
<1>2. \A p \in Passes : [f EXCEPT ![p] = NewPass("semantic", "wait")] \in PassTables
  BY NewPassType, PassTablesType DEF PassKinds
<1> QED BY <1>1, <1>2 DEF PassArmed, SemanticArmed

\* The end of a pass.
LEMMA EndPassType ==
    ASSUME PassesOK, NEW p \in Passes, EndPass(p)
    PROVE  /\ PassesOK'
           /\ \A q \in Passes \ {p} : pass'[q] = pass[q]
           /\ pass'[p].pc \in {"idle", "wait"}
           /\ aborted' = aborted \ {p} /\ unmoved' = unmoved \ {p}
<1> DEFINE x == AfterPass(p)
<1> DEFINE w == [NoPass EXCEPT !.pc = "wait", !.kind = "semantic"]
<1>1. w \in PassStates /\ w.pc = "wait" /\ StagedOK(w)
  BY NewPassType DEF NewPass, PassKinds
<1>2. x \in PassStates /\ x.pc \in {"idle", "wait"} /\ StagedOK(x)
  <2> HIDE DEF w
  <2> QED BY <1>1, NoPassType DEF AfterPass, w
<1> HIDE DEF x
<1>3. pass' = [pass EXCEPT ![p] = x] BY DEF EndPass, x
<1>4. pass' \in PassTables BY <1>2, <1>3, PassTablesType DEF PassesOK
<1> QED BY <1>2, <1>3, <1>4 DEF EndPass, PassesOK, PassTables

\* The types hold initially.
LEMMA TypingInit == Init => Typing
<1> SUFFICES ASSUME Init PROVE Typing OBVIOUS
<1>0. Text(1, 0, Clean) \in Texts BY DEF Text, Clean, Texts
<1>1. StoreOK BY <1>0, Values, BoundsAssumption DEF Init, StoreOK
<1>2. CachesOK BY Values DEF Init, CachesOK
<1>3. RunsOK BY NoRunType DEF Init, RunsOK
<1>4. PassesOK BY NoPassType DEF Init, PassesOK, PassTables
<1> QED BY <1>1, <1>2, <1>3, <1>4 DEF Init, Typing, AbortedOK

\* The steps by who takes them.
LEMMA KindsOfSteps ==
    ASSUME StoreOK, [Next]_vars
    PROVE  \/ \E d \in Docs : \/ \E kind \in Opening, t \in NewTexts : Store(d, kind, t)
                              \/ \E t \in NewOnDisk : DiskChange(d, t)
                              \/ DidSave(d) \/ LintFile(d) \/ DidClose(d)
                              \/ DidChangeWatchedFile(d)
           \/ \E r \in Runs : RunStep(r)
           \/ \E p \in Passes : PassStep(p)
           \/ UNCHANGED vars
<1>1. ASSUME NEW d \in Docs, NEW f \in Findings, DidOpen(d, f) \/ DidChange(d, f)
      PROVE  \E kind \in Opening, t \in NewTexts : Store(d, kind, t)
  <2>1. Text(texts + 1, 1, f) \in NewTexts BY DEF NewTexts
  <2>2. doc[d].ver + 1 \in Nat BY DEF StoreOK, Texts
  <2>3. Text(texts + 1, doc[d].ver + 1, f) \in NewTexts BY <2>2 DEF NewTexts
  <2> QED BY <1>1, <2>1, <2>3 DEF DidOpen, DidChange, Opening
<1> QED BY <1>1, Zenon DEF Next, NewOnDisk

\* The native pass of publication r gave the list l: for the text the editor
\* has now its findings are those of that text, unless a worker failed on it
\* or, for the project findings, the index was behind.
MadeFor(r, l) ==
    IsCurrent(r) =>
        /\ run[r].of \in failed' \/ l.native = NativeOf(run[r].text)
        /\ run[r].of \in failed' \cup ahead' \/ l.proj = ProjOf(run[r].text)

\* The findings of the fast native pass.
LEMMA FastPass ==
    ASSUME Typing, NEW r \in Runs, NEW works \in BOOLEAN
    PROVE  /\ FastNative(r, works) \in Nat /\ FastProj(r, works) \in Nat
           /\ \A tx, ms : Mark(r, works) =>
                 MadeFor(r, [native |-> FastNative(r, works), proj |-> FastProj(r, works),
                             tx |-> tx, ms |-> ms])
<1>1. /\ run[r].of \in Docs /\ run[r].text \in Texts /\ run[r].text.id \in Nat
      /\ doc[run[r].of] \in Texts /\ idx[run[r].of] \in Texts
  BY DEF Typing, RunsOK, RunStates, StoreOK, Texts
<1>2. NativeOf(doc[run[r].of]) \in Nat /\ ProjOf(idx[run[r].of]) \in Nat
  BY <1>1, FindingsType
<1>3. FastNative(r, works) \in Nat BY <1>1, <1>2 DEF FastNative
<1>4. FastProj(r, works) \in Nat BY <1>2 DEF FastProj
<1>5. ASSUME Mark(r, works), IsCurrent(r)
      PROVE  /\ run[r].of \in failed' \/ FastNative(r, works) = NativeOf(run[r].text)
             /\ \/ run[r].of \in failed' \cup ahead'
                \/ FastProj(r, works) = ProjOf(run[r].text)
  <2>1. CASE ~works BY <1>5, <2>1 DEF Mark
  <2>2. CASE works
    <3>1. IsOpen(run[r].of) /\ doc[run[r].of] = run[r].text BY <1>5 DEF IsCurrent
    <3>2. FastNative(r, works) = NativeOf(run[r].text) BY <2>2, <3>1 DEF FastNative
    <3>3. idx[run[r].of] = doc[run[r].of] => FastProj(r, works) = ProjOf(run[r].text)
      BY <2>2, <3>1 DEF FastProj
    <3>4. idx[run[r].of] # doc[run[r].of] => run[r].of \in ahead' BY <1>5 DEF Mark
    <3> QED BY <3>2, <3>3, <3>4
  <2> QED BY <2>1, <2>2
<1> QED BY <1>3, <1>4, <1>5 DEF MadeFor

\* What Record1 does.
LEMMA Record1List ==
    ASSUME Typing, NEW r \in Runs, Record1(r)
    PROVE  /\ run[r].pc = "record1"
           /\ \E l \in Lists :
                 /\ run' = [run EXCEPT ![r] = [run[r] EXCEPT !.pc = "phase1", !.list = l]]
                 /\ Record(run[r].of, l) /\ MadeFor(r, l)
           /\ \E works \in BOOLEAN : Mark(r, works)
           /\ UNCHANGED <<settings, bounds, files, store, caches, shown, pass, aborted>>
<1>1. PICK works \in Works :
        LET l == [native |-> FastNative(r, works), proj |-> FastProj(r, works),
                  tx |-> Cached(transaction[run[r].of]), ms |-> Cached(semantic[run[r].of])]
        IN /\ run' = [run EXCEPT ![r].pc = "phase1", ![r].list = l]
           /\ Record(run[r].of, l) /\ Mark(r, works)
  BY Zenon DEF Record1
<1>2. works \in BOOLEAN BY DEF Works
<1>3. Cached(transaction[run[r].of]) \in Nat /\ Cached(semantic[run[r].of]) \in Nat
  BY CachedType DEF Typing, RunsOK, RunStates, CachesOK
<1> DEFINE l == [native |-> FastNative(r, works), proj |-> FastProj(r, works),
                 tx |-> Cached(transaction[run[r].of]), ms |-> Cached(semantic[run[r].of])]
<1>4. l \in Lists BY <1>2, <1>3, FastPass DEF Lists
<1>5. MadeFor(r, l) BY <1>1, <1>2, FastPass
<1>6. run' = [run EXCEPT ![r].pc = "phase1", ![r].list = l] /\ Record(run[r].of, l)
  BY <1>1
<1> HIDE DEF l
<1>7. run' = [run EXCEPT ![r] = [run[r] EXCEPT !.pc = "phase1", !.list = l]]
  BY <1>6 DEF Typing, RunsOK
<1>8. /\ run[r].pc = "record1"
      /\ UNCHANGED <<settings, bounds, files, store, caches, shown, pass, aborted>>
  BY Zenon DEF Record1
<1> QED BY <1>1, <1>2, <1>4, <1>5, <1>6, <1>7, <1>8

\* What TxRecord does.
LEMMA TxRecordList ==
    ASSUME Typing, NEW r \in Runs, TxRecord(r)
    PROVE  /\ run[r].pc = "tx_record"
           /\ \E l \in Lists :
                 /\ transaction' = [transaction EXCEPT ![run[r].of] = l.tx]
                 /\ \/ /\ run' = [run EXCEPT ![r] =
                                     [run[r] EXCEPT !.pc = "tx_publish", !.list = l]]
                       /\ Record(run[r].of, l) /\ MadeFor(r, l)
                       /\ \E works \in BOOLEAN : Mark(r, works)
                       /\ UNCHANGED aborted
                    \/ EndRun(r) /\ UNCHANGED <<published, marks>>
           /\ UNCHANGED <<settings, bounds, files, store, semantic, shown, pass>>
<1>1. PICK resolves \in Works, works \in Works :
        LET l == [native |-> FastNative(r, works), proj |-> FastProj(r, works),
                  tx |-> IF resolves THEN TxOf(idx[run[r].of]) ELSE 0,
                  ms |-> Cached(semantic[run[r].of])]
        IN /\ transaction' = [transaction EXCEPT ![run[r].of] = l.tx]
           /\ \/ /\ run' = [run EXCEPT ![r].pc = "tx_publish", ![r].list = l]
                 /\ Record(run[r].of, l) /\ Mark(r, works) /\ UNCHANGED aborted
              \/ EndRun(r) /\ UNCHANGED <<published, marks>>
  BY Zenon DEF TxRecord
<1>2. works \in BOOLEAN BY DEF Works
<1> DEFINE tx == IF resolves THEN TxOf(idx[run[r].of]) ELSE 0
<1>3. tx \in Nat /\ Cached(semantic[run[r].of]) \in Nat
  BY CachedType, FindingsType DEF Typing, RunsOK, RunStates, CachesOK, StoreOK
<1> DEFINE l == [native |-> FastNative(r, works), proj |-> FastProj(r, works),
                 tx |-> tx, ms |-> Cached(semantic[run[r].of])]
<1>4. l \in Lists BY <1>2, <1>3, FastPass DEF Lists
<1>5. Mark(r, works) => MadeFor(r, l) BY <1>2, FastPass
<1>6. /\ transaction' = [transaction EXCEPT ![run[r].of] = l.tx]
      /\ \/ /\ run' = [run EXCEPT ![r].pc = "tx_publish", ![r].list = l]
            /\ Record(run[r].of, l) /\ Mark(r, works) /\ UNCHANGED aborted
         \/ EndRun(r) /\ UNCHANGED <<published, marks>>
  BY <1>1
<1> HIDE DEF l
<1>7. run' = [run EXCEPT ![r].pc = "tx_publish", ![r].list = l] =>
         run' = [run EXCEPT ![r] = [run[r] EXCEPT !.pc = "tx_publish", !.list = l]]
  BY DEF Typing, RunsOK
<1>8. /\ run[r].pc = "tx_record"
      /\ UNCHANGED <<settings, bounds, files, store, semantic, shown, pass>>
  BY Zenon DEF TxRecord
<1> QED BY <1>2, <1>4, <1>5, <1>6, <1>7, <1>8

\* Every step keeps the types of the documents, the index and the files.
LEMMA StoreNext ==
    Typing /\ [Next]_vars => StoreOK'
<1> SUFFICES ASSUME Typing, [Next]_vars PROVE StoreOK'
  OBVIOUS
<1> USE DEF Typing, StoreOK
<1>1. ASSUME NEW d \in Docs, NEW kind \in Opening, NEW t \in NewTexts,
             Store(d, kind, t)
      PROVE  StoreOK'
  <2>1. t \in Texts BY NewTextType
  <2> QED BY <1>1, <2>1 DEF Store, bounds, files, store, caches, marks
<1>2. ASSUME NEW d \in Docs, LintFile(d) PROVE StoreOK'
  BY <1>2 DEF LintFile, bounds, files, store, caches, marks
<1>3. ASSUME NEW d \in Docs, NEW t \in NewOnDisk, DiskChange(d, t) PROVE StoreOK'
  <2>0. texts + 1 \in Nat /\ 0 \in Nat OBVIOUS
  <2>3. t = NoText \/ \E f \in Findings : t = Text(texts + 1, 0, f) BY DEF NewOnDisk
  <2>1. t \in Texts BY <2>0, <2>3, TextType, Values
  <2>2. t.id \in Nat BY <2>1 DEF Texts
  <2> QED BY <1>3, <2>1, <2>2 DEF DiskChange, bounds, files, store, caches, marks
<1>4. ASSUME NEW d \in Docs, DidSave(d) PROVE StoreOK'
  <2>1. doc[d].id \in Nat BY DEF Texts
  <2> QED BY <1>4, <2>1 DEF DidSave, bounds, files, store, caches, marks
<1>5. ASSUME NEW d \in Docs, DidClose(d) PROVE StoreOK'
  BY <1>5, Values DEF DidClose, bounds, files, store, caches, marks
<1>6. ASSUME NEW d \in Docs, DidChangeWatchedFile(d) PROVE StoreOK'
  BY <1>6 DEF DidChangeWatchedFile, bounds, files, store, caches, marks
<1>7. ASSUME NEW r \in Runs, RunStep(r) PROVE StoreOK'
  <2>1. CASE Wake(r)
    BY <2>1 DEF Wake, EndRun, bounds, files, store, caches, marks
  <2>2. CASE Check(r)
    BY <2>2 DEF Check, Finish, EndRun, bounds, files, store, caches, marks
  <2>3. CASE Record1(r)
    <3>1. UNCHANGED <<settings, bounds, files, store>> BY <2>3, Record1List
    <3>2. \E works \in BOOLEAN : Mark(r, works) BY <2>3, Record1List
    <3> QED BY <3>1, <3>2 DEF Mark, RunsOK, RunStates, bounds, files, store
  <2>4. CASE Phase1(r)
    <3>1. UNCHANGED <<settings, bounds, files, store, marks>> BY <2>4, Zenon DEF Phase1
    <3> QED BY <3>1 DEF bounds, files, store, marks
  <2>5. CASE Bridge(r)
    BY <2>5 DEF Bridge, Finish, EndRun, bounds, files, store, caches, marks
  <2>6. CASE Record2(r)
    BY <2>6 DEF Record2, bounds, files, store, caches, marks
  <2>7. CASE Phase2(r)
    BY <2>7 DEF Phase2, Finish, EndRun, bounds, files, store, caches, marks
  <2>8. CASE AfterSave(r)
    BY <2>8 DEF AfterSave, bounds, files, store, caches, marks
  <2>9. CASE TxWake(r)
    BY <2>9 DEF TxWake, EndRun, bounds, files, store, caches, marks
  <2>10. CASE TxRecord(r)
    <3>1. UNCHANGED <<settings, bounds, files, store>> BY <2>10, TxRecordList
    <3>2. UNCHANGED marks \/ \E works \in BOOLEAN : Mark(r, works)
      BY <2>10, TxRecordList DEF marks
    <3> QED BY <3>1, <3>2 DEF Mark, RunsOK, RunStates, bounds, files, store, marks
  <2>11. CASE TxPublish(r)
    BY <2>11 DEF TxPublish, EndRun, bounds, files, store, caches, marks
  <2>12. CASE CloseRead(r)
    BY <2>12 DEF CloseRead, bounds, files, store, caches, marks
  <2>13. CASE CloseRestore(r)
    BY <2>13 DEF CloseRestore, EndRun, bounds, files, store, caches, marks, RunsOK,
        RunStates
  <2>14. CASE CancelRun(r)
    BY <2>14 DEF CancelRun, EndRun, bounds, files, store, caches, marks
  <2>15. CASE Indexed(r)
    BY <2>15 DEF Indexed, RunsOK, RunStates, bounds, files, store, caches, marks
  <2>16. CASE IndexFails(r)
    BY <2>16 DEF IndexFails, EndRun, RunsOK, RunStates, bounds, files, store, caches, marks
  <2>17. CASE Arm(r)
    <3>1. UNCHANGED <<settings, bounds, files, store, marks>> BY <2>17, Zenon DEF Arm
    <3> QED BY <3>1 DEF bounds, files, store, marks
  <2> QED BY <1>7, <2>1, <2>2, <2>3, <2>4, <2>5, <2>6, <2>7, <2>8, <2>9, <2>10,
      <2>11, <2>12, <2>13, <2>14, <2>15, <2>16, <2>17 DEF RunStep
<1>8. ASSUME NEW p \in Passes, PassStep(p) PROVE StoreOK'
  <2>1. CASE PassWakes(p)
    BY <2>1 DEF PassWakes, bounds, files, store, caches, marks
  <2>2. CASE Stage(p)
    BY <2>2 DEF Stage, bounds, files, store, caches, marks
  <2>3. CASE StageFails(p)
    BY <2>3 DEF StageFails, EndPass, bounds, files, store, caches, marks
  <2>4. CASE Merge(p)
    BY <2>4 DEF Merge, bounds, files, store, caches, marks
  <2>5. CASE Send(p)
    BY <2>5 DEF Send, EndPass, bounds, files, store, caches, marks
  <2>6. CASE CancelPass(p)
    BY <2>6 DEF CancelPass, EndPass, bounds, files, store, caches, marks
  <2>7. CASE AnalyzeProject(p)
    <3>1. UNCHANGED <<settings, bounds, files, store, marks>> BY <2>7, Zenon DEF AnalyzeProject
    <3> QED BY <3>1 DEF bounds, files, store, marks
  <2>8. CASE AnalyzeProjectFails(p)
    BY <2>8 DEF AnalyzeProjectFails, EndPass, bounds, files, store, caches, marks
  <2>9. CASE InsertResults(p)
    BY <2>9 DEF InsertResults, bounds, files, store, caches, marks
  <2> QED BY <1>8, <2>1, <2>2, <2>3, <2>4, <2>5, <2>6, <2>7, <2>8, <2>9 DEF PassStep
<1>9. CASE UNCHANGED vars
  BY <1>9 DEF vars, bounds, files, store, caches, marks
<1> QED BY <1>1, <1>2, <1>3, <1>4, <1>5, <1>6, <1>7, <1>8, <1>9, KindsOfSteps

\* Every step keeps the types of the caches and of what is shown.
LEMMA CachesNext ==
    Typing /\ [Next]_vars => CachesOK'
<1> SUFFICES ASSUME Typing, [Next]_vars PROVE CachesOK'
  OBVIOUS
<1> USE DEF Typing, CachesOK
<1>1. ASSUME NEW d \in Docs, NEW kind \in Opening, NEW t \in NewTexts,
             Store(d, kind, t)
      PROVE  CachesOK'
  BY <1>1 DEF Store, bounds, files, store, caches, marks
<1>2. ASSUME NEW d \in Docs, LintFile(d) PROVE CachesOK'
  BY <1>2 DEF LintFile, bounds, files, store, caches, marks
<1>3. ASSUME NEW d \in Docs, NEW t \in NewOnDisk, DiskChange(d, t) PROVE CachesOK'
  BY <1>3 DEF DiskChange, bounds, files, store, caches, marks
<1>4. ASSUME NEW d \in Docs, DidSave(d) PROVE CachesOK'
  BY <1>4 DEF DidSave, bounds, files, store, caches, marks
<1>5. ASSUME NEW d \in Docs, DidClose(d) PROVE CachesOK'
  BY <1>5, Values DEF DidClose, bounds, files, store, caches, marks
<1>6. ASSUME NEW d \in Docs, DidChangeWatchedFile(d) PROVE CachesOK'
  BY <1>6 DEF DidChangeWatchedFile, bounds, files, store, caches, marks
<1>7. ASSUME NEW r \in Runs, RunStep(r) PROVE CachesOK'
  <2>1. CASE Wake(r)
    BY <2>1 DEF Wake, EndRun, bounds, files, store, caches, marks
  <2>2. CASE Check(r)
    BY <2>2 DEF Check, Finish, EndRun, bounds, files, store, caches, marks
  <2>3. CASE Record1(r)
    <3>1. UNCHANGED <<caches, shown>> /\ \E l \in Lists : Record(run[r].of, l)
      BY <2>3, Record1List
    <3> QED BY <3>1 DEF Record, RunsOK, RunStates, caches
  <2>4. CASE Phase1(r)
    <3>1. run[r].of \in Docs /\ run[r].list \in Lists BY DEF RunsOK, RunStates
    <3>2. \/ shown' = [shown EXCEPT ![run[r].of] = run[r].list]
          \/ UNCHANGED shown
      BY <2>4 DEF Phase1
    <3>3. UNCHANGED <<caches, published>> BY <2>4 DEF Phase1
    <3> QED BY <3>1, <3>2, <3>3 DEF caches
  <2>5. CASE Bridge(r)
    BY <2>5 DEF Bridge, Finish, EndRun, bounds, files, store, caches, marks
  <2>6. CASE Record2(r)
    <3>1. run[r].of \in Docs /\ run[r].list.ms \in Nat BY DEF RunsOK, RunStates,
        Lists
    <3>2. semantic' = [semantic EXCEPT ![run[r].of] = run[r].list.ms]
      <4>1. [run[r].list EXCEPT !.tx = Cached(transaction[run[r].of])].ms = run[r].list.ms
        BY DEF RunsOK, RunStates, Lists
      <4> QED BY <2>6, <4>1 DEF Record2
    <3>3. published' \subseteq Docs BY <2>6, <3>1 DEF Record2, Record
    <3> QED BY <2>6, <3>1, <3>2, <3>3 DEF Record2, bounds, files, store, caches, marks
  <2>7. CASE Phase2(r)
    <3>1. run[r].of \in Docs /\ run[r].list \in Lists BY DEF RunsOK, RunStates
    <3> QED BY <2>7, <3>1 DEF Phase2, Finish, EndRun, bounds, files, store, caches, marks
  <2>8. CASE AfterSave(r)
    BY <2>8 DEF AfterSave, bounds, files, store, caches, marks
  <2>9. CASE TxWake(r)
    BY <2>9 DEF TxWake, EndRun, bounds, files, store, caches, marks
  <2>10. CASE TxRecord(r)
    <3>1. PICK l \in Lists :
             /\ transaction' = [transaction EXCEPT ![run[r].of] = l.tx]
             /\ Record(run[r].of, l) \/ UNCHANGED published
      BY <2>10, TxRecordList
    <3>2. l.tx \in Nat /\ UNCHANGED <<semantic, shown>>
      BY <2>10, TxRecordList DEF Lists
    <3> QED BY <3>1, <3>2 DEF Record, RunsOK, RunStates
  <2>11. CASE TxPublish(r)
    <3>1. run[r].of \in Docs /\ run[r].list \in Lists BY DEF RunsOK, RunStates
    <3> QED BY <2>11, <3>1 DEF TxPublish, EndRun, bounds, files, store, caches, marks
  <2>12. CASE CloseRead(r)
    BY <2>12 DEF CloseRead, bounds, files, store, caches, marks
  <2>13. CASE CloseRestore(r)
    BY <2>13, Values DEF CloseRestore, EndRun, bounds, files, store, caches, marks,
        RunsOK, RunStates
  <2>14. CASE CancelRun(r)
    BY <2>14 DEF CancelRun, EndRun, bounds, files, store, caches, marks
  <2>15. CASE Indexed(r)
    BY <2>15 DEF Indexed, bounds, files, store, caches, marks
  <2>16. CASE IndexFails(r)
    BY <2>16 DEF IndexFails, bounds, files, store, caches, marks
  <2>17. CASE Arm(r)
    <3>1. UNCHANGED <<caches, published, shown>> BY <2>17, Zenon DEF Arm
    <3> QED BY <3>1 DEF caches
  <2> QED BY <1>7, <2>1, <2>2, <2>3, <2>4, <2>5, <2>6, <2>7, <2>8, <2>9, <2>10,
      <2>11, <2>12, <2>13, <2>14, <2>15, <2>16, <2>17 DEF RunStep
<1>8. ASSUME NEW p \in Passes, PassStep(p) PROVE CachesOK'
  <2>1. CASE PassWakes(p)
    BY <2>1 DEF PassWakes, bounds, files, store, caches, marks
  <2>2. CASE Stage(p)
    BY <2>2 DEF Stage, bounds, files, store, caches, marks
  <2>3. CASE StageFails(p)
    BY <2>3 DEF StageFails, EndPass, bounds, files, store, caches, marks
  <2>4. CASE Merge(p)
    BY <2>4 DEF Merge, bounds, files, store, caches, marks
  <2>5. CASE Send(p)
    <3>1. \A d \in Docs : pass[p].staged[d].list \in Lists
      BY DEF PassesOK, PassTables, PassStates, StagedStates
    <3>2. ShownAfter(p, Docs) \in [Docs -> Lists]
      BY <3>1, Values DEF ShownAfter
    <3>3. published' \subseteq Docs BY <2>5 DEF Send, Current, Kept
    <3> QED BY <2>5, <3>2, <3>3 DEF Send, bounds, files, store, caches, marks
  <2>6. CASE CancelPass(p)
    <3>1. \A d \in Docs : pass[p].staged[d].list \in Lists
      BY DEF PassesOK, PassTables, PassStates, StagedStates
    <3>2. \A D \in SUBSET Docs : ShownAfter(p, D) \in [Docs -> Lists]
      BY <3>1, Values DEF ShownAfter
    <3> QED BY <2>6, <3>2 DEF CancelPass, bounds, files, store, caches, marks
  <2>7. CASE AnalyzeProject(p)
    <3>1. UNCHANGED <<caches, published, shown>> BY <2>7 DEF AnalyzeProject
    <3> QED BY <3>1 DEF caches
  <2>8. CASE AnalyzeProjectFails(p)
    BY <2>8 DEF AnalyzeProjectFails, EndPass, bounds, files, store, caches, marks
  <2>9. CASE InsertResults(p)
    <3>1. \A d \in Docs : pass[p].staged[d].list.ms \in Nat
      BY DEF PassesOK, PassTables, PassStates, StagedStates, Lists
    <3> QED BY <2>9, <3>1 DEF InsertResults, bounds, files, store, caches, marks
  <2> QED BY <1>8, <2>1, <2>2, <2>3, <2>4, <2>5, <2>6, <2>7, <2>8, <2>9 DEF PassStep
<1>9. CASE UNCHANGED vars
  BY <1>9 DEF vars, bounds, files, store, caches, marks
<1> QED BY <1>1, <1>2, <1>3, <1>4, <1>5, <1>6, <1>7, <1>8, <1>9, KindsOfSteps

-----------------------------------------------------------------------------
(* What a step does to the publications of single files.                   *)

\* did_change arms the debounced task of the document again.
Replaced(d) == \E r \in Runs : Arm(r) /\ run[r].of = d

\* A publication another one may take the place of: none, or one that sleeps
\* and was aborted.
Free(o) ==
    \/ run[o].pc = "idle"
    \/ /\ run[o].pc \in Sleeping
       /\ \/ run[o].kind = "transaction"
          \/ doc'[run[o].of] # doc[run[o].of] \/ Replaced(run[o].of)

\* A publication that may end.
Over(o) ==
    \/ o \in aborted
    \/ run[o].pc = "sleep" /\ ~IsOpen(run[o].of)
    \/ run[o].pc \in {"check", "phase1"} /\ ~IsCurrent(o)
    \/ run[o].pc \in {"bridge", "phase2", "after", "tx_sleep", "tx_record",
                      "tx_publish"}
    \/ CloseRestore(o) \/ IndexFails(o)

Starts(o) ==
    \E d \in Docs :
        \/ /\ \E kind \in Opening : run'[o] = NewRun(kind, "index", d, doc'[d])
           /\ LockIsFree /\ doc'[d] # NoText /\ pass' = pass
        \/ run'[o] = NewRun("open", "check", d, doc'[d])
        \/ run'[o] = NewRun("save", "check", d, doc'[d])
        \/ run'[o] = NewRun("close", "close_read", d, NoText)
        \/ \E q \in Runs : run'[o] = NewRun("transaction", "tx_sleep", d, run[q].text)

Goes(o, from, to) == run[o].pc = from /\ run'[o].pc = to

\* The step keeps the native and the project findings of publication o.
KeepsList(o) ==
    /\ run'[o].list.native = run[o].list.native
    /\ run'[o].list.proj = run[o].list.proj

GoesOn(o) ==
    /\ run'[o] \in RunStates
    /\ run'[o].kind = run[o].kind /\ run'[o].of = run[o].of
    /\ \/ Goes(o, "sleep", "check") /\ run'[o].text = doc[run[o].of]
       \/ /\ Goes(o, "close_read", "close_restore")
          /\ run'[o].text \in {disk[run[o].of], NoText}
       \/ /\ run'[o].text = run[o].text
          /\ \/ Goes(o, "check", "record1") \/ Goes(o, "tx_sleep", "tx_record")
             \/ Goes(o, "index", "check") /\ Indexed(o)
             \/ Goes(o, "index", "arm") /\ Indexed(o) /\ run[o].kind # "open"
             \/ /\ Goes(o, "record1", "phase1") \/ Goes(o, "tx_record", "tx_publish")
                /\ MadeFor(o, run'[o].list)
             \/ /\ Goes(o, "phase1", "bridge") /\ IsCurrent(o)
                /\ KeepsList(o) /\ shown'[run[o].of] = run[o].list
             \/ /\ Goes(o, "bridge", "record2") \/ Goes(o, "record2", "phase2")
                /\ KeepsList(o)

Fate(o) ==
    \/ run'[o] = run[o]
    \/ run'[o] = NoRun /\ (Free(o) \/ Arm(o) \/ (Over(o) /\ o \notin aborted'))
    \/ run'[o] = NewRun("debounced", "sleep", run[o].of, NoText) /\ Arm(o)
    \/ /\ run'[o] = NewRun("save", "after", run[o].of, NoText)
       /\ Over(o) /\ run[o].kind = "save" /\ settings.project
    \/ Free(o) /\ Starts(o)
    \/ GoesOn(o)

Fates == run' = [o \in Runs |-> run'[o]] /\ \A o \in Runs : Fate(o)

\* No publication moves.
LEMMA SameFates ==
    ASSUME RunsOK, run' = run PROVE Fates
BY DEF RunsOK, Fates, Fate

\* Only publication r moves.
LEMMA OneFate ==
    ASSUME RunsOK, NEW r \in Runs, NEW x, run' = [run EXCEPT ![r] = x],
           run'[r] = x => Fate(r)
    PROVE  Fates
BY DEF RunsOK, Fates, Fate

\* Publication r ends.
LEMMA EndFate ==
    ASSUME RunsOK, NEW r \in Runs, EndRun(r), Over(r) PROVE Fates
<1>1. run' = [run EXCEPT ![r] = NoRun] /\ r \notin aborted' BY DEF EndRun
<1> QED BY <1>1, OneFate DEF Fate

\* publish_diagnostics returns in publication r.
LEMMA FinishFate ==
    ASSUME RunsOK, NEW r \in Runs, Finish(r), Over(r) PROVE Fates
<1>1. CASE run[r].kind = "save" /\ settings.project
  <2>1. run' = [run EXCEPT ![r] = NewRun("save", "after", run[r].of, NoText)]
    BY <1>1 DEF Finish
  <2> QED BY <1>1, <2>1, OneFate DEF Fate
<1>2. CASE ~(run[r].kind = "save" /\ settings.project)
  BY <1>2, EndFate DEF Finish
<1> QED BY <1>1, <1>2

\* The stamps of the documents are not ahead of the counter.
DocStamps == \A d \in Docs : doc[d].id <= texts

\* A text from the editor has a stamp that no text of the store has.
LEMMA NewTextDiffers ==
    ASSUME StoreOK, DocStamps, NEW d \in Docs, NEW kind, NEW t \in NewTexts,
           Store(d, kind, t)
    PROVE  /\ doc'[d] # doc[d] /\ doc'[d] = t /\ doc'[d] # NoText
           /\ doc'[d].id = texts' /\ texts' = texts + 1
           /\ \A e \in Docs \ {d} : doc'[e] = doc[e]
<1>1. texts \in Nat /\ doc[d].id \in Nat /\ doc[d].id <= texts
  BY DEF StoreOK, Texts, DocStamps
<1>2. t.id = texts + 1 /\ t # NoText BY NewTextType
<1>3. doc' = [doc EXCEPT ![d] = t] /\ texts' = texts + 1 BY DEF Store
<1> QED BY <1>1, <1>2, <1>3 DEF StoreOK

\* Every step moves each publication in one of the ways of Fate.
LEMMA RunFates ==
    Typing /\ DocStamps /\ [Next]_vars => Fates
<1> SUFFICES ASSUME Typing, DocStamps, [Next]_vars PROVE Fates
  OBVIOUS
<1> USE DEF Typing
<1>1. ASSUME NEW d \in Docs, NEW kind \in Opening, NEW t \in NewTexts,
             Store(d, kind, t)
      PROVE  Fates
  <2>1. PICK o \in Runs : /\ run[o].pc = "idle"
                          /\ run' = [run EXCEPT ![o] = NewRun(kind, "index", d, t)]
    BY <1>1 DEF Store
  <2>2. doc'[d] = t /\ doc'[d] # NoText BY <1>1, NewTextDiffers
  <2>3. LockIsFree /\ pass' = pass BY <1>1 DEF Store
  <2> QED BY <2>1, <2>2, <2>3, OneFate DEF Fate, Free, Starts
<1>2. ASSUME NEW d \in Docs, LintFile(d) PROVE Fates
  <2>1. PICK o \in Runs : /\ run[o].pc = "idle"
                          /\ run' = [run EXCEPT ![o] = NewRun("open", "check", d, doc[d])]
    BY <1>2 DEF LintFile
  <2>2. doc'[d] = doc[d] BY <1>2 DEF LintFile, store
  <2> QED BY <2>1, <2>2, OneFate DEF Fate, Free, Starts
<1>3. ASSUME NEW d \in Docs, NEW t \in NewOnDisk, DiskChange(d, t) PROVE Fates
  BY <1>3, SameFates DEF DiskChange
<1>4. ASSUME NEW d \in Docs, DidSave(d) PROVE Fates
  <2>1. PICK o \in Runs : /\ run[o].pc = "idle"
                          /\ run' = [run EXCEPT ![o] = NewRun("save", "check", d, doc[d])]
    BY <1>4 DEF DidSave
  <2>2. doc'[d] = doc[d] BY <1>4 DEF DidSave, store
  <2> QED BY <2>1, <2>2, OneFate DEF Fate, Free, Starts
<1>5. ASSUME NEW d \in Docs, DidClose(d) PROVE Fates
  <2> DEFINE armed == RunsOf(d, "debounced") \cup RunsOf(d, "transaction")
  <2> DEFINE rest == RunsWithout(armed)
  <2> HIDE DEF armed, rest
  <2>1. doc'[d] # doc[d] BY <1>5 DEF DidClose, IsOpen, StoreOK
  <2>2. PICK q \in Runs : /\ rest[q].pc = "idle"
                          /\ run' = [rest EXCEPT ![q] = NewRun("close", "close_read", d, NoText)]
    BY <1>5 DEF DidClose, rest, armed
  <2>3. \A o \in Runs : rest[o] = run[o] \/ (rest[o] = NoRun /\ Free(o))
    BY <2>1, RunsWithoutType DEF armed, rest, RunsOf, Free
  <2>4. rest \in [Runs -> RunStates] BY RunsWithoutType DEF rest
  <2>5. \A o \in Runs \ {q} : run'[o] = rest[o] BY <2>2, <2>4
  <2>6. run'[q] = NewRun("close", "close_read", d, NoText) BY <2>2, <2>4
  <2>7. Free(q) BY <2>2, <2>3 DEF Free
  <2>8. run' = [o \in Runs |-> run'[o]] BY <2>2, <2>4
  <2> QED BY <2>3, <2>5, <2>6, <2>7, <2>8 DEF Fates, Fate, Starts
<1>6. ASSUME NEW d \in Docs, DidChangeWatchedFile(d) PROVE Fates
  BY <1>6, SameFates DEF DidChangeWatchedFile
<1>7. ASSUME NEW r \in Runs, RunStep(r) PROVE Fates
  <2>1. CASE Wake(r)
    <3>1. CASE IsOpen(run[r].of)
      <4>1. run' = [run EXCEPT ![r] = [run[r] EXCEPT !.pc = "check", !.text = doc[run[r].of]]]
        BY <2>1, <3>1 DEF Wake, EndRun
      <4>2. Fate(r) BY <2>1, <4>1 DEF Wake, Fate, GoesOn, Goes, RunsOK,
          RunStates, RunSteps, StoreOK
      <4> QED BY <4>1, <4>2, OneFate
    <3>2. CASE ~IsOpen(run[r].of) BY <2>1, <3>2, EndFate DEF Wake, Over
    <3> QED BY <3>1, <3>2
  <2>2. CASE Check(r)
    <3>1. CASE IsCurrent(r)
      <4>1. run' = [run EXCEPT ![r] = [run[r] EXCEPT !.pc = "record1"]]
        BY <2>2, <3>1 DEF Check
      <4>2. Fate(r) BY <2>2, <4>1 DEF Check, Fate, GoesOn, Goes, RunsOK,
          RunStates, RunSteps
      <4> QED BY <4>1, <4>2, OneFate
    <3>2. CASE ~IsCurrent(r) BY <2>2, <3>2, FinishFate DEF Check, Over
    <3> QED BY <3>1, <3>2
  <2>3. CASE Record1(r)
    <3>1. PICK l \in Lists :
             /\ run' = [run EXCEPT ![r] = [run[r] EXCEPT !.pc = "phase1", !.list = l]]
             /\ MadeFor(r, l)
      BY <2>3, Record1List
    <3>2. run[r].pc = "record1" BY <2>3, Record1List
    <3>3. run'[r] = [run[r] EXCEPT !.pc = "phase1", !.list = l] BY <3>1 DEF RunsOK
    <3>4. run'[r].list = l /\ MadeFor(r, run'[r].list)
      BY <3>1, <3>3 DEF RunsOK, RunStates
    <3>5. Fate(r) BY <3>2, <3>3, <3>4 DEF Fate, GoesOn, Goes, RunsOK,
        RunStates, RunSteps
    <3> QED BY <3>1, <3>5, OneFate
  <2>4. CASE Phase1(r)
    <3>1. CASE IsCurrent(r)
      <4> DEFINE armed == RunsOf(run[r].of, "transaction")
      <4> DEFINE other == RunsWithout(armed)
      <4> DEFINE rest == [other EXCEPT ![r].pc = "bridge",
                            ![r].list = [Empty EXCEPT !.native = run[r].list.native,
                                                      !.proj = run[r].list.proj]]
      <4> DEFINE new(q) == NewRun("transaction", "tx_sleep", run[r].of, run[r].text)
      <4> DEFINE free == {q \in Runs : rest[q].pc = "idle"}
      <4>01. (\E q \in free : run' = [rest EXCEPT ![q] = new(q)]) \/ (free = {} /\ run' = rest)
        BY <2>4, <3>1, Zenon DEF Phase1
      <4>02. shown' = [shown EXCEPT ![run[r].of] = run[r].list] BY <2>4, <3>1,
          Zenon DEF Phase1
      <4>03. run[r].pc = "phase1" BY <2>4, Zenon DEF Phase1
      <4>1. /\ run[r].pc = "phase1"
            /\ shown' = [shown EXCEPT ![run[r].of] = run[r].list]
            /\ \/ run' = rest
               \/ \E q \in Runs : rest[q].pc = "idle" /\ run' = [rest EXCEPT ![q] = new(q)]
        <5> HIDE DEF rest, new
        <5> QED BY <4>01, <4>02, <4>03
      <4>2. /\ other \in [Runs -> RunStates] /\ other[r] = run[r]
            /\ \A o \in Runs : other[o] = run[o] \/ (other[o] = NoRun /\ Free(o))
        <5> HIDE DEF armed
        <5>1. \A o \in Runs : other[o] = run[o] \/ (other[o] = NoRun /\ o \in armed
                                                     /\ run[o].pc \in Sleeping)
          BY RunsWithoutType
        <5>2. other[r] = run[r] BY <4>1, <5>1 DEF Sleeping
        <5> QED BY <5>1, <5>2, RunsWithoutType DEF armed, RunsOf, Free
      <4> HIDE DEF other
      <4>3. /\ rest \in [Runs -> RunStates]
            /\ rest[r].pc = "bridge" /\ rest[r].kind = run[r].kind /\ rest[r].of = run[r].of
            /\ rest[r].text = run[r].text /\ rest[r].list.native = run[r].list.native
            /\ rest[r].list.proj = run[r].list.proj
            /\ \A o \in Runs \ {r} : rest[o] = other[o]
        <5> DEFINE l == [Empty EXCEPT !.native = run[r].list.native, !.proj = run[r].list.proj]
        <5>1. run[r].list \in Lists BY DEF RunsOK, RunStates
        <5>2. l \in Lists /\ l.native = run[r].list.native /\ l.proj = run[r].list.proj
          BY <5>1, Values DEF Lists, Empty
        <5>3. rest = [other EXCEPT ![r] = [other[r] EXCEPT !.pc = "bridge", !.list = l]]
          BY <4>2
        <5> HIDE DEF l, rest
        <5> QED BY <4>2, <5>2, <5>3 DEF RunStates, RunSteps
      <4>4. shown'[run[r].of] = run[r].list BY <4>1 DEF CachesOK, RunsOK, RunStates
      <4> HIDE DEF rest
      <4>5. ASSUME run'[r] = rest[r] PROVE Fate(r)
        BY <3>1, <4>1, <4>3, <4>4, <4>5 DEF Fate, GoesOn, Goes, KeepsList
      <4>6. CASE run' = rest BY <4>2, <4>3, <4>5, <4>6 DEF Fates, Fate
      <4>7. ASSUME NEW q \in Runs, rest[q].pc = "idle", run' = [rest EXCEPT ![q] = new(q)]
            PROVE  Fates
        <5>1. q # r BY <4>3, <4>7
        <5>2. \A o \in Runs \ {q} : run'[o] = rest[o] BY <4>3, <4>7
        <5>3. run'[q] = new(q) BY <4>3, <4>7
        <5>4. Free(q) BY <4>2, <4>3, <4>7, <5>1 DEF Free
        <5>5. run' = [o \in Runs |-> run'[o]] BY <4>3, <4>7
        <5>6. run[r].of \in Docs BY DEF RunsOK, RunStates
        <5>7. Fate(q) BY <5>3, <5>4, <5>6 DEF Fate, Starts
        <5> QED BY <4>2, <4>3, <4>5, <5>1, <5>2, <5>5, <5>7 DEF Fates, Fate
      <4> QED BY <4>1, <4>6, <4>7
    <3>2. CASE ~IsCurrent(r) BY <2>4, <3>2, FinishFate DEF Phase1, Over
    <3> QED BY <3>1, <3>2
  <2>5. CASE Bridge(r)
    <3>0. run[r].pc = "bridge" BY <2>5 DEF Bridge
    <3>1. CASE Finish(r) BY <3>0, <3>1, FinishFate DEF Over
    <3>2. CASE ~Finish(r)
      <4>1. run' = [run EXCEPT ![r] = [run[r] EXCEPT !.pc = "record2",
                                           !.list.ms = MsOf(run[r].text)]]
        BY <2>5, <3>2 DEF Bridge
      <4>2. MsOf(run[r].text) \in Nat BY FindingsType DEF RunsOK, RunStates
      <4>3. Fate(r) BY <3>0, <4>1, <4>2 DEF Fate, GoesOn, Goes, KeepsList,
          RunsOK, RunStates, RunSteps, Lists
      <4> QED BY <4>1, <4>3, OneFate
    <3> QED BY <3>1, <3>2
  <2>6. CASE Record2(r)
    <3> DEFINE tx == Cached(transaction[run[r].of])
    <3>0. tx \in Nat BY CachedType DEF RunsOK, RunStates, CachesOK
    <3> HIDE DEF tx
    <3>1. run' = [run EXCEPT ![r] = [run[r] EXCEPT !.pc = "phase2",
                                         !.list = [run[r].list EXCEPT !.tx = tx]]]
      BY <2>6 DEF Record2, tx
    <3>2. run[r].pc = "record2" BY <2>6 DEF Record2
    <3>3. Fate(r) BY <3>0, <3>1, <3>2 DEF Fate, GoesOn, Goes, KeepsList, RunsOK,
        RunStates, RunSteps, Lists
    <3> QED BY <3>1, <3>3, OneFate
  <2>7. CASE Phase2(r)
    BY <2>7, FinishFate DEF Phase2, Over
  <2>8. CASE AfterSave(r)
    <3>1. run' = [run EXCEPT ![r] = NoRun] /\ Over(r) BY <2>8 DEF AfterSave, Over
    <3>2. r \notin aborted' BY <2>8, TasksAssumption DEF AfterSave,
        RunningPasses, Republishing
    <3> QED BY <3>1, <3>2, OneFate DEF Fate
  <2>9. CASE TxWake(r)
    <3>0. run[r].pc = "tx_sleep" BY <2>9 DEF TxWake
    <3>1. CASE IsCurrent(r)
      <4>1. run' = [run EXCEPT ![r] = [run[r] EXCEPT !.pc = "tx_record"]]
        BY <2>9, <3>1 DEF TxWake
      <4>2. Fate(r) BY <3>0, <4>1 DEF Fate, GoesOn, Goes, RunsOK, RunStates,
          RunSteps
      <4> QED BY <4>1, <4>2, OneFate
    <3>2. CASE ~IsCurrent(r) BY <2>9, <3>0, <3>2, EndFate DEF TxWake, Over
    <3> QED BY <3>1, <3>2
  <2>10. CASE TxRecord(r)
    <3>0. run[r].pc = "tx_record" BY <2>10, TxRecordList
    <3>1. CASE EndRun(r) BY <3>0, <3>1, EndFate DEF Over
    <3>2. CASE ~EndRun(r)
      <4>1. PICK l \in Lists :
               /\ run' = [run EXCEPT ![r] = [run[r] EXCEPT !.pc = "tx_publish", !.list = l]]
               /\ MadeFor(r, l)
        BY <2>10, <3>2, TxRecordList
      <4>3. run'[r] = [run[r] EXCEPT !.pc = "tx_publish", !.list = l] BY <4>1 DEF RunsOK
      <4>4. run'[r].list = l /\ MadeFor(r, run'[r].list)
        BY <4>1, <4>3 DEF RunsOK, RunStates
      <4>5. Fate(r) BY <3>0, <4>3, <4>4 DEF Fate, GoesOn, Goes, RunsOK,
          RunStates, RunSteps
      <4> QED BY <4>1, <4>5, OneFate
    <3> QED BY <3>1, <3>2
  <2>11. CASE TxPublish(r)
    BY <2>11, EndFate DEF TxPublish, Over
  <2>12. CASE CloseRead(r)
    <3>1. PICK t \in {disk[run[r].of], NoText} :
             run' = [run EXCEPT ![r] = [run[r] EXCEPT !.pc = "close_restore", !.text = t]]
      BY <2>12 DEF CloseRead
    <3>2. run[r].pc = "close_read" BY <2>12 DEF CloseRead
    <3>3. t \in Texts BY Values DEF StoreOK, RunsOK, RunStates
    <3>4. Fate(r) BY <3>1, <3>2, <3>3 DEF Fate, GoesOn, Goes, RunsOK, RunStates,
        RunSteps
    <3> QED BY <3>1, <3>4, OneFate
  <2>13. CASE CloseRestore(r)
    <3>1. EndRun(r) /\ Over(r) BY <2>13 DEF CloseRestore, Over
    <3> QED BY <3>1, EndFate
  <2>14. CASE CancelRun(r)
    BY <2>14, EndFate DEF CancelRun, Over
  <2>15. CASE Indexed(r)
    <3> DEFINE pc == IF run[r].kind = "open" THEN "check" ELSE "arm"
    <3>1. run' = [run EXCEPT ![r] = [run[r] EXCEPT !.pc = pc]]
      BY <2>15 DEF Indexed
    <3>2. run[r].pc = "index" BY <2>15 DEF Indexed
    <3>3. Fate(r) BY <2>15, <3>1, <3>2 DEF Fate, GoesOn, Goes, RunsOK, RunStates, RunSteps
    <3> QED BY <3>1, <3>3, OneFate
  <2>16. CASE IndexFails(r)
    BY <2>16, EndFate DEF IndexFails, Over
  <2>17. CASE Arm(r)
    <3> DEFINE armed == RunsOf(run[r].of, "debounced")
    <3> DEFINE rest == RunsWithout(armed)
    <3> DEFINE new == NewRun("debounced", "sleep", run[r].of, NoText)
    <3>1. run[r].pc = "arm" BY <2>17, Zenon DEF Arm
    <3>2. run' = [rest EXCEPT ![r] = new] \/ run' = [rest EXCEPT ![r] = NoRun]
      BY <2>17, Zenon DEF Arm, Rearmed
    <3> HIDE DEF armed, new
    <3>3. /\ rest \in [Runs -> RunStates]
          /\ \A o \in Runs : \/ rest[o] = run[o]
                             \/ rest[o] = NoRun /\ o \in armed /\ run[o].pc \in Sleeping
      BY RunsWithoutType
    <3>4. \A o \in armed : run[o].of = run[r].of BY DEF armed, RunsOf
    <3>5. Replaced(run[r].of) BY <2>17 DEF Replaced
    <3> HIDE DEF rest
    <3>6. \A o \in Runs \ {r} : run'[o] = rest[o] BY <3>2, <3>3
    <3>7. \A o \in Runs \ {r} : Fate(o) BY <3>3, <3>4, <3>5, <3>6 DEF Fate, Free
    <3>8. run'[r] = new \/ run'[r] = NoRun BY <3>2, <3>3
    <3>9. Fate(r) BY <2>17, <3>8 DEF Fate, new
    <3>10. run' = [o \in Runs |-> run'[o]] BY <3>2, <3>3
    <3> QED BY <3>7, <3>9, <3>10 DEF Fates
  <2> QED BY <1>7, <2>1, <2>2, <2>3, <2>4, <2>5, <2>6, <2>7, <2>8, <2>9, <2>10,
      <2>11, <2>12, <2>13, <2>14, <2>15, <2>16, <2>17 DEF RunStep
<1>8. ASSUME NEW p \in Passes, PassStep(p) PROVE Fates
  <2>1. CASE PassWakes(p)
    BY <2>1, SameFates DEF PassWakes
  <2>2. CASE Stage(p)
    BY <2>2, SameFates DEF Stage
  <2>3. CASE StageFails(p)
    BY <2>3, SameFates DEF StageFails
  <2>4. CASE Merge(p)
    BY <2>4, SameFates DEF Merge
  <2>5. CASE Send(p)
    BY <2>5, SameFates DEF Send
  <2>6. CASE CancelPass(p)
    BY <2>6, SameFates DEF CancelPass
  <2>7. CASE AnalyzeProject(p)
    BY <2>7, SameFates DEF AnalyzeProject
  <2>8. CASE AnalyzeProjectFails(p)
    BY <2>8, SameFates DEF AnalyzeProjectFails
  <2>9. CASE InsertResults(p)
    BY <2>9, SameFates DEF InsertResults
  <2> QED BY <1>8, <2>1, <2>2, <2>3, <2>4, <2>5, <2>6, <2>7, <2>8, <2>9 DEF PassStep
<1>9. CASE UNCHANGED vars
  BY <1>9, SameFates DEF vars
<1> QED BY <1>1, <1>2, <1>3, <1>4, <1>5, <1>6, <1>7, <1>8, <1>9, KindsOfSteps

\* The publications that are started have their types.
LEMMA NewRuns ==
    \A d \in Docs, t \in Texts :
        /\ \A kind \in Opening : NewRun(kind, "index", d, t) \in RunStates
        /\ NewRun("open", "check", d, t) \in RunStates
        /\ NewRun("save", "check", d, t) \in RunStates
        /\ NewRun("save", "after", d, t) \in RunStates
        /\ NewRun("debounced", "sleep", d, t) \in RunStates
        /\ NewRun("close", "close_read", d, t) \in RunStates
        /\ NewRun("transaction", "tx_sleep", d, t) \in RunStates
BY NewRunType DEF RunKinds, RunSteps, Opening

\* Every step keeps the types of the publications.
LEMMA RunsNext ==
    ASSUME Typing, Typing' \/ (StoreOK' /\ CachesOK'), Fates PROVE RunsOK'
<1>1. ASSUME NEW o \in Runs PROVE run'[o] \in RunStates
  <2>1. Fate(o) BY DEF Fates
  <2>2. ASSUME Starts(o) PROVE run'[o] \in RunStates
    <3>1. \A d \in Docs : doc'[d] \in Texts BY DEF Typing, StoreOK
    <3>2. \A q \in Runs : run[q].text \in Texts BY DEF Typing, RunsOK, RunStates
    <3> QED BY <2>2, <3>1, <3>2, NewRuns, Values DEF Starts
  <2>3. /\ NewRun("save", "after", run[o].of, NoText) \in RunStates
        /\ NewRun("debounced", "sleep", run[o].of, NoText) \in RunStates
    BY NewRuns, Values DEF Typing, RunsOK, RunStates
  <2> QED BY <2>1, <2>2, <2>3, NoRunType DEF Fate, GoesOn, Typing, RunsOK
<1> QED BY <1>1 DEF Fates, RunsOK


-----------------------------------------------------------------------------
(* What a step does to the texts.                                          *)

\* A document keeps its text and its marks; or it is closed or takes a text
\* with a new stamp, and no other handler holds the lock.  What is written to
\* disk is recorded.
Env ==
    /\ texts <= texts' /\ settings' = settings
    /\ \A d \in Docs :
          /\ onDisk[d] \subseteq onDisk'[d]
          /\ \/ disk'[d] = disk[d]
             \/ disk'[d].id <= texts' /\ disk'[d].id \in onDisk'[d]
          /\ \/ /\ doc'[d] = doc[d]
                /\ d \in failed => d \in failed'
                /\ d \in ahead => d \in ahead'
             \/ /\ NoWriter
                /\ \/ doc'[d] = NoText
                   \/ doc'[d].id > texts /\ doc'[d].id <= texts'

\* Every step changes texts only as Env says.
LEMMA EnvNext ==
    Typing /\ DocStamps /\ [Next]_vars => Env
<1> SUFFICES ASSUME Typing, DocStamps, [Next]_vars PROVE Env
  OBVIOUS
<1> USE DEF Typing, StoreOK, Env
<1>1. ASSUME NEW d \in Docs, NEW kind \in Opening, NEW t \in NewTexts,
             Store(d, kind, t)
      PROVE  Env
  <2>1. \A e \in Docs \ {d} : doc'[e] = doc[e] BY <1>1, NewTextDiffers
  <2>2. doc'[d].id = texts' /\ texts' = texts + 1 BY <1>1, NewTextDiffers
  <2>3. UNCHANGED <<settings, files>> /\ NoWriter BY <1>1 DEF Store, LockIsFree
  <2>4. failed' = failed \ {d} /\ ahead' = ahead \ {d} BY <1>1 DEF Store
  <2> QED BY <2>1, <2>2, <2>3, <2>4 DEF files
<1>2. ASSUME NEW d \in Docs, LintFile(d) PROVE Env
  BY <1>2 DEF LintFile, bounds, files, store, caches, marks
<1>3. ASSUME NEW d \in Docs, NEW t \in NewOnDisk, DiskChange(d, t) PROVE Env
  <2>1. t = NoText \/ \E f \in Findings : t = Text(texts + 1, 0, f) BY DEF NewOnDisk
  <2>2. texts \in Nat /\ texts + 1 \in Nat /\ 0 \in Nat OBVIOUS
  <2>3. t.id <= texts + 1 BY <2>1, <2>2, TextType, Values
  <2> QED BY <1>3, <2>2, <2>3 DEF DiskChange, store, marks
<1>4. ASSUME NEW d \in Docs, DidSave(d) PROVE Env
  <2>1. doc[d].id <= texts BY DEF DocStamps
  <2> QED BY <1>4, <2>1 DEF DidSave, bounds, files, store, caches, marks
<1>5. ASSUME NEW d \in Docs, DidClose(d) PROVE Env
  <2>1. NoWriter /\ doc' = [doc EXCEPT ![d] = NoText] BY <1>5 DEF DidClose, LockIsFree
  <2>2. failed' = failed \ {d} /\ ahead' = ahead \ {d} BY <1>5 DEF DidClose
  <2>3. UNCHANGED <<settings, bounds, files>> BY <1>5 DEF DidClose
  <2> QED BY <2>1, <2>2, <2>3 DEF bounds, files
<1>6. ASSUME NEW d \in Docs, DidChangeWatchedFile(d) PROVE Env
  BY <1>6 DEF DidChangeWatchedFile, bounds, files, store, caches, marks
<1>7. ASSUME NEW r \in Runs, RunStep(r) PROVE Env
  <2>1. CASE Wake(r)
    BY <2>1 DEF Wake, EndRun, bounds, files, store, caches, marks
  <2>2. CASE Check(r)
    BY <2>2 DEF Check, Finish, EndRun, bounds, files, store, caches, marks
  <2>3. CASE Record1(r)
    <3>1. UNCHANGED <<settings, bounds, files, store>> BY <2>3, Record1List
    <3>2. \E works \in BOOLEAN : Mark(r, works) BY <2>3, Record1List
    <3> QED BY <3>1, <3>2 DEF Mark, bounds, files, store
  <2>4. CASE Phase1(r)
    <3>1. UNCHANGED <<settings, bounds, files, store, marks>> BY <2>4, Zenon DEF Phase1
    <3> QED BY <3>1 DEF bounds, files, store, marks
  <2>5. CASE Bridge(r)
    BY <2>5 DEF Bridge, Finish, EndRun, bounds, files, store, caches, marks
  <2>6. CASE Record2(r)
    BY <2>6 DEF Record2, bounds, files, store, caches, marks
  <2>7. CASE Phase2(r)
    BY <2>7 DEF Phase2, Finish, EndRun, bounds, files, store, caches, marks
  <2>8. CASE AfterSave(r)
    BY <2>8 DEF AfterSave, bounds, files, store, caches, marks
  <2>9. CASE TxWake(r)
    BY <2>9 DEF TxWake, EndRun, bounds, files, store, caches, marks
  <2>10. CASE TxRecord(r)
    <3>1. UNCHANGED <<settings, bounds, files, store>> BY <2>10, TxRecordList
    <3>2. UNCHANGED marks \/ \E works \in BOOLEAN : Mark(r, works)
      BY <2>10, TxRecordList DEF marks
    <3> QED BY <3>1, <3>2 DEF Mark, bounds, files, store, marks
  <2>11. CASE TxPublish(r)
    BY <2>11 DEF TxPublish, EndRun, bounds, files, store, caches, marks
  <2>12. CASE CloseRead(r)
    BY <2>12 DEF CloseRead, bounds, files, store, caches, marks
  <2>13. CASE CloseRestore(r)
    BY <2>13 DEF CloseRestore, EndRun, bounds, files, store, caches, marks
  <2>14. CASE CancelRun(r)
    BY <2>14 DEF CancelRun, EndRun, bounds, files, store, caches, marks
  <2>15. CASE Indexed(r)
    BY <2>15 DEF Indexed, bounds, files, store, caches, marks
  <2>16. CASE IndexFails(r)
    BY <2>16 DEF IndexFails, bounds, files, store, caches, marks
  <2>17. CASE Arm(r)
    <3>1. UNCHANGED <<settings, bounds, files, store, marks>> BY <2>17, Zenon DEF Arm
    <3> QED BY <3>1 DEF bounds, files, store, marks
  <2> QED BY <1>7, <2>1, <2>2, <2>3, <2>4, <2>5, <2>6, <2>7, <2>8, <2>9, <2>10,
      <2>11, <2>12, <2>13, <2>14, <2>15, <2>16, <2>17 DEF RunStep
<1>8. ASSUME NEW p \in Passes, PassStep(p) PROVE Env
  <2>1. CASE PassWakes(p)
    BY <2>1 DEF PassWakes, bounds, files, store, caches, marks
  <2>2. CASE Stage(p)
    BY <2>2 DEF Stage, bounds, files, store, caches, marks
  <2>3. CASE StageFails(p)
    BY <2>3 DEF StageFails, EndPass, bounds, files, store, caches, marks
  <2>4. CASE Merge(p)
    BY <2>4 DEF Merge, bounds, files, store, caches, marks
  <2>5. CASE Send(p)
    BY <2>5 DEF Send, EndPass, bounds, files, store, caches, marks
  <2>6. CASE CancelPass(p)
    BY <2>6 DEF CancelPass, EndPass, bounds, files, store, caches, marks
  <2>7. CASE AnalyzeProject(p)
    <3>1. UNCHANGED <<settings, bounds, files, store, marks>> BY <2>7, Zenon DEF AnalyzeProject
    <3> QED BY <3>1 DEF bounds, files, store, marks
  <2>8. CASE AnalyzeProjectFails(p)
    BY <2>8 DEF AnalyzeProjectFails, EndPass, bounds, files, store, caches, marks
  <2>9. CASE InsertResults(p)
    BY <2>9 DEF InsertResults, bounds, files, store, caches, marks
  <2> QED BY <1>8, <2>1, <2>2, <2>3, <2>4, <2>5, <2>6, <2>7, <2>8, <2>9 DEF PassStep
<1>9. CASE UNCHANGED vars
  BY <1>9 DEF vars, bounds, files, store, caches, marks
<1> QED BY <1>1, <1>2, <1>3, <1>4, <1>5, <1>6, <1>7, <1>8, <1>9, KindsOfSteps

\* Stamps of documents stay behind the counter.
LEMMA DocStampsNext ==
    ASSUME Typing, StoreOK', DocStamps, Env PROVE DocStamps'
<1>1. texts \in Nat /\ texts' \in Nat /\ \A d \in Docs : doc[d].id \in Nat
  BY DEF Typing, StoreOK, Texts
<1> QED BY <1>1, Values DEF DocStamps, Env

\* Every step keeps the types of the passes, and what they stage is of the text they read.
LEMMA PassesNext ==
    Typing /\ [Next]_vars => PassesOK'
<1> SUFFICES ASSUME Typing, [Next]_vars PROVE PassesOK'
  OBVIOUS
<1> USE DEF Typing
<1>1. ASSUME NEW d \in Docs, NEW kind \in Opening, NEW t \in NewTexts,
             Store(d, kind, t)
      PROVE  PassesOK'
  BY <1>1 DEF Store, PassesOK
<1>2. ASSUME NEW d \in Docs, LintFile(d) PROVE PassesOK'
  BY <1>2 DEF LintFile, PassesOK
<1>3. ASSUME NEW d \in Docs, NEW t \in NewOnDisk, DiskChange(d, t) PROVE PassesOK'
  BY <1>3 DEF DiskChange, PassesOK
<1>4. ASSUME NEW d \in Docs, DidSave(d) PROVE PassesOK'
  BY <1>4 DEF DidSave, PassesOK
<1>5. ASSUME NEW d \in Docs, DidClose(d) PROVE PassesOK'
  BY <1>5 DEF DidClose, PassesOK
<1>6. ASSUME NEW d \in Docs, DidChangeWatchedFile(d) PROVE PassesOK'
  <2>1. PassesWithout(Republishing) \in PassTables BY PassesWithoutType
  <2>2. PassArmed(PassesWithout(Republishing)) \subseteq PassTables BY <2>1,
      ArmedType
  <2>3. \A g \in PassTables : SemanticArmed(g) \subseteq PassTables BY ArmedType
  <2>4. pass' = pass \/ \E g \in PassArmed(PassesWithout(Republishing)) :
                           pass' \in SemanticArmed(g)
    BY <1>6 DEF DidChangeWatchedFile
  <2> QED BY <2>2, <2>3, <2>4 DEF PassesOK
<1>7. ASSUME NEW r \in Runs, RunStep(r) PROVE PassesOK'
  <2>1. CASE Wake(r)
    BY <2>1 DEF Wake, PassesOK
  <2>2. CASE Check(r)
    BY <2>2 DEF Check, PassesOK
  <2>3. CASE Record1(r)
    BY <2>3, Record1List DEF PassesOK
  <2>4. CASE Phase1(r)
    <3>1. pass' = pass BY <2>4 DEF Phase1
    <3> QED BY <3>1 DEF PassesOK
  <2>5. CASE Bridge(r)
    BY <2>5 DEF Bridge, PassesOK
  <2>6. CASE Record2(r)
    BY <2>6 DEF Record2, PassesOK
  <2>7. CASE Phase2(r)
    BY <2>7 DEF Phase2, PassesOK
  <2>8. CASE AfterSave(r)
    <3>1. NewPass("handler", "stage") \in PassStates /\ StagedOK(NewPass("handler", "stage"))
      BY NewPassType DEF PassKinds
    <3>2. PassesWithout(Republishing) \in PassTables BY PassesWithoutType
    <3>3. \E p \in Passes :
             pass' = [PassesWithout(Republishing) EXCEPT ![p] = NewPass("handler", "stage")]
      BY <2>8 DEF AfterSave
    <3> QED BY <3>1, <3>2, <3>3, PassTablesType DEF PassesOK
  <2>9. CASE TxWake(r)
    BY <2>9 DEF TxWake, PassesOK
  <2>10. CASE TxRecord(r)
    BY <2>10, TxRecordList DEF EndRun, PassesOK
  <2>11. CASE TxPublish(r)
    BY <2>11 DEF TxPublish, PassesOK
  <2>12. CASE CloseRead(r)
    BY <2>12 DEF CloseRead, PassesOK
  <2>13. CASE CloseRestore(r)
    <3>1. NewPass("handler", "stage") \in PassStates /\ StagedOK(NewPass("handler", "stage"))
      BY NewPassType DEF PassKinds
    <3>2. pass' = pass \/ \E p \in Passes : pass' = [pass EXCEPT ![p] = NewPass("handler", "stage")]
      BY <2>13 DEF CloseRestore
    <3> QED BY <3>1, <3>2, PassTablesType DEF PassesOK
  <2>14. CASE CancelRun(r)
    BY <2>14 DEF CancelRun, PassesOK
  <2>15. CASE Indexed(r)
    BY <2>15 DEF Indexed, PassesOK
  <2>16. CASE IndexFails(r)
    BY <2>16 DEF IndexFails, PassesOK
  <2>17. CASE Arm(r)
    <3>1. PassesWithout(Republishing) \in PassTables BY PassesWithoutType
    <3>2. PassArmed(PassesWithout(Republishing)) \subseteq PassTables BY <3>1,
        ArmedType
    <3>3. pass' = pass \/ pass' = PassesWithout(Republishing)
             \/ pass' \in PassArmed(PassesWithout(Republishing))
      BY <2>17, Zenon DEF Arm
    <3> QED BY <3>1, <3>2, <3>3 DEF PassesOK
  <2> QED BY <1>7, <2>1, <2>2, <2>3, <2>4, <2>5, <2>6, <2>7, <2>8, <2>9, <2>10,
      <2>11, <2>12, <2>13, <2>14, <2>15, <2>16, <2>17 DEF RunStep
<1>8. ASSUME NEW p \in Passes, PassStep(p) PROVE PassesOK'
  <2>1. CASE PassWakes(p)
    <3>1. pass[p] \in PassStates /\ StagedOK(pass[p]) BY DEF PassesOK, PassTables
    <3>2. pass' = [pass EXCEPT ![p] = [pass[p] EXCEPT !.pc = "stage"]]
      BY <2>1 DEF PassWakes
    <3>3. [pass[p] EXCEPT !.pc = "stage"] \in PassStates
      BY <3>1 DEF PassStates, PassSteps
    <3>4. StagedOK([pass[p] EXCEPT !.pc = "stage"])
      BY <2>1, <3>1 DEF PassWakes, StagedOK, PassStates
    <3> QED BY <3>1, <3>2, <3>3, <3>4, PassTablesType DEF PassesOK
  <2>2. CASE Stage(p)
    <3> DEFINE st == [d \in Docs |-> StageOf(d)]
    <3>0. st \in [Docs -> StagedStates] /\ \A d \in Docs : MadeOfSource(st[d])
      <4> SUFFICES ASSUME NEW d \in Docs
                   PROVE  StageOf(d) \in StagedStates /\ MadeOfSource(StageOf(d))
        OBVIOUS
      <4>1. doc[d] \in Texts /\ idx[d] \in Texts BY DEF StoreOK
      <4>2. NativeOf(idx[d]) \in Nat /\ ProjOf(idx[d]) \in Nat /\ TxOf(idx[d]) \in Nat
        BY <4>1, FindingsType
      <4> DEFINE list == [native |-> NativeOf(idx[d]), proj |-> ProjOf(idx[d]),
                          tx |-> TxOf(idx[d]), ms |-> 0]
      <4> DEFINE reported == list # Empty \/ (idx[d] # NoText /\ semantic[d] # Nothing)
      <4>3. ~reported => NativeOf(idx[d]) = 0 /\ ProjOf(idx[d]) = 0 BY DEF Empty
      <4>4. list \in Lists BY <4>2 DEF Lists
      <4>5. /\ list.native = NativeOf(idx[d]) /\ list.proj = ProjOf(idx[d])
            /\ list.tx = TxOf(idx[d])
        OBVIOUS
      <4> DEFINE clear == ~reported /\ d \in published
      <4>6. reported \in BOOLEAN /\ clear \in BOOLEAN /\ (clear => ~reported) OBVIOUS
      <4>7. StageOf(d) = [source |-> idx[d], document |-> doc[d], reported |-> reported,
                          clear |-> clear, list |-> list]
        BY DEF StageOf
      <4> HIDE DEF list, reported, clear
      <4>8. StageOf(d) \in StagedStates BY <4>1, <4>4, <4>6, <4>7 DEF StagedStates
      <4>9. /\ StageOf(d).source = idx[d] /\ StageOf(d).list = list
            /\ StageOf(d).clear = clear
        BY <4>7
      <4>10. StageOf(d).clear => NativeOf(idx[d]) = 0 /\ ProjOf(idx[d]) = 0
        BY <4>3, <4>6, <4>9
      <4>11. MadeOfSource(StageOf(d)) BY <4>5, <4>9, <4>10 DEF MadeOfSource
      <4> QED BY <4>8, <4>11
    <3> HIDE DEF st
    <3> DEFINE x == [pass[p] EXCEPT !.pc = "staged", !.attempt = pass[p].attempt + 1, !.staged = st]
    <3>1. pass[p] \in PassStates /\ StagedOK(pass[p]) BY DEF PassesOK, PassTables
    <3>2. pass' = [pass EXCEPT ![p] = x]
      BY <2>2 DEF Stage, st, PassesOK, PassTables
    <3>3. pass[p].pc = "stage" BY <2>2 DEF Stage
    <3>6. pass[p].attempt \in 0..MAX_STAGING_ATTEMPTS BY <3>1 DEF PassStates
    <3>7. pass[p].attempt + 1 \in 0..MAX_STAGING_ATTEMPTS
      BY <3>1, <3>3, <3>6 DEF StagedOK, MAX_STAGING_ATTEMPTS
    <3>4. x \in PassStates BY <3>0, <3>1, <3>7 DEF PassStates, PassSteps
    <3>5. StagedOK(x) BY <3>0, <3>1 DEF StagedOK, PassStates
    <3> HIDE DEF x
    <3> QED BY <3>2, <3>4, <3>5, PassTablesType DEF PassesOK
  <2>3. CASE StageFails(p)
    BY <2>3, EndPassType DEF StageFails
  <2>4. CASE Merge(p)
    <3>1. pass[p] \in PassStates /\ StagedOK(pass[p]) BY DEF PassesOK, PassTables
    <3>2. pass[p].pc = "staged" BY <2>4 DEF Merge
    <3>3. CASE p \notin unmoved /\ MayRestage(p)
      <4> DEFINE x == [pass[p] EXCEPT !.pc = "stage", !.staged = NothingStaged]
      <4>1. pass' = [pass EXCEPT ![p] = x] BY <2>4, <3>3 DEF Merge
      <4>2. x \in PassStates BY <3>1, Values DEF PassStates, PassSteps
      <4>3. StagedOK(x) BY <3>1, <3>3 DEF StagedOK, PassStates, MayRestage
      <4> HIDE DEF x
      <4> QED BY <4>1, <4>2, <4>3, PassTablesType DEF PassesOK
    <3>4. CASE p \in unmoved \/ ~MayRestage(p)
      <4> DEFINE st == WithSemantic(p)
      <4>0. st \in [Docs -> StagedStates] /\ \A d \in Docs : MadeOfSource(st[d])
        <5> SUFFICES ASSUME NEW d \in Docs
                     PROVE  st[d] \in StagedStates /\ MadeOfSource(st[d])
          BY DEF WithSemantic
        <5> DEFINE s == pass[p].staged[d]
        <5> DEFINE ms == IF s.reported THEN Cached(semantic[d]) ELSE 0
        <5>1. s \in StagedStates /\ MadeOfSource(s) BY <3>1, <3>2 DEF StagedOK,
            PassStates
        <5>2. ms \in Nat BY CachedType DEF CachesOK
        <5>3. st[d] = [s EXCEPT !.list.ms = ms] BY DEF WithSemantic
        <5> HIDE DEF s, ms, st
        <5> QED BY <5>1, <5>2, <5>3 DEF StagedStates, Lists, MadeOfSource
      <4> HIDE DEF st
      <4> DEFINE x == [pass[p] EXCEPT !.pc = "send", !.attempt = 0, !.staged = st]
      <4>1. pass' = [pass EXCEPT ![p] = x] BY <2>4, <3>4 DEF Merge, st
      <4>4. 0 \in 0..MAX_STAGING_ATTEMPTS BY DEF MAX_STAGING_ATTEMPTS
      <4>2. x \in PassStates BY <3>1, <4>0, <4>4 DEF PassStates, PassSteps
      <4>3. StagedOK(x) BY <3>1, <4>0 DEF StagedOK, PassStates, MAX_STAGING_ATTEMPTS
      <4> HIDE DEF x
      <4> QED BY <4>1, <4>2, <4>3, PassTablesType DEF PassesOK
    <3> QED BY <3>3, <3>4
  <2>5. CASE Send(p)
    BY <2>5, EndPassType DEF Send
  <2>6. CASE CancelPass(p)
    BY <2>6, EndPassType DEF CancelPass
  <2>7. CASE AnalyzeProject(p)
    <3> DEFINE st == [d \in Docs |-> Analyzed(d)]
    <3>0. st \in [Docs -> StagedStates]
      <4> SUFFICES ASSUME NEW d \in Docs PROVE Analyzed(d) \in StagedStates OBVIOUS
      <4>1. doc[d] \in Texts /\ disk[d] \in Texts BY DEF StoreOK
      <4>2. MsOf(IF IsOpen(d) THEN doc[d] ELSE disk[d]) \in Nat BY <4>1,
          FindingsType
      <4>3. NotStaged \in StagedStates /\ Empty \in Lists BY Values
      <4> QED BY <4>1, <4>2, <4>3 DEF Analyzed, StagedStates, Lists
    <3> HIDE DEF st
    <3>1. pass[p] \in PassStates /\ StagedOK(pass[p]) BY DEF PassesOK, PassTables
    <3>2. pass' = [pass EXCEPT ![p] = [pass[p] EXCEPT !.pc = "results", !.staged = st]]
      <4>1. pass' = [pass EXCEPT ![p].pc = "results", ![p].staged = [d \in Docs |-> Analyzed(d)]]
        BY <2>7 DEF AnalyzeProject
      <4> QED BY <4>1 DEF st, PassesOK, PassTables
    <3>3. [pass[p] EXCEPT !.pc = "results", !.staged = st] \in PassStates
      BY <3>0, <3>1 DEF PassStates, PassSteps
    <3>4. pass[p].pc = "wait" BY <2>7 DEF AnalyzeProject
    <3>5. StagedOK([pass[p] EXCEPT !.pc = "results", !.staged = st])
      BY <3>1, <3>4 DEF StagedOK, PassStates
    <3> QED BY <3>1, <3>2, <3>3, <3>5, PassTablesType DEF PassesOK
  <2>8. CASE AnalyzeProjectFails(p)
    BY <2>8, EndPassType DEF AnalyzeProjectFails
  <2>9. CASE InsertResults(p)
    <3>1. pass[p] \in PassStates /\ StagedOK(pass[p]) BY DEF PassesOK, PassTables
    <3>2. pass' = [pass EXCEPT ![p] = [pass[p] EXCEPT !.pc = "stage", !.staged = NothingStaged]]
      BY <2>9 DEF InsertResults
    <3>3. [pass[p] EXCEPT !.pc = "stage", !.staged = NothingStaged] \in PassStates
      BY <3>1, Values DEF PassStates, PassSteps
    <3>4. StagedOK([pass[p] EXCEPT !.pc = "stage", !.staged = NothingStaged])
      BY <2>9, <3>1 DEF InsertResults, StagedOK, PassStates
    <3> QED BY <3>1, <3>2, <3>3, <3>4, PassTablesType DEF PassesOK
  <2> QED BY <1>8, <2>1, <2>2, <2>3, <2>4, <2>5, <2>6, <2>7, <2>8, <2>9 DEF PassStep
<1>9. CASE UNCHANGED vars
  BY <1>9 DEF vars, PassesOK
<1> QED BY <1>1, <1>2, <1>3, <1>4, <1>5, <1>6, <1>7, <1>8, <1>9, KindsOfSteps

\* Only tasks are aborted.
LEMMA AbortedNext ==
    Typing /\ [Next]_vars => AbortedOK'
<1> SUFFICES ASSUME Typing, [Next]_vars PROVE AbortedOK'
  OBVIOUS
<1> USE DEF Typing, AbortedOK
<1>1. ASSUME NEW d \in Docs, NEW kind \in Opening, NEW t \in NewTexts,
             Store(d, kind, t)
      PROVE  AbortedOK'
  BY <1>1 DEF Store
<1>2. ASSUME NEW d \in Docs, LintFile(d) PROVE AbortedOK'
  BY <1>2 DEF LintFile
<1>3. ASSUME NEW d \in Docs, NEW t \in NewOnDisk, DiskChange(d, t) PROVE AbortedOK'
  BY <1>3 DEF DiskChange
<1>4. ASSUME NEW d \in Docs, DidSave(d) PROVE AbortedOK'
  BY <1>4 DEF DidSave
<1>5. ASSUME NEW d \in Docs, DidClose(d) PROVE AbortedOK'
  BY <1>5 DEF DidClose, RunningRuns, RunsOf
<1>6. ASSUME NEW d \in Docs, DidChangeWatchedFile(d) PROVE AbortedOK'
  BY <1>6 DEF DidChangeWatchedFile, RunningPasses, Republishing
<1>7. ASSUME NEW r \in Runs, RunStep(r) PROVE AbortedOK'
  <2>1. CASE Wake(r)
    BY <2>1 DEF Wake, EndRun
  <2>2. CASE Check(r)
    BY <2>2 DEF Check, Finish, EndRun
  <2>3. CASE Record1(r)
    BY <2>3, Record1List DEF AbortedOK
  <2>4. CASE Phase1(r)
    <3>1. CASE IsCurrent(r)
      <4>1. aborted' = aborted \cup RunningRuns(RunsOf(run[r].of, "transaction"))
        BY <2>4, <3>1, Zenon DEF Phase1
      <4> QED BY <4>1 DEF RunningRuns, RunsOf
    <3>2. CASE ~IsCurrent(r)
      <4>1. Finish(r) BY <2>4, <3>2, Zenon DEF Phase1
      <4> QED BY <4>1 DEF Finish, EndRun
    <3> QED BY <3>1, <3>2
  <2>5. CASE Bridge(r)
    BY <2>5 DEF Bridge, Finish, EndRun
  <2>6. CASE Record2(r)
    BY <2>6 DEF Record2
  <2>7. CASE Phase2(r)
    BY <2>7 DEF Phase2, Finish, EndRun
  <2>8. CASE AfterSave(r)
    BY <2>8 DEF AfterSave, RunningPasses, Republishing
  <2>9. CASE TxWake(r)
    BY <2>9 DEF TxWake, EndRun
  <2>10. CASE TxRecord(r)
    BY <2>10, TxRecordList DEF EndRun, AbortedOK
  <2>11. CASE TxPublish(r)
    BY <2>11 DEF TxPublish, EndRun
  <2>12. CASE CloseRead(r)
    BY <2>12 DEF CloseRead
  <2>13. CASE CloseRestore(r)
    BY <2>13 DEF CloseRestore, EndRun
  <2>14. CASE CancelRun(r)
    BY <2>14 DEF CancelRun, EndRun
  <2>15. CASE Indexed(r)
    BY <2>15 DEF Indexed
  <2>16. CASE IndexFails(r)
    BY <2>16 DEF IndexFails, EndRun
  <2>17. CASE Arm(r)
    <3>1. aborted' \subseteq aborted \cup RunningRuns(RunsOf(run[r].of, "debounced"))
                                    \cup RunningPasses(Republishing)
      BY <2>17 DEF Arm
    <3> QED BY <3>1 DEF RunningRuns, RunningPasses, RunsOf, Republishing
  <2> QED BY <1>7, <2>1, <2>2, <2>3, <2>4, <2>5, <2>6, <2>7, <2>8, <2>9, <2>10,
      <2>11, <2>12, <2>13, <2>14, <2>15, <2>16, <2>17 DEF RunStep
<1>8. ASSUME NEW p \in Passes, PassStep(p) PROVE AbortedOK'
  <2>1. CASE PassWakes(p)
    BY <2>1 DEF PassWakes
  <2>2. CASE Stage(p)
    BY <2>2 DEF Stage
  <2>3. CASE StageFails(p)
    BY <2>3 DEF StageFails, EndPass
  <2>4. CASE Merge(p)
    BY <2>4 DEF Merge
  <2>5. CASE Send(p)
    BY <2>5 DEF Send, EndPass
  <2>6. CASE CancelPass(p)
    BY <2>6 DEF CancelPass, EndPass
  <2>7. CASE AnalyzeProject(p)
    BY <2>7, Zenon DEF AnalyzeProject
  <2>8. CASE AnalyzeProjectFails(p)
    BY <2>8 DEF AnalyzeProjectFails, EndPass
  <2>9. CASE InsertResults(p)
    BY <2>9 DEF InsertResults
  <2> QED BY <1>8, <2>1, <2>2, <2>3, <2>4, <2>5, <2>6, <2>7, <2>8, <2>9 DEF PassStep
<1>9. CASE UNCHANGED vars
  BY <1>9 DEF vars
<1> QED BY <1>1, <1>2, <1>3, <1>4, <1>5, <1>6, <1>7, <1>8, <1>9, KindsOfSteps

\* The types and the stamps are inductive.
LEMMA TypingNext ==
    ASSUME Typing, DocStamps, [Next]_vars PROVE Typing' /\ DocStamps'
<1>1. StoreOK' /\ CachesOK' /\ PassesOK' /\ AbortedOK'
  BY StoreNext, CachesNext, PassesNext, AbortedNext
<1>2. RunsOK' BY <1>1, RunFates, RunsNext
<1>3. DocStamps' BY <1>1, EnvNext, DocStampsNext
<1> QED BY <1>1, <1>2, <1>3 DEF Typing

\* The stamps are right initially.
LEMMA StampsInit == Init => DocStamps
BY DEF Init, DocStamps, NoText

\* Every document, cache, list and task keeps its type, and a pass is staged
\* at most MAX_STAGING_ATTEMPTS times.
THEOREM Typed == Spec => []TypeOK
<1>1. Init => Typing /\ DocStamps BY TypingInit, StampsInit
<1>2. Typing /\ DocStamps /\ [Next]_vars => (Typing /\ DocStamps)' BY TypingNext
<1>3. Typing => TypeOK
  BY DEF Typing, TypeOK, StoreOK, CachesOK, RunsOK, PassesOK, PassTables, AbortedOK
<1> QED BY <1>1, <1>2, <1>3, PTL DEF Spec


-----------------------------------------------------------------------------
(* Open documents, texts on disk, and the tasks that were aborted.         *)

\* What is on disk was recorded.
DiskGood ==
    \A d \in Docs : /\ disk[d].id <= texts
                    /\ disk[d].id \in onDisk[d] /\ 0 \in onDisk[d]

PassesIdle == (\A p \in Passes : pass[p].pc = "idle") /\ aborted \cap Passes = {}

\* Without the project scope there is no pass.
ProjectOnly ==
    ~settings.project => PassesIdle /\ \A r \in Runs : run[r].pc # "after"

\* Every step keeps the record of the disk.
LEMMA DiskGoodNext ==
    ASSUME Typing, DiskGood, Env, StoreOK' PROVE DiskGood'
<1>1. texts \in Nat /\ texts' \in Nat /\ \A d \in Docs : disk[d].id \in Nat
  BY DEF Typing, StoreOK, Texts
<1> QED BY <1>1 DEF DiskGood, Env

\* Without the project scope no step starts a pass.
LEMMA NoPassNext ==
    Typing /\ ProjectOnly /\ ~settings.project /\ [Next]_vars => PassesIdle'
<1> SUFFICES ASSUME Typing, ProjectOnly, ~settings.project, [Next]_vars PROVE PassesIdle'
  OBVIOUS
<1> USE DEF Typing, PassesIdle
<1>0. PassesIdle /\ Passes \cap Runs = {} BY TasksAssumption DEF ProjectOnly
<1>1. ASSUME NEW d \in Docs, NEW kind \in Opening, NEW t \in NewTexts,
             Store(d, kind, t)
      PROVE  PassesIdle'
  BY <1>0, <1>1 DEF Store
<1>2. ASSUME NEW d \in Docs, LintFile(d) PROVE PassesIdle'
  BY <1>0, <1>2 DEF LintFile
<1>3. ASSUME NEW d \in Docs, NEW t \in NewOnDisk, DiskChange(d, t) PROVE PassesIdle'
  BY <1>0, <1>3 DEF DiskChange
<1>4. ASSUME NEW d \in Docs, DidSave(d) PROVE PassesIdle'
  BY <1>0, <1>4 DEF DidSave
<1>5. ASSUME NEW d \in Docs, DidClose(d) PROVE PassesIdle'
  BY <1>0, <1>5 DEF DidClose, RunningRuns, RunsOf
<1>6. ASSUME NEW d \in Docs, DidChangeWatchedFile(d) PROVE PassesIdle'
  BY <1>0, <1>6 DEF DidChangeWatchedFile
<1>7. ASSUME NEW r \in Runs, RunStep(r) PROVE PassesIdle'
  <2>1. CASE Wake(r)
    BY <1>0, <2>1 DEF Wake, EndRun
  <2>2. CASE Check(r)
    BY <1>0, <2>2 DEF Check, Finish, EndRun
  <2>3. CASE Record1(r)
    BY <1>0, <2>3, Record1List
  <2>4. CASE Phase1(r)
    <3>1. pass' = pass BY <1>0, <2>4 DEF Phase1
    <3>2. CASE IsCurrent(r)
      <4>1. aborted' = aborted \cup RunningRuns(RunsOf(run[r].of, "transaction"))
        BY <1>0, <2>4, <3>2, Zenon DEF Phase1
      <4> QED BY <1>0, <3>1, <4>1 DEF RunningRuns, RunsOf
    <3>3. CASE ~IsCurrent(r)
      <4>1. Finish(r) BY <1>0, <2>4, <3>3, Zenon DEF Phase1
      <4> QED BY <1>0, <3>1, <4>1 DEF Finish, EndRun
    <3> QED BY <3>2, <3>3
  <2>5. CASE Bridge(r)
    BY <1>0, <2>5 DEF Bridge, Finish, EndRun
  <2>6. CASE Record2(r)
    BY <1>0, <2>6 DEF Record2
  <2>7. CASE Phase2(r)
    BY <1>0, <2>7 DEF Phase2, Finish, EndRun
  <2>8. CASE AfterSave(r)
    BY <1>0, <2>8 DEF AfterSave, ProjectOnly
  <2>9. CASE TxWake(r)
    BY <1>0, <2>9 DEF TxWake, EndRun
  <2>10. CASE TxRecord(r)
    BY <1>0, <2>10, TxRecordList DEF EndRun
  <2>11. CASE TxPublish(r)
    BY <1>0, <2>11 DEF TxPublish, EndRun
  <2>12. CASE CloseRead(r)
    BY <1>0, <2>12 DEF CloseRead
  <2>13. CASE CloseRestore(r)
    BY <1>0, <2>13 DEF CloseRestore, EndRun
  <2>14. CASE CancelRun(r)
    BY <1>0, <2>14 DEF CancelRun, EndRun
  <2>15. CASE Indexed(r)
    BY <1>0, <2>15 DEF Indexed
  <2>16. CASE IndexFails(r)
    BY <1>0, <2>16 DEF IndexFails, EndRun
  <2>17. CASE Arm(r)
    <3>1. pass' = pass \/ pass' = PassesWithout(Republishing)
      BY <2>17, Zenon DEF Arm
    <3>2. aborted' \subseteq aborted \cup RunningRuns(RunsOf(run[r].of, "debounced"))
                                    \cup RunningPasses(Republishing)
      BY <2>17 DEF Arm
    <3>3. Republishing = {} BY <1>0 DEF Republishing
    <3> QED BY <1>0, <3>1, <3>2, <3>3, NoPassType
        DEF PassesWithout, RunningRuns, RunsOf, RunningPasses
  <2> QED BY <1>7, <2>1, <2>2, <2>3, <2>4, <2>5, <2>6, <2>7, <2>8, <2>9, <2>10,
      <2>11, <2>12, <2>13, <2>14, <2>15, <2>16, <2>17 DEF RunStep
<1>8. ASSUME NEW p \in Passes, PassStep(p) PROVE PassesIdle'
  <2>1. CASE PassWakes(p)
    BY <1>0, <2>1 DEF PassWakes
  <2>2. CASE Stage(p)
    BY <1>0, <2>2 DEF Stage
  <2>3. CASE StageFails(p)
    BY <1>0, <2>3 DEF StageFails
  <2>4. CASE Merge(p)
    BY <1>0, <2>4 DEF Merge
  <2>5. CASE Send(p)
    BY <1>0, <2>5 DEF Send
  <2>6. CASE CancelPass(p)
    BY <1>0, <2>6 DEF CancelPass
  <2>7. CASE AnalyzeProject(p)
    BY <1>0, <2>7, Zenon DEF AnalyzeProject
  <2>8. CASE AnalyzeProjectFails(p)
    BY <1>0, <2>8 DEF AnalyzeProjectFails
  <2>9. CASE InsertResults(p)
    BY <1>0, <2>9 DEF InsertResults
  <2> QED BY <1>8, <2>1, <2>2, <2>3, <2>4, <2>5, <2>6, <2>7, <2>8, <2>9 DEF PassStep
<1>9. CASE UNCHANGED vars
  BY <1>0, <1>9 DEF vars
<1> QED BY <1>1, <1>2, <1>3, <1>4, <1>5, <1>6, <1>7, <1>8, <1>9, KindsOfSteps

\* Every step keeps ProjectOnly.
LEMMA ProjectOnlyNext ==
    ASSUME Typing, DocStamps, ProjectOnly, [Next]_vars PROVE ProjectOnly'
<1>1. settings' = settings /\ Fates BY EnvNext, RunFates DEF Env
<1> SUFFICES ASSUME ~settings.project
             PROVE  PassesIdle' /\ \A r \in Runs : run'[r].pc # "after"
  BY <1>1 DEF ProjectOnly
<1>2. PassesIdle' BY NoPassNext
<1>3. ASSUME NEW r \in Runs PROVE run'[r].pc # "after"
  <2>1. Fate(r) /\ run[r].pc # "after" BY <1>1 DEF Fates, ProjectOnly
  <2>2. Starts(r) => run'[r].pc # "after" BY NewRunFields DEF Starts
  <2> QED BY <2>1, <2>2, NoRunType, NewRunFields DEF Fate, GoesOn, Goes
<1> QED BY <1>2, <1>3

\* A pass comes to its sends only when no handler holds the lock.
Sendings ==
    \/ \A p \in Passes : pass'[p].pc = "send" => pass[p].pc = "send"
    \/ NoWriter /\ run' = run

\* Arming and aborting passes brings none to its sends.
LEMMA ArmedSends ==
    ASSUME PassesOK, NEW S, NEW p \in Passes
    PROVE  /\ PassesWithout(S)[p].pc = "send" => pass[p].pc = "send"
           /\ \A f \in PassTables :
                 \A g \in PassArmed(f) \cup SemanticArmed(f) :
                    g[p].pc = "send" => f[p].pc = "send"
<1>1. PassesWithout(S)[p].pc = "send" => pass[p].pc = "send"
  BY NoPassType DEF PassesWithout
<1>2. /\ NewPass("debounced", "sleep").pc = "sleep"
      /\ NewPass("semantic", "wait").pc = "wait"
  BY NewPassType DEF PassKinds
<1>3. ASSUME NEW f \in PassTables, NEW g \in PassArmed(f) \cup SemanticArmed(f),
             g[p].pc = "send"
      PROVE  f[p].pc = "send"
  <2>1. \/ g = f
        \/ \E q \in Passes : \/ g = [f EXCEPT ![q] = NewPass("debounced", "sleep")]
                             \/ g = [f EXCEPT ![q] = NewPass("semantic", "wait")]
    BY <1>3 DEF PassArmed, SemanticArmed
  <2>2. f \in [Passes -> PassStates] BY DEF PassTables
  <2> QED BY <1>2, <1>3, <2>1, <2>2
<1> QED BY <1>1, <1>3

\* Every step brings a pass to its sends only as Sendings says.
LEMMA SendingsNext ==
    Typing /\ [Next]_vars => Sendings
<1> SUFFICES ASSUME Typing, [Next]_vars PROVE Sendings
  OBVIOUS
<1> USE DEF Typing, Sendings
<1>1. ASSUME NEW d \in Docs, NEW kind \in Opening, NEW t \in NewTexts,
             Store(d, kind, t)
      PROVE  Sendings
  BY <1>1 DEF Store
<1>2. ASSUME NEW d \in Docs, LintFile(d) PROVE Sendings
  BY <1>2 DEF LintFile
<1>3. ASSUME NEW d \in Docs, NEW t \in NewOnDisk, DiskChange(d, t) PROVE Sendings
  BY <1>3 DEF DiskChange
<1>4. ASSUME NEW d \in Docs, DidSave(d) PROVE Sendings
  BY <1>4 DEF DidSave
<1>5. ASSUME NEW d \in Docs, DidClose(d) PROVE Sendings
  BY <1>5 DEF DidClose
<1>6. ASSUME NEW d \in Docs, DidChangeWatchedFile(d) PROVE Sendings
  BY <1>6 DEF DidChangeWatchedFile, LockIsFree
<1>7. ASSUME NEW r \in Runs, RunStep(r) PROVE Sendings
  <2>1. CASE Wake(r)
    BY <2>1, Zenon DEF Wake
  <2>2. CASE Check(r)
    BY <2>2, Zenon DEF Check
  <2>3. CASE Record1(r)
    BY <2>3, Record1List
  <2>4. CASE Phase1(r)
    BY <2>4, Zenon DEF Phase1
  <2>5. CASE Bridge(r)
    BY <2>5, Zenon DEF Bridge
  <2>6. CASE Record2(r)
    BY <2>6, Zenon DEF Record2
  <2>7. CASE Phase2(r)
    BY <2>7, Zenon DEF Phase2
  <2>8. CASE AfterSave(r)
    <3>1. NewPass("handler", "stage").pc = "stage" BY NewPassType DEF PassKinds
    <3>2. PassesWithout(Republishing) \in [Passes -> PassStates]
      BY PassesWithoutType DEF PassTables
    <3>3. \E p \in Passes :
             pass' = [PassesWithout(Republishing) EXCEPT ![p] = NewPass("handler", "stage")]
      BY <2>8 DEF AfterSave
    <3>4. \A p \in Passes : PassesWithout(Republishing)[p].pc = "send" => pass[p].pc = "send"
      BY ArmedSends
    <3> QED BY <3>1, <3>2, <3>3, <3>4
  <2>9. CASE TxWake(r)
    BY <2>9, Zenon DEF TxWake
  <2>10. CASE TxRecord(r)
    BY <2>10, TxRecordList
  <2>11. CASE TxPublish(r)
    BY <2>11, Zenon DEF TxPublish
  <2>12. CASE CloseRead(r)
    BY <2>12, Zenon DEF CloseRead
  <2>13. CASE CloseRestore(r)
    <3>1. NewPass("handler", "stage").pc = "stage" BY NewPassType DEF PassKinds
    <3>2. pass' = pass \/ \E p \in Passes : pass' = [pass EXCEPT ![p] = NewPass("handler", "stage")]
      BY <2>13 DEF CloseRestore
    <3> QED BY <3>1, <3>2 DEF PassesOK, PassTables
  <2>14. CASE CancelRun(r)
    BY <2>14, Zenon DEF CancelRun
  <2>15. CASE Indexed(r)
    BY <2>15, Zenon DEF Indexed
  <2>16. CASE IndexFails(r)
    BY <2>16, Zenon DEF IndexFails
  <2>17. CASE Arm(r)
    <3>1. PassesWithout(Republishing) \in PassTables BY PassesWithoutType
    <3>2. pass' = pass \/ pass' = PassesWithout(Republishing)
             \/ pass' \in PassArmed(PassesWithout(Republishing))
      BY <2>17, Zenon DEF Arm
    <3> QED BY <3>1, <3>2, ArmedSends
  <2> QED BY <1>7, <2>1, <2>2, <2>3, <2>4, <2>5, <2>6, <2>7, <2>8, <2>9, <2>10,
      <2>11, <2>12, <2>13, <2>14, <2>15, <2>16, <2>17 DEF RunStep
<1>8. ASSUME NEW p \in Passes, PassStep(p) PROVE Sendings
  <2>1. CASE PassWakes(p)
    BY <2>1 DEF PassWakes, PassesOK, PassTables, PassStates
  <2>2. CASE Stage(p)
    BY <2>2, Zenon DEF Stage
  <2>3. CASE StageFails(p)
    BY <2>3, EndPassType DEF StageFails
  <2>4. CASE Merge(p)
    BY <2>4, Zenon DEF Merge
  <2>5. CASE Send(p)
    BY <2>5, EndPassType DEF Send
  <2>6. CASE CancelPass(p)
    BY <2>6, EndPassType DEF CancelPass
  <2>7. CASE AnalyzeProject(p)
    BY <2>7 DEF AnalyzeProject, PassesOK, PassTables, PassStates
  <2>8. CASE AnalyzeProjectFails(p)
    BY <2>8, EndPassType DEF AnalyzeProjectFails
  <2>9. CASE InsertResults(p)
    BY <2>9 DEF InsertResults, PassesOK, PassTables, PassStates
  <2> QED BY <1>8, <2>1, <2>2, <2>3, <2>4, <2>5, <2>6, <2>7, <2>8, <2>9 DEF PassStep
<1>9. CASE UNCHANGED vars
  BY <1>9 DEF vars
<1> QED BY <1>1, <1>2, <1>3, <1>4, <1>5, <1>6, <1>7, <1>8, <1>9, KindsOfSteps

\* A handler between its two steps and a pass among its sends exclude each
\* other: both hold the generation lock.
Locked == NoWriter \/ NoReader

\* Every step keeps the lock.
LEMMA LockedNext ==
    ASSUME Typing, Locked, Fates, Sendings PROVE Locked'
<1>1. CASE NoWriter'  BY <1>1 DEF Locked
<1>2. CASE ~NoWriter'
  <2>1. PICK o \in Runs : run'[o].pc = "index" BY <1>2 DEF NoWriter
  <2>2. Fate(o) BY DEF Fates
  <2>3. run'[o] = run[o] \/ Starts(o)
    BY <2>1, <2>2, NoRunType, NewRunFields DEF Fate, GoesOn, Goes
  <2>4. CASE run'[o] = run[o]
    <3>1. ~NoWriter BY <2>1, <2>4 DEF NoWriter
    <3> QED BY <3>1 DEF Locked, Sendings, NoReader
  <2>5. CASE Starts(o)
    <3>1. LockIsFree /\ pass' = pass BY <2>1, <2>5, NewRunFields DEF Starts
    <3> QED BY <3>1 DEF Locked, LockIsFree, NoReader
  <2> QED BY <2>3, <2>4, <2>5
<1> QED BY <1>1, <1>2

\* A publication is only aborted while it runs: one of the transaction
\* findings, or a debounced one whose document moves or is armed again.
Aborts ==
    \A o \in Runs : o \in aborted' /\ o \notin aborted =>
        /\ run[o].pc \notin Sleeping \cup {"idle"}
        /\ \/ run[o].kind = "transaction"
           \/ /\ run[o].kind = "debounced"
              /\ doc'[run[o].of] # doc[run[o].of] \/ Replaced(run[o].of)

\* Every step aborts publications only as Aborts says.
LEMMA AbortsNext ==
    Typing /\ DocStamps /\ [Next]_vars => Aborts
<1> SUFFICES ASSUME Typing, DocStamps, [Next]_vars PROVE Aborts
  OBVIOUS
<1> USE DEF Typing, Aborts
<1>0. Passes \cap Runs = {} BY TasksAssumption
<1>1. ASSUME NEW d \in Docs, NEW kind \in Opening, NEW t \in NewTexts,
             Store(d, kind, t)
      PROVE  Aborts
  BY <1>1 DEF Store
<1>2. ASSUME NEW d \in Docs, LintFile(d) PROVE Aborts
  BY <1>2 DEF LintFile
<1>3. ASSUME NEW d \in Docs, NEW t \in NewOnDisk, DiskChange(d, t) PROVE Aborts
  BY <1>3 DEF DiskChange
<1>4. ASSUME NEW d \in Docs, DidSave(d) PROVE Aborts
  BY <1>4 DEF DidSave
<1>5. ASSUME NEW d \in Docs, DidClose(d) PROVE Aborts
  <2>1. doc'[d] # doc[d] BY <1>5 DEF DidClose, IsOpen, StoreOK
  <2> QED BY <1>5, <2>1 DEF DidClose, RunningRuns, RunsOf
<1>6. ASSUME NEW d \in Docs, DidChangeWatchedFile(d) PROVE Aborts
  BY <1>6, <1>0 DEF DidChangeWatchedFile, RunningPasses, Republishing
<1>7. ASSUME NEW r \in Runs, RunStep(r) PROVE Aborts
  <2>1. CASE Wake(r)
    BY <2>1 DEF Wake, EndRun
  <2>2. CASE Check(r)
    BY <2>2 DEF Check, Finish, EndRun
  <2>3. CASE Record1(r)
    BY <2>3, Record1List
  <2>4. CASE Phase1(r)
    <3>1. CASE IsCurrent(r)
      <4>1. aborted' = aborted \cup RunningRuns(RunsOf(run[r].of, "transaction"))
        BY <2>4, <3>1, Zenon DEF Phase1
      <4> QED BY <4>1 DEF RunningRuns, RunsOf
    <3>2. CASE ~IsCurrent(r)
      <4>1. Finish(r) BY <2>4, <3>2, Zenon DEF Phase1
      <4> QED BY <4>1 DEF Finish, EndRun
    <3> QED BY <3>1, <3>2
  <2>5. CASE Bridge(r)
    BY <2>5 DEF Bridge, Finish, EndRun
  <2>6. CASE Record2(r)
    BY <2>6 DEF Record2
  <2>7. CASE Phase2(r)
    BY <2>7 DEF Phase2, Finish, EndRun
  <2>8. CASE AfterSave(r)
    BY <2>8, <1>0 DEF AfterSave, RunningPasses, Republishing
  <2>9. CASE TxWake(r)
    BY <2>9 DEF TxWake, EndRun
  <2>10. CASE TxRecord(r)
    BY <2>10, TxRecordList DEF EndRun
  <2>11. CASE TxPublish(r)
    BY <2>11 DEF TxPublish, EndRun
  <2>12. CASE CloseRead(r)
    BY <2>12 DEF CloseRead
  <2>13. CASE CloseRestore(r)
    BY <2>13 DEF CloseRestore, EndRun
  <2>14. CASE CancelRun(r)
    BY <2>14 DEF CancelRun, EndRun
  <2>15. CASE Indexed(r)
    BY <2>15 DEF Indexed
  <2>16. CASE IndexFails(r)
    BY <2>16 DEF IndexFails, EndRun
  <2>17. CASE Arm(r)
    <3>1. aborted' \subseteq aborted \cup RunningRuns(RunsOf(run[r].of, "debounced"))
                                    \cup RunningPasses(Republishing)
      BY <2>17 DEF Arm
    <3>2. Replaced(run[r].of) BY <2>17 DEF Replaced
    <3> QED BY <1>0, <3>1, <3>2 DEF RunningRuns, RunsOf, RunningPasses, Republishing
  <2> QED BY <1>7, <2>1, <2>2, <2>3, <2>4, <2>5, <2>6, <2>7, <2>8, <2>9, <2>10,
      <2>11, <2>12, <2>13, <2>14, <2>15, <2>16, <2>17 DEF RunStep
<1>8. ASSUME NEW p \in Passes, PassStep(p) PROVE Aborts
  <2>1. CASE PassWakes(p)
    BY <2>1 DEF PassWakes
  <2>2. CASE Stage(p)
    BY <2>2 DEF Stage
  <2>3. CASE StageFails(p)
    BY <2>3 DEF StageFails, EndPass
  <2>4. CASE Merge(p)
    BY <2>4 DEF Merge
  <2>5. CASE Send(p)
    BY <2>5 DEF Send, EndPass
  <2>6. CASE CancelPass(p)
    BY <2>6 DEF CancelPass, EndPass
  <2>7. CASE AnalyzeProject(p)
    BY <2>7, Zenon DEF AnalyzeProject
  <2>8. CASE AnalyzeProjectFails(p)
    BY <2>8 DEF AnalyzeProjectFails, EndPass
  <2>9. CASE InsertResults(p)
    BY <2>9 DEF InsertResults
  <2> QED BY <1>8, <2>1, <2>2, <2>3, <2>4, <2>5, <2>6, <2>7, <2>8, <2>9 DEF PassStep
<1>9. CASE UNCHANGED vars
  BY <1>9 DEF vars
<1> QED BY <1>1, <1>2, <1>3, <1>4, <1>5, <1>6, <1>7, <1>8, <1>9, KindsOfSteps

-----------------------------------------------------------------------------
(* The publications of single files.                                       *)

Listed == {"phase1", "bridge", "record2", "phase2", "tx_publish"}

\* The list l has the findings of the text t of the document d, with the
\* exceptions of FreshWhenSent.
FreshList(d, l, t) ==
    /\ d \in failed \/ l.native = NativeOf(t)
    /\ d \in failed \cup ahead \/ l.proj = ProjOf(t)

\* A list made for the text the editor still has was made of that text; a
\* text that waits for the index is the one in the store; a close restores a
\* text that was on disk; only publications that run behind a timer are
\* aborted, and only while they run.
RunGood(o) ==
    /\ run[o].text.id <= texts
    /\ run[o].kind = "close" => run[o].pc \in {"close_read", "close_restore"}
    /\ run[o].pc = "index" => /\ run[o].kind \in Opening /\ IsOpen(run[o].of)
                              /\ run[o].text = doc[run[o].of]
    /\ run[o].pc = "arm" => run[o].kind = "change"
    /\ run[o].pc \in Listed /\ IsCurrent(o) =>
          FreshList(run[o].of, run[o].list, run[o].text)
    /\ run[o].pc = "close_restore" => run[o].text.id \in onDisk[run[o].of]
    /\ o \in aborted => /\ run[o].kind \in {"debounced", "transaction"}
                        /\ run[o].pc \notin Sleeping \cup {"idle"}

RunsGood == \A o \in Runs : RunGood(o)

\* The index has the text of every open document, once the handler that
\* stored it is done and unless its worker failed.
IdxGood ==
    \A d \in Docs : IsOpen(d) =>
        \/ idx[d] = doc[d] \/ d \in failed
        \/ \E r \in Runs : run[r].pc = "index" /\ run[r].of = d

Inv ==
    /\ Typing /\ DocStamps /\ DiskGood /\ ProjectOnly /\ Locked
    /\ RunsGood /\ IdxGood

\* Every step keeps RunGood: a new text has a new stamp, so no list made of an
\* older text is taken for one of the new text.
LEMMA RunsGoodNext ==
    ASSUME Inv, Fates, Env, Aborts, Typing', DocStamps'
    PROVE  RunsGood'
<1> SUFFICES ASSUME NEW o \in Runs PROVE RunGood(o)' BY DEF RunsGood
<1>0. Fate(o) /\ RunGood(o) BY DEF Fates, Inv, RunsGood
<1>1. /\ texts \in Nat /\ texts' \in Nat /\ texts <= texts'
      /\ run[o].text \in Texts /\ run'[o].text \in Texts /\ run[o].of \in Docs
      /\ run[o].text.id \in Nat
  BY DEF Inv, Typing, StoreOK, RunsOK, RunStates, Texts, Env
<1>2. Starts(o) => /\ run'[o].pc \in {"index", "check", "close_read", "tx_sleep"}
                   /\ run'[o].kind = "close" => run'[o].pc = "close_read"
                   /\ run'[o].pc = "index" =>
                         /\ run'[o].kind \in Opening /\ doc'[run'[o].of] # NoText
                         /\ run'[o].text = doc'[run'[o].of]
  BY NewRunFields DEF Starts, Opening
<1>3. run'[o] = NewRun("save", "after", run[o].of, NoText) =>
         /\ run'[o].pc = "after" /\ run'[o].kind = "save" /\ run'[o].text.id = 0
  BY NewRunFields, Values
<1>9. run'[o] = NewRun("debounced", "sleep", run[o].of, NoText) =>
         /\ run'[o].pc = "sleep" /\ run'[o].kind = "debounced" /\ run'[o].text.id = 0
  BY NewRunFields, Values
<1>4. run'[o].text.id <= texts'
  <2>1. ASSUME Starts(o) PROVE run'[o].text.id <= texts'
    <3>1. \/ \E d \in Docs : run'[o].text = doc'[d]
          \/ run'[o].text = NoText
          \/ \E q \in Runs : run'[o].text = run[q].text
      BY <2>1, NewRunFields DEF Starts
    <3>2. \A q \in Runs : run[q].text.id \in Nat /\ run[q].text.id <= texts
      BY DEF Inv, RunsGood, RunGood, Typing, RunsOK, RunStates, Texts
    <3> QED BY <1>1, <3>1, <3>2, Values DEF DocStamps
  <2>2. ASSUME GoesOn(o) PROVE run'[o].text.id <= texts'
    <3>1. \/ run'[o].text = doc[run[o].of] \/ run'[o].text = disk[run[o].of]
          \/ run'[o].text = NoText \/ run'[o].text = run[o].text
      BY <2>2 DEF GoesOn
    <3>2. /\ doc[run[o].of].id \in Nat /\ doc[run[o].of].id <= texts
          /\ disk[run[o].of].id \in Nat /\ disk[run[o].of].id <= texts
      BY <1>1 DEF Inv, Typing, StoreOK, Texts, DocStamps, DiskGood
    <3> QED BY <1>0, <1>1, <3>1, <3>2, Values DEF RunGood
  <2>3. ASSUME run'[o] = run[o] PROVE run'[o].text.id <= texts'
    BY <1>0, <1>1, <2>3 DEF RunGood
  <2> QED BY <1>0, <1>1, <1>3, <1>9, <2>1, <2>2, <2>3, NoRunType, Values DEF Fate
<1>5. run'[o].kind = "close" => run'[o].pc \in {"close_read", "close_restore"}
  BY <1>0, <1>2, <1>3, <1>9, NoRunType DEF Fate, GoesOn, Goes, RunGood
<1>10. ASSUME run'[o].pc = "index"
       PROVE  /\ run'[o].kind \in Opening /\ doc'[run'[o].of] # NoText
              /\ run'[o].text = doc'[run'[o].of]
  <2>1. run'[o] = run[o] \/ Starts(o)
    BY <1>0, <1>3, <1>9, <1>10, NoRunType DEF Fate, GoesOn, Goes
  <2>2. CASE Starts(o) BY <1>2, <1>10, <2>2
  <2>3. CASE run'[o] = run[o]
    <3>1. ~NoWriter BY <1>10, <2>3 DEF NoWriter
    <3>2. doc'[run[o].of] = doc[run[o].of] BY <1>1, <3>1 DEF Env
    <3> QED BY <1>0, <1>10, <2>3, <3>2 DEF RunGood, IsOpen
  <2> QED BY <2>1, <2>2, <2>3
<1>11. run'[o].pc = "arm" => run'[o].kind = "change"
  BY <1>0, <1>2, <1>3, <1>9, NoRunType DEF Fate, GoesOn, Goes, RunGood, Opening
<1>6. ASSUME run'[o].pc \in Listed, IsCurrent(o)'
      PROVE  FreshList(run[o].of, run[o].list, run[o].text)'
  <2>1. run'[o] = run[o] \/ GoesOn(o)
    BY <1>0, <1>2, <1>3, <1>6, <1>9, NoRunType DEF Fate, Listed
  <2>2. run'[o].of = run[o].of BY <2>1 DEF GoesOn
  <2>3. run'[o].text = run[o].text
    BY <1>6, <2>1 DEF GoesOn, Goes, Listed
  <2>4. doc'[run[o].of] = run[o].text /\ run[o].text # NoText
    BY <1>6, <2>2, <2>3 DEF IsCurrent, IsOpen
  <2>5. /\ doc'[run[o].of] = doc[run[o].of]
        /\ run[o].of \in failed => run[o].of \in failed'
        /\ run[o].of \in ahead => run[o].of \in ahead'
    BY <1>0, <1>1, <2>4 DEF Env, RunGood
  <2>6. IsCurrent(o) BY <2>4, <2>5 DEF IsCurrent, IsOpen
  <2>7. CASE run[o].pc \in Listed /\ KeepsList(o)
    <3>1. FreshList(run[o].of, run[o].list, run[o].text)
      BY <1>0, <2>6, <2>7 DEF RunGood
    <3> QED BY <2>2, <2>3, <2>5, <2>7, <3>1 DEF FreshList, KeepsList
  <2>8. CASE MadeFor(o, run'[o].list)
    BY <2>2, <2>3, <2>6, <2>8 DEF MadeFor, FreshList
  <2>9. \/ MadeFor(o, run'[o].list)
        \/ run[o].pc \in Listed /\ KeepsList(o)
    BY <1>6, <2>1 DEF GoesOn, Goes, Listed, KeepsList
  <2> QED BY <2>7, <2>8, <2>9
<1>7. ASSUME run'[o].pc = "close_restore"
      PROVE  run'[o].text.id \in onDisk'[run'[o].of]
  <2>1. run'[o] = run[o] \/ (GoesOn(o) /\ run'[o].text \in {disk[run[o].of], NoText})
    BY <1>0, <1>2, <1>3, <1>7, <1>9, NoRunType DEF Fate, GoesOn, Goes
  <2>2. run'[o].of = run[o].of BY <2>1 DEF GoesOn
  <2>3. run'[o].text.id \in onDisk[run[o].of]
    BY <1>0, <1>1, <1>7, <2>1, Values DEF RunGood, Inv, DiskGood
  <2> QED BY <1>1, <2>2, <2>3 DEF Env
<1>8. ASSUME o \in aborted'
      PROVE  /\ run'[o].kind \in {"debounced", "transaction"}
             /\ run'[o].pc \notin Sleeping \cup {"idle"}
  <2>1. /\ run[o].kind \in {"debounced", "transaction"}
        /\ run[o].pc \notin Sleeping \cup {"idle"}
    BY <1>0, <1>8 DEF Aborts, RunGood
  <2>2. ~Free(o) BY <2>1 DEF Free
  <2>3. ~Arm(o)
    <3>1. Arm(o) => run[o].pc = "arm" BY Zenon DEF Arm
    <3> QED BY <1>0, <2>1, <3>1 DEF RunGood
  <2>4. run'[o] = run[o] \/ GoesOn(o) BY <1>0, <1>8, <2>1, <2>2, <2>3 DEF Fate
  <2> QED BY <2>1, <2>4 DEF GoesOn, Goes, Sleeping
<1> QED BY <1>4, <1>5, <1>6, <1>7, <1>8, <1>10, <1>11 DEF RunGood, IsOpen

\* The invariant holds initially.
LEMMA InvInit == Init => Inv
<1> SUFFICES ASSUME Init PROVE Inv OBVIOUS
<1>1. Typing /\ DocStamps BY TypingInit, StampsInit
<1>2. DiskGood /\ IdxGood BY DEF Init, DiskGood, IdxGood, IsOpen, Text
<1>3. ProjectOnly
  BY NoRunType, NoPassType DEF Init, ProjectOnly, PassesIdle
<1>4. RunsGood
  <2> SUFFICES ASSUME NEW o \in Runs PROVE RunGood(o) BY DEF RunsGood
  <2>1. run[o] = NoRun /\ texts = 1 /\ aborted = {} BY DEF Init
  <2> QED BY <2>1, NoRunType, Values DEF RunGood, Listed
<1>5. Locked BY NoRunType DEF Init, Locked, NoWriter
<1> QED BY <1>1, <1>2, <1>3, <1>4, <1>5 DEF Inv

-----------------------------------------------------------------------------
(* What a step does to the index and to the documents.                     *)

Restored(d) == \E r \in Runs : CloseRestore(r) /\ run[r].of = d /\ ~IsOpen(d)

\* The index takes the text of an open document, or for a closed one the text
\* on disk.
Indexes ==
    \A d \in Docs : \/ idx'[d] = idx[d]
                    \/ doc'[d] # NoText /\ idx'[d] = doc'[d]
                    \/ ~IsOpen(d) /\ idx'[d] = disk[d]
                    \/ Restored(d)

\* Every step changes the index only as Indexes says.
LEMMA IndexesNext ==
    Inv /\ [Next]_vars => Indexes
<1> SUFFICES ASSUME Inv, [Next]_vars PROVE Indexes
  OBVIOUS
<1> USE DEF Inv, Typing, Indexes
<1>1. ASSUME NEW d \in Docs, NEW kind \in Opening, NEW t \in NewTexts,
             Store(d, kind, t)
      PROVE  Indexes
  BY <1>1, Zenon DEF Store
<1>2. ASSUME NEW d \in Docs, LintFile(d) PROVE Indexes
  <2>1. UNCHANGED store BY <1>2, Zenon DEF LintFile
  <2> QED BY <2>1 DEF store
<1>3. ASSUME NEW d \in Docs, NEW t \in NewOnDisk, DiskChange(d, t) PROVE Indexes
  <2>1. UNCHANGED store BY <1>3, Zenon DEF DiskChange
  <2> QED BY <2>1 DEF store
<1>4. ASSUME NEW d \in Docs, DidSave(d) PROVE Indexes
  <2>1. UNCHANGED store BY <1>4, Zenon DEF DidSave
  <2> QED BY <2>1 DEF store
<1>5. ASSUME NEW d \in Docs, DidClose(d) PROVE Indexes
  BY <1>5, Zenon DEF DidClose
<1>6. ASSUME NEW d \in Docs, DidChangeWatchedFile(d) PROVE Indexes
  BY <1>6 DEF DidChangeWatchedFile, StoreOK
<1>7. ASSUME NEW r \in Runs, RunStep(r) PROVE Indexes
  <2>1. CASE Wake(r)
    <3>1. UNCHANGED store BY <2>1, Zenon DEF Wake
    <3> QED BY <3>1 DEF store
  <2>2. CASE Check(r)
    <3>1. UNCHANGED store BY <2>2, Zenon DEF Check
    <3> QED BY <3>1 DEF store
  <2>3. CASE Record1(r)
    <3>1. UNCHANGED store BY <2>3, Zenon DEF Record1
    <3> QED BY <3>1 DEF store
  <2>4. CASE Phase1(r)
    <3>1. UNCHANGED store BY <2>4, Zenon DEF Phase1
    <3> QED BY <3>1 DEF store
  <2>5. CASE Bridge(r)
    <3>1. UNCHANGED store BY <2>5, Zenon DEF Bridge
    <3> QED BY <3>1 DEF store
  <2>6. CASE Record2(r)
    <3>1. UNCHANGED store BY <2>6, Zenon DEF Record2
    <3> QED BY <3>1 DEF store
  <2>7. CASE Phase2(r)
    <3>1. UNCHANGED store BY <2>7, Zenon DEF Phase2
    <3> QED BY <3>1 DEF store
  <2>8. CASE AfterSave(r)
    <3>1. UNCHANGED store BY <2>8, Zenon DEF AfterSave
    <3> QED BY <3>1 DEF store
  <2>9. CASE TxWake(r)
    <3>1. UNCHANGED store BY <2>9, Zenon DEF TxWake
    <3> QED BY <3>1 DEF store
  <2>10. CASE TxRecord(r)
    <3>1. UNCHANGED store BY <2>10, Zenon DEF TxRecord
    <3> QED BY <3>1 DEF store
  <2>11. CASE TxPublish(r)
    <3>1. UNCHANGED store BY <2>11, Zenon DEF TxPublish
    <3> QED BY <3>1 DEF store
  <2>12. CASE CloseRead(r)
    <3>1. UNCHANGED store BY <2>12, Zenon DEF CloseRead
    <3> QED BY <3>1 DEF store
  <2>13. CASE CloseRestore(r)
    <3>1. \/ idx' = idx
          \/ idx' = [idx EXCEPT ![run[r].of] = run[r].text] /\ ~IsOpen(run[r].of)
      BY <2>13 DEF CloseRestore
    <3>2. run[r].of \in Docs BY DEF RunsOK, RunStates
    <3> QED BY <2>13, <3>1, <3>2 DEF Restored, StoreOK
  <2>14. CASE CancelRun(r)
    <3>1. UNCHANGED store BY <2>14, Zenon DEF CancelRun
    <3> QED BY <3>1 DEF store
  <2>15. CASE Indexed(r)
    <3>1. /\ idx' = [idx EXCEPT ![run[r].of] = run[r].text] /\ doc' = doc
          /\ run[r].pc = "index"
      BY <2>15 DEF Indexed
    <3>2. run[r].of \in Docs BY DEF RunsOK, RunStates
    <3>3. run[r].text = doc[run[r].of] /\ IsOpen(run[r].of)
      BY <3>1 DEF RunsGood, RunGood
    <3> QED BY <3>1, <3>2, <3>3 DEF StoreOK, IsOpen
  <2>16. CASE IndexFails(r)
    <3>1. /\ idx' = idx \/ idx' = [idx EXCEPT ![run[r].of] = run[r].text]
          /\ doc' = doc /\ run[r].pc = "index"
      BY <2>16 DEF IndexFails
    <3>2. run[r].of \in Docs BY DEF RunsOK, RunStates
    <3>3. run[r].text = doc[run[r].of] /\ IsOpen(run[r].of)
      BY <3>1 DEF RunsGood, RunGood
    <3> QED BY <3>1, <3>2, <3>3 DEF StoreOK, IsOpen
  <2>17. CASE Arm(r)
    <3>1. UNCHANGED store BY <2>17, Zenon DEF Arm
    <3> QED BY <3>1 DEF store
  <2> QED BY <1>7, <2>1, <2>2, <2>3, <2>4, <2>5, <2>6, <2>7, <2>8, <2>9, <2>10,
      <2>11, <2>12, <2>13, <2>14, <2>15, <2>16, <2>17 DEF RunStep
<1>8. ASSUME NEW p \in Passes, PassStep(p) PROVE Indexes
  <2>1. CASE PassWakes(p)
    <3>1. UNCHANGED store BY <2>1, Zenon DEF PassWakes
    <3> QED BY <3>1 DEF store
  <2>2. CASE Stage(p)
    BY <2>2, Zenon DEF Stage
  <2>3. CASE StageFails(p)
    BY <2>3, Zenon DEF StageFails
  <2>4. CASE Merge(p)
    BY <2>4, Zenon DEF Merge
  <2>5. CASE Send(p)
    BY <2>5, Zenon DEF Send
  <2>6. CASE CancelPass(p)
    BY <2>6, Zenon DEF CancelPass
  <2>7. CASE AnalyzeProject(p)
    <3>1. UNCHANGED store BY <2>7, Zenon DEF AnalyzeProject
    <3> QED BY <3>1 DEF store
  <2>8. CASE AnalyzeProjectFails(p)
    BY <2>8, Zenon DEF AnalyzeProjectFails
  <2>9. CASE InsertResults(p)
    <3>1. UNCHANGED store BY <2>9, Zenon DEF InsertResults
    <3> QED BY <3>1 DEF store
  <2> QED BY <1>8, <2>1, <2>2, <2>3, <2>4, <2>5, <2>6, <2>7, <2>8, <2>9 DEF PassStep
<1>9. CASE UNCHANGED vars
  BY <1>9 DEF vars, store
<1> QED BY <1>1, <1>2, <1>3, <1>4, <1>5, <1>6, <1>7, <1>8, <1>9, KindsOfSteps

\* A publication of the document's text is under way and not aborted.
OnItsWay(r, d) ==
    /\ run[r].of = d /\ r \notin aborted
    /\ run[r].kind \in {"open", "change", "debounced", "save"}
    /\ \/ run[r].pc \in {"arm", "sleep"}
       \/ /\ run[r].pc \in {"index", "check", "record1", "phase1"}
          /\ run[r].text = doc[d]

\* A document that is closed is being closed; a new text waits for the index.
Announced(d) ==
    IF doc'[d] = NoText THEN Closing(d)'
    ELSE \E r \in Runs : OnItsWay(r, d)' /\ run'[r].pc = "index"

Announces == \A d \in Docs : doc'[d] # doc[d] => Announced(d)

\* Every step that moves a document arms what Announced says.
LEMMA AnnouncesNext ==
    Inv /\ [Next]_vars => Announces
<1> SUFFICES ASSUME Inv, [Next]_vars PROVE Announces
  OBVIOUS
<1> USE DEF Inv, Typing, Announces
<1>1. ASSUME NEW d \in Docs, NEW kind \in Opening, NEW t \in NewTexts,
             Store(d, kind, t)
      PROVE  Announces
  <2>1. \A e \in Docs \ {d} : doc'[e] = doc[e] BY <1>1, NewTextDiffers
  <2>2. PICK r \in Runs : /\ run[r].pc = "idle"
                          /\ run' = [run EXCEPT ![r] = NewRun(kind, "index", d, t)]
    BY <1>1 DEF Store
  <2>3. doc'[d] = t /\ doc'[d] # NoText BY <1>1, NewTextDiffers
  <2>4. run'[r] = NewRun(kind, "index", d, t) /\ aborted' = aborted
    BY <1>1, <2>2 DEF Store, RunsOK
  <2>5. r \notin aborted BY <2>2 DEF RunsGood, RunGood
  <2>6. OnItsWay(r, d)' /\ run'[r].pc = "index"
    BY <2>3, <2>4, <2>5, NewRunFields DEF OnItsWay, Opening
  <2> QED BY <2>1, <2>3, <2>6 DEF Announced
<1>2. ASSUME NEW d \in Docs, LintFile(d) PROVE Announces
  <2>1. UNCHANGED store BY <1>2, Zenon DEF LintFile
  <2> QED BY <2>1 DEF store
<1>3. ASSUME NEW d \in Docs, NEW t \in NewOnDisk, DiskChange(d, t) PROVE Announces
  <2>1. UNCHANGED store BY <1>3, Zenon DEF DiskChange
  <2> QED BY <2>1 DEF store
<1>4. ASSUME NEW d \in Docs, DidSave(d) PROVE Announces
  <2>1. UNCHANGED store BY <1>4, Zenon DEF DidSave
  <2> QED BY <2>1 DEF store
<1>5. ASSUME NEW d \in Docs, DidClose(d) PROVE Announces
  <2> DEFINE rest == RunsWithout(RunsOf(d, "debounced") \cup RunsOf(d, "transaction"))
  <2>1. rest \in [Runs -> RunStates] BY RunsWithoutType
  <2> HIDE DEF rest
  <2>2. PICK r \in Runs : run' = [rest EXCEPT ![r] = NewRun("close", "close_read", d, NoText)]
    BY <1>5 DEF DidClose, rest
  <2>3. run'[r] = NewRun("close", "close_read", d, NoText) BY <2>1, <2>2
  <2>4. Closing(d)' BY <2>3, NewRunFields DEF Closing
  <2>5. doc' = [doc EXCEPT ![d] = NoText] BY <1>5 DEF DidClose
  <2> QED BY <2>4, <2>5 DEF Announced, StoreOK
<1>6. ASSUME NEW d \in Docs, DidChangeWatchedFile(d) PROVE Announces
  BY <1>6, Zenon DEF DidChangeWatchedFile
<1>7. ASSUME NEW r \in Runs, RunStep(r) PROVE Announces
  <2>1. CASE Wake(r)
    <3>1. UNCHANGED store BY <2>1, Zenon DEF Wake
    <3> QED BY <3>1 DEF store
  <2>2. CASE Check(r)
    <3>1. UNCHANGED store BY <2>2, Zenon DEF Check
    <3> QED BY <3>1 DEF store
  <2>3. CASE Record1(r)
    <3>1. UNCHANGED store BY <2>3, Zenon DEF Record1
    <3> QED BY <3>1 DEF store
  <2>4. CASE Phase1(r)
    <3>1. UNCHANGED store BY <2>4, Zenon DEF Phase1
    <3> QED BY <3>1 DEF store
  <2>5. CASE Bridge(r)
    <3>1. UNCHANGED store BY <2>5, Zenon DEF Bridge
    <3> QED BY <3>1 DEF store
  <2>6. CASE Record2(r)
    <3>1. UNCHANGED store BY <2>6, Zenon DEF Record2
    <3> QED BY <3>1 DEF store
  <2>7. CASE Phase2(r)
    <3>1. UNCHANGED store BY <2>7, Zenon DEF Phase2
    <3> QED BY <3>1 DEF store
  <2>8. CASE AfterSave(r)
    <3>1. UNCHANGED store BY <2>8, Zenon DEF AfterSave
    <3> QED BY <3>1 DEF store
  <2>9. CASE TxWake(r)
    <3>1. UNCHANGED store BY <2>9, Zenon DEF TxWake
    <3> QED BY <3>1 DEF store
  <2>10. CASE TxRecord(r)
    <3>1. UNCHANGED store BY <2>10, Zenon DEF TxRecord
    <3> QED BY <3>1 DEF store
  <2>11. CASE TxPublish(r)
    <3>1. UNCHANGED store BY <2>11, Zenon DEF TxPublish
    <3> QED BY <3>1 DEF store
  <2>12. CASE CloseRead(r)
    <3>1. UNCHANGED store BY <2>12, Zenon DEF CloseRead
    <3> QED BY <3>1 DEF store
  <2>13. CASE CloseRestore(r)
    BY <2>13, Zenon DEF CloseRestore
  <2>14. CASE CancelRun(r)
    <3>1. UNCHANGED store BY <2>14, Zenon DEF CancelRun
    <3> QED BY <3>1 DEF store
  <2>15. CASE Indexed(r)
    BY <2>15, Zenon DEF Indexed
  <2>16. CASE IndexFails(r)
    BY <2>16, Zenon DEF IndexFails
  <2>17. CASE Arm(r)
    <3>1. UNCHANGED store BY <2>17, Zenon DEF Arm
    <3> QED BY <3>1 DEF store
  <2> QED BY <1>7, <2>1, <2>2, <2>3, <2>4, <2>5, <2>6, <2>7, <2>8, <2>9, <2>10,
      <2>11, <2>12, <2>13, <2>14, <2>15, <2>16, <2>17 DEF RunStep
<1>8. ASSUME NEW p \in Passes, PassStep(p) PROVE Announces
  <2>1. CASE PassWakes(p)
    <3>1. UNCHANGED store BY <2>1, Zenon DEF PassWakes
    <3> QED BY <3>1 DEF store
  <2>2. CASE Stage(p)
    BY <2>2, Zenon DEF Stage
  <2>3. CASE StageFails(p)
    BY <2>3, Zenon DEF StageFails
  <2>4. CASE Merge(p)
    BY <2>4, Zenon DEF Merge
  <2>5. CASE Send(p)
    BY <2>5, Zenon DEF Send
  <2>6. CASE CancelPass(p)
    BY <2>6, Zenon DEF CancelPass
  <2>7. CASE AnalyzeProject(p)
    <3>1. UNCHANGED store BY <2>7, Zenon DEF AnalyzeProject
    <3> QED BY <3>1 DEF store
  <2>8. CASE AnalyzeProjectFails(p)
    BY <2>8, Zenon DEF AnalyzeProjectFails
  <2>9. CASE InsertResults(p)
    <3>1. UNCHANGED store BY <2>9, Zenon DEF InsertResults
    <3> QED BY <3>1 DEF store
  <2> QED BY <1>8, <2>1, <2>2, <2>3, <2>4, <2>5, <2>6, <2>7, <2>8, <2>9 DEF PassStep
<1>9. CASE UNCHANGED vars
  BY <1>9 DEF vars, store
<1> QED BY <1>1, <1>2, <1>3, <1>4, <1>5, <1>6, <1>7, <1>8, <1>9, KindsOfSteps

\* Every step keeps the index of the open documents, as IdxGood says.
LEMMA IdxGoodNext ==
    ASSUME Inv, Fates, Env, Indexes, Announces PROVE IdxGood'
<1> SUFFICES ASSUME NEW d \in Docs, doc'[d] # NoText
             PROVE  \/ idx'[d] = doc'[d] \/ d \in failed'
                    \/ \E r \in Runs : run'[r].pc = "index" /\ run'[r].of = d
  BY DEF IdxGood, IsOpen
<1>1. CASE doc'[d] # doc[d] BY <1>1 DEF Announces, Announced, OnItsWay
<1>2. CASE doc'[d] = doc[d]
  <2>1. IsOpen(d) BY <1>2 DEF IsOpen
  <2>2. CASE idx[d] = doc[d] BY <1>2, <2>1, <2>2 DEF Indexes, Restored
  <2>3. CASE d \in failed
    <3>2. texts \in Nat /\ doc[d].id \in Nat /\ doc[d].id <= texts
      BY DEF Inv, Typing, StoreOK, Texts, DocStamps
    <3> QED BY <1>2, <2>3, <3>2 DEF Env
  <2>4. ASSUME NEW r \in Runs, run[r].pc = "index", run[r].of = d
        PROVE  idx'[d] = doc'[d] \/ d \in failed' \/ (run'[r].pc = "index" /\ run'[r].of = d)
    <3>1. Fate(r) /\ RunGood(r) BY DEF Fates, Inv, RunsGood
    <3>2. /\ run[r].text = doc[d] /\ run[r].kind \in Opening /\ r \notin aborted
      BY <2>4, <3>1 DEF RunGood, Opening
    <3>3. ~Free(r) BY <2>4 DEF Free, Sleeping
    <3>4. ~Arm(r)
      <4>1. Arm(r) => run[r].pc = "arm" BY Zenon DEF Arm
      <4> QED BY <2>4, <4>1
    <3>5. Over(r) => IndexFails(r) BY <2>4, <3>2 DEF Over, CloseRestore
    <3>6. CASE IndexFails(r) BY <2>4, <3>6 DEF IndexFails
    <3>7. CASE Indexed(r)
      <4>1. idx' = [idx EXCEPT ![d] = doc[d]] BY <2>4, <3>2, <3>7 DEF Indexed
      <4> QED BY <1>2, <4>1 DEF Inv, Typing, StoreOK
    <3>8. CASE run'[r] = run[r] BY <2>4, <3>8
    <3>9. GoesOn(r) => Indexed(r) BY <2>4 DEF GoesOn, Goes
    <3> QED BY <3>1, <3>3, <3>4, <3>5, <3>6, <3>7, <3>8, <3>9 DEF Fate
  <2> QED BY <2>1, <2>2, <2>3, <2>4 DEF Inv, IdxGood
<1> QED BY <1>1, <1>2

\* The invariant is inductive.
LEMMA InvNext == Inv /\ [Next]_vars => Inv'
<1> SUFFICES ASSUME Inv, [Next]_vars PROVE Inv' OBVIOUS
<1>1. Typing' /\ DocStamps' BY TypingNext DEF Inv
<1>2. ProjectOnly' BY ProjectOnlyNext DEF Inv
<1>3. Fates /\ Env /\ Aborts /\ Sendings BY RunFates, EnvNext, AbortsNext, SendingsNext DEF Inv
<1>4. Indexes /\ Announces BY IndexesNext, AnnouncesNext
<1>5. DiskGood' BY <1>1, <1>3, DiskGoodNext DEF Inv, Typing
<1>6. Locked' BY <1>3, LockedNext DEF Inv
<1>7. RunsGood' BY <1>1, <1>3, RunsGoodNext
<1>8. IdxGood' BY <1>3, <1>4, IdxGoodNext
<1> QED BY <1>1, <1>2, <1>5, <1>6, <1>7, <1>8 DEF Inv

-----------------------------------------------------------------------------
(* What a step sends.                                                      *)

\* The findings in a list of a closed file are of its text in the index.
OfIndex(d, l) == {l.native, l.proj, l.tx} \subseteq {0, idx[d].id}

\* The list of an open document has the findings of its text, the list of a
\* closed file those of its text in the index.
Sends ==
    \A d \in Docs :
        \/ shown'[d] = shown[d]
        \/ IsOpen(d) /\ doc'[d] = doc[d] /\ FreshList(d, shown[d], doc[d])'
        \/ /\ ~IsOpen(d) /\ doc'[d] = doc[d] /\ settings.project
           /\ OfIndex(d, shown'[d])
        \/ Restored(d) /\ doc'[d] = doc[d]

\* A publication that is current sends a fresh list.
LEMMA RunSends ==
    ASSUME Inv, NEW r \in Runs, run[r].pc \in Listed, UNCHANGED <<doc, marks>>,
           \/ shown' = [shown EXCEPT ![run[r].of] = run[r].list] /\ IsCurrent(r)
           \/ shown' = shown
    PROVE  Sends
<1>1. run[r].of \in Docs BY DEF Inv, Typing, RunsOK, RunStates
<1>2. IsCurrent(r) => /\ IsOpen(run[r].of) /\ doc[run[r].of] = run[r].text
                      /\ FreshList(run[r].of, run[r].list, run[r].text)
  BY DEF Inv, RunsGood, RunGood, IsCurrent
<1> QED BY <1>1, <1>2 DEF Sends, FreshList, marks, Inv, Typing, CachesOK

\* A pass sends fresh lists, because no handler holds the lock meanwhile.
LEMMA PassSends ==
    ASSUME Inv, NEW p \in Passes, pass[p].pc = "send", UNCHANGED <<doc, marks>>,
           NEW D \in SUBSET Docs, shown' = ShownAfter(p, D)
    PROVE  Sends
<1> USE DEF Inv, Typing
<1>1. settings.project BY DEF ProjectOnly, PassesIdle
<1>2. \A d \in Docs : MadeOfSource(pass[p].staged[d])
  BY DEF PassesOK, PassTables, StagedOK
<1>3. NoWriter BY DEF Locked, NoReader
<1> SUFFICES ASSUME NEW d \in Docs, shown'[d] # shown[d]
             PROVE  \/ IsOpen(d) /\ FreshList(d, shown[d], doc[d])'
                    \/ ~IsOpen(d) /\ OfIndex(d, shown'[d])
  BY <1>1 DEF Sends
<1> DEFINE s == pass[p].staged[d]
<1>4. \/ shown'[d] = s.list /\ s.source = idx[d]
      \/ shown'[d] = Empty /\ s.source = idx[d] /\ s.clear
  BY DEF ShownAfter, Sent, Cleared, InputIsCurrent
<1>5. MadeOfSource(s) BY <1>2
<1>6. IsOpen(d) => idx[d] = doc[d] \/ d \in failed
  BY <1>3 DEF IdxGood, NoWriter
<1> HIDE DEF s
<1>7. Empty.native = 0 /\ Empty.proj = 0 /\ Empty.tx = 0 BY DEF Empty
<1>8. /\ shown'[d].native = NativeOf(idx[d]) /\ shown'[d].proj = ProjOf(idx[d])
      /\ shown'[d].tx \in {0, TxOf(idx[d])}
  BY <1>4, <1>5, <1>7 DEF MadeOfSource
<1>9. CASE IsOpen(d) BY <1>6, <1>8, <1>9 DEF FreshList, marks
<1>10. CASE ~IsOpen(d)
  <2>1. /\ NativeOf(idx[d]) \in {0, idx[d].id} /\ ProjOf(idx[d]) \in {0, idx[d].id}
        /\ TxOf(idx[d]) \in {0, idx[d].id}
    BY DEF NativeOf, ProjOf, TxOf
  <2> QED BY <1>8, <1>10, <2>1 DEF OfIndex
<1> QED BY <1>9, <1>10

\* Every step sends only lists as Sends says.
LEMMA SendsNext ==
    Inv /\ [Next]_vars => Sends
<1> SUFFICES ASSUME Inv, [Next]_vars PROVE Sends
  OBVIOUS
<1> USE DEF Inv, Typing, Sends
<1>1. ASSUME NEW d \in Docs, NEW kind \in Opening, NEW t \in NewTexts,
             Store(d, kind, t)
      PROVE  Sends
  BY <1>1, Zenon DEF Store
<1>2. ASSUME NEW d \in Docs, LintFile(d) PROVE Sends
  BY <1>2, Zenon DEF LintFile
<1>3. ASSUME NEW d \in Docs, NEW t \in NewOnDisk, DiskChange(d, t) PROVE Sends
  BY <1>3, Zenon DEF DiskChange
<1>4. ASSUME NEW d \in Docs, DidSave(d) PROVE Sends
  BY <1>4, Zenon DEF DidSave
<1>5. ASSUME NEW d \in Docs, DidClose(d) PROVE Sends
  BY <1>5, Zenon DEF DidClose
<1>6. ASSUME NEW d \in Docs, DidChangeWatchedFile(d) PROVE Sends
  BY <1>6, Zenon DEF DidChangeWatchedFile
<1>7. ASSUME NEW r \in Runs, RunStep(r) PROVE Sends
  <2>1. CASE Wake(r)
    BY <2>1, Zenon DEF Wake
  <2>2. CASE Check(r)
    BY <2>2, Zenon DEF Check
  <2>3. CASE Record1(r)
    BY <2>3, Record1List
  <2>4. CASE Phase1(r)
    <3>1. UNCHANGED <<store, marks>> /\ run[r].pc = "phase1" BY <2>4, Zenon DEF Phase1
    <3>2. \/ shown' = [shown EXCEPT ![run[r].of] = run[r].list] /\ IsCurrent(r)
          \/ shown' = shown
      BY <2>4, Zenon DEF Phase1
    <3> QED BY <3>1, <3>2, RunSends DEF store, Listed
  <2>5. CASE Bridge(r)
    BY <2>5, Zenon DEF Bridge
  <2>6. CASE Record2(r)
    BY <2>6, Zenon DEF Record2
  <2>7. CASE Phase2(r)
    <3>1. UNCHANGED <<store, marks>> /\ run[r].pc = "phase2" BY <2>7, Zenon DEF Phase2
    <3>2. \/ shown' = [shown EXCEPT ![run[r].of] = run[r].list] /\ IsCurrent(r)
          \/ shown' = shown
      BY <2>7 DEF Phase2
    <3> QED BY <3>1, <3>2, RunSends DEF store, Listed
  <2>8. CASE AfterSave(r)
    BY <2>8, Zenon DEF AfterSave
  <2>9. CASE TxWake(r)
    BY <2>9, Zenon DEF TxWake
  <2>10. CASE TxRecord(r)
    BY <2>10, TxRecordList
  <2>11. CASE TxPublish(r)
    <3>1. UNCHANGED <<store, marks>> /\ run[r].pc = "tx_publish" BY <2>11, Zenon DEF TxPublish
    <3>2. \/ shown' = [shown EXCEPT ![run[r].of] = run[r].list] /\ IsCurrent(r)
          \/ shown' = shown
      BY <2>11 DEF TxPublish
    <3> QED BY <3>1, <3>2, RunSends DEF store, Listed
  <2>12. CASE CloseRead(r)
    BY <2>12, Zenon DEF CloseRead
  <2>13. CASE CloseRestore(r)
    <3>1. run[r].of \in Docs /\ doc' = doc BY <2>13 DEF CloseRestore, RunsOK,
        RunStates
    <3>2. \/ shown' = shown
          \/ shown' = [shown EXCEPT ![run[r].of] = Empty] /\ ~IsOpen(run[r].of)
      BY <2>13 DEF CloseRestore
    <3> QED BY <2>13, <3>1, <3>2 DEF Restored, CachesOK
  <2>14. CASE CancelRun(r)
    BY <2>14, Zenon DEF CancelRun
  <2>15. CASE Indexed(r)
    BY <2>15, Zenon DEF Indexed
  <2>16. CASE IndexFails(r)
    BY <2>16, Zenon DEF IndexFails
  <2>17. CASE Arm(r)
    BY <2>17, Zenon DEF Arm
  <2> QED BY <1>7, <2>1, <2>2, <2>3, <2>4, <2>5, <2>6, <2>7, <2>8, <2>9, <2>10,
      <2>11, <2>12, <2>13, <2>14, <2>15, <2>16, <2>17 DEF RunStep
<1>8. ASSUME NEW p \in Passes, PassStep(p) PROVE Sends
  <2>1. CASE PassWakes(p)
    BY <2>1, Zenon DEF PassWakes
  <2>2. CASE Stage(p)
    BY <2>2, Zenon DEF Stage
  <2>3. CASE StageFails(p)
    BY <2>3, Zenon DEF StageFails
  <2>4. CASE Merge(p)
    BY <2>4, Zenon DEF Merge
  <2>5. CASE Send(p)
    <3>1. /\ pass[p].pc = "send" /\ UNCHANGED <<doc, marks>>
          /\ shown' = ShownAfter(p, Docs)
      BY <2>5, Zenon DEF Send
    <3> QED BY <3>1, PassSends
  <2>6. CASE CancelPass(p)
    <3>1. UNCHANGED <<doc, marks>> BY <2>6, Zenon DEF CancelPass
    <3>2. CASE pass[p].pc = "send"
      <4>1. \E D \in SUBSET Docs : shown' = ShownAfter(p, D) BY <2>6, <3>2 DEF CancelPass
      <4> QED BY <3>1, <3>2, <4>1, PassSends
    <3>3. CASE pass[p].pc # "send" BY <2>6, <3>3 DEF CancelPass
    <3> QED BY <3>2, <3>3
  <2>7. CASE AnalyzeProject(p)
    BY <2>7, Zenon DEF AnalyzeProject
  <2>8. CASE AnalyzeProjectFails(p)
    BY <2>8, Zenon DEF AnalyzeProjectFails
  <2>9. CASE InsertResults(p)
    BY <2>9, Zenon DEF InsertResults
  <2> QED BY <1>8, <2>1, <2>2, <2>3, <2>4, <2>5, <2>6, <2>7, <2>8, <2>9 DEF PassStep
<1>9. CASE UNCHANGED vars
  BY <1>9 DEF vars
<1> QED BY <1>1, <1>2, <1>3, <1>4, <1>5, <1>6, <1>7, <1>8, <1>9, KindsOfSteps


\* What is sent for an open document has the native and the project findings
\* of the text the editor has, for any number of files, publications and
\* passes: the checks before each send are enough although the lists are made
\* without a lock, except where a worker failed on the text or the native pass
\* met it before the index had it.
THEOREM SentIsFresh == Spec => FreshWhenSent
<1>1. Inv /\ [Next]_vars =>
        \A d \in Docs : shown'[d] # shown[d] /\ doc'[d] # NoText =>
            /\ d \in failed' \/ shown'[d].native = NativeOf(doc'[d])
            /\ \/ d \in failed' \cup ahead'
               \/ shown'[d].proj = ProjOf(doc'[d])
  <2> SUFFICES ASSUME Inv, [Next]_vars, NEW d \in Docs,
                      shown'[d] # shown[d], doc'[d] # NoText
               PROVE  /\ d \in failed' \/ shown'[d].native = NativeOf(doc'[d])
                      /\ \/ d \in failed' \cup ahead'
                         \/ shown'[d].proj = ProjOf(doc'[d])
    OBVIOUS
  <2>1. Sends BY SendsNext
  <2> QED BY <2>1 DEF Sends, IsOpen, Restored, FreshList
<1> QED BY <1>1, InvInit, InvNext, PTL DEF Spec, FreshWhenSent

-----------------------------------------------------------------------------
(* No findings of discarded text.                                          *)

Settled(d) == ~IsOpen(d) /\ ~Closing(d)

FromDisk ==
    \A d \in Docs : Settled(d) =>
        /\ idx[d].id \in onDisk[d]
        /\ {shown[d].native, shown[d].proj, shown[d].tx} \subseteq onDisk[d]
        /\ ~settings.project => shown[d] = Empty

\* A close ends with the restore of the file's own text.
LEMMA CloseEnds ==
    ASSUME Inv, Fates, NEW d \in Docs, ~IsOpen(d), Closing(d), ~Closing(d)'
    PROVE  Restored(d)
<1>1. PICK r \in Runs : run[r].kind = "close" /\ run[r].of = d /\ run[r].pc # "idle"
  BY DEF Closing
<1>2. Fate(r) /\ RunGood(r) BY DEF Fates, Inv, RunsGood
<1>3. run[r].pc \in {"close_read", "close_restore"} BY <1>1, <1>2 DEF RunGood
<1>4. ~Free(r) BY <1>3 DEF Free, Sleeping
<1>5. r \notin aborted BY <1>1, <1>2 DEF RunGood
<1>6. ~(run'[r].kind = "close" /\ run'[r].of = d /\ run'[r].pc # "idle")
  BY DEF Closing
<1>7. ~Arm(r)
  <2>1. Arm(r) => run[r].pc = "arm" BY Zenon DEF Arm
  <2> QED BY <1>3, <2>1
<1>8. Over(r) BY <1>1, <1>2, <1>4, <1>6, <1>7 DEF Fate, GoesOn, Goes
<1>9. CloseRestore(r) BY <1>3, <1>5, <1>8 DEF Over, IndexFails
<1> QED BY <1>1, <1>9 DEF Restored

\* Every step keeps the findings of settled files to texts that were on disk.
LEMMA FromDiskNext == Inv /\ FromDisk /\ [Next]_vars => FromDisk'
<1> SUFFICES ASSUME Inv, FromDisk, [Next]_vars, NEW d \in Docs, Settled(d)'
             PROVE  /\ idx'[d].id \in onDisk'[d]
                    /\ {shown'[d].native, shown'[d].proj, shown'[d].tx} \subseteq onDisk'[d]
                    /\ ~settings'.project => shown'[d] = Empty
  BY DEF FromDisk
<1>1. Fates /\ Env /\ Sends /\ Indexes /\ Announces
  BY RunFates, EnvNext, SendsNext, IndexesNext, AnnouncesNext DEF Inv
<1>2. /\ onDisk[d] \subseteq onDisk'[d] /\ settings' = settings
      /\ 0 \in onDisk[d] /\ disk[d].id \in onDisk[d]
  BY <1>1 DEF Env, Inv, DiskGood
<1>3. doc'[d] = NoText /\ ~Closing(d)' BY DEF Settled, IsOpen
<1>4. doc[d] = NoText BY <1>1, <1>3 DEF Announces, Announced
<1>5. CASE Restored(d)
  <2>1. PICK r \in Runs : CloseRestore(r) /\ run[r].of = d /\ ~IsOpen(d)
    BY <1>5 DEF Restored
  <2>2. run[r].text.id \in onDisk[d] BY <2>1 DEF CloseRestore, Inv, RunsGood,
      RunGood
  <2>3. idx' = [idx EXCEPT ![d] = run[r].text] /\ shown' = [shown EXCEPT ![d] = Empty]
    BY <2>1 DEF CloseRestore
  <2>4. idx'[d] = run[r].text /\ shown'[d] = Empty
    BY <2>3 DEF Inv, Typing, StoreOK, CachesOK
  <2>5. Empty.native = 0 /\ Empty.proj = 0 /\ Empty.tx = 0 BY DEF Empty
  <2> QED BY <1>2, <2>2, <2>4, <2>5
<1>6. CASE ~Restored(d)
  <2>1. Settled(d) BY <1>1, <1>3, <1>4, <1>6, CloseEnds DEF Settled, IsOpen
  <2>2. idx'[d] = idx[d] \/ idx'[d] = disk[d] BY <1>1, <1>3, <1>6 DEF Indexes
  <2>3. \/ shown'[d] = shown[d]
        \/ /\ settings.project
           /\ {shown'[d].native, shown'[d].proj, shown'[d].tx} \subseteq {0, idx[d].id}
    BY <1>1, <1>4, <1>6 DEF Sends, OfIndex, IsOpen
  <2> QED BY <1>2, <2>1, <2>2, <2>3 DEF FromDisk
<1> QED BY <1>5, <1>6

\* A closed document shows no native, project or transaction findings of the
\* text discarded with it, and outside project scope none of the compiler,
\* however many publications and passes were under way when it was closed.
THEOREM NoGhosts == Spec => []NoGhost
<1>1. Init => FromDisk
  <2> SUFFICES ASSUME Init, NEW d \in Docs
               PROVE  /\ idx[d].id \in onDisk[d] /\ shown[d] = Empty
                      /\ {shown[d].native, shown[d].proj, shown[d].tx} \subseteq onDisk[d]
    BY DEF FromDisk
  <2> QED BY DEF Init, Text, Empty
<1>2. FromDisk => NoGhost BY DEF FromDisk, NoGhost, Settled
<1> QED BY <1>1, <1>2, InvInit, InvNext, FromDiskNext, PTL DEF Spec

-----------------------------------------------------------------------------
(* No text is left without its publication.                                *)

ShownOrOnItsWay ==
    settings.continuous => \A d \in Docs : IsOpen(d) =>
        \/ FreshList(d, shown[d], doc[d])
        \/ \E r \in Runs : OnItsWay(r, d)

\* Arming the publication of a document again puts the new one on its way.
LEMMA ArmedIsOnItsWay ==
    ASSUME Inv, Aborts, settings.continuous, NEW d \in Docs, NEW r \in Runs,
           Arm(r), run[r].of = d
    PROVE  OnItsWay(r, d)'
<1> DEFINE rest == RunsWithout(RunsOf(d, "debounced"))
<1>1. run' = [rest EXCEPT ![r] = NewRun("debounced", "sleep", d, NoText)]
  BY DEF Arm, Rearmed
<1>2. rest \in [Runs -> RunStates] BY RunsWithoutType DEF Inv, Typing
<1> HIDE DEF rest
<1>3. run'[r] = NewRun("debounced", "sleep", d, NoText) BY <1>1, <1>2
<1>4. run[r].pc = "arm" BY Zenon DEF Arm
<1>5. run[r].kind = "change" /\ r \notin aborted BY <1>4 DEF Inv, RunsGood, RunGood
<1>6. r \notin aborted' BY <1>5 DEF Aborts
<1> QED BY <1>3, <1>6, NewRunFields DEF OnItsWay

\* A publication on its way stays so, or hands over to another, until it has
\* shown the text or a worker has failed on it.
LEMMA OnItsWayNext ==
    ASSUME Inv, Fates, Env, Aborts, settings.continuous, NEW d \in Docs, NEW r \in Runs,
           OnItsWay(r, d), IsOpen(d), doc'[d] = doc[d]
    PROVE  \/ \E q \in Runs : OnItsWay(q, d)'
           \/ FreshList(d, shown[d], doc[d])'
<1>1. Fate(r) /\ RunGood(r) BY DEF Fates, Inv, RunsGood
<1>2. /\ run[r].of = d /\ r \notin aborted
      /\ run[r].kind \in {"open", "change", "debounced", "save"}
      /\ \/ run[r].pc \in {"arm", "sleep"}
         \/ /\ run[r].pc \in {"index", "check", "record1", "phase1"}
            /\ run[r].text = doc[d]
  BY DEF OnItsWay
<1>3. CASE Replaced(d) BY <1>3, ArmedIsOnItsWay DEF Replaced
<1>4. CASE ~Replaced(d)
  <2>1. r \notin aborted' BY <1>2, <1>4 DEF Aborts
  <2>2. ~Free(r) /\ ~Arm(r) BY <1>2, <1>4 DEF Free, Replaced
  <2>3. run[r].pc \in {"check", "phase1"} => IsCurrent(r) BY <1>2 DEF IsCurrent
  <2>4. Over(r) => IndexFails(r) BY <1>2, <2>3 DEF Over, CloseRestore
  <2>5. CASE run'[r] = run[r] BY <1>2, <2>1, <2>5 DEF OnItsWay
  <2>6. CASE IndexFails(r) BY <1>2, <2>6 DEF IndexFails, FreshList
  <2>7. CASE GoesOn(r)
    <3>1. CASE run[r].pc = "phase1"
      <4>1. shown'[d] = run[r].list BY <1>2, <2>7, <3>1 DEF GoesOn, Goes
      <4>2. FreshList(d, run[r].list, doc[d])
        BY <1>1, <1>2, <2>3, <3>1 DEF RunGood, Listed
      <4>3. /\ d \in failed => d \in failed'
            /\ d \in ahead => d \in ahead'
        <5>1. texts \in Nat /\ doc[d].id \in Nat /\ doc[d].id <= texts
          BY DEF Inv, Typing, StoreOK, Texts, DocStamps
        <5> QED BY <5>1 DEF Env, IsOpen
      <4> QED BY <4>1, <4>2, <4>3 DEF FreshList
    <3>2. CASE run[r].pc # "phase1"
      <4>1. /\ run'[r].kind = run[r].kind /\ run'[r].of = d
            /\ \/ run'[r].pc = "arm"
               \/ run'[r].pc \in {"check", "record1", "phase1"} /\ run'[r].text = doc[d]
        BY <1>2, <2>7, <3>2 DEF GoesOn, Goes
      <4> QED BY <1>2, <2>1, <4>1 DEF OnItsWay
    <3> QED BY <3>1, <3>2
  <2> QED BY <1>1, <1>2, <2>2, <2>4, <2>5, <2>6, <2>7 DEF Fate
<1> QED BY <1>3, <1>4

\* Every step keeps a text shown or on its way.
LEMMA ShownNext == Inv /\ ShownOrOnItsWay /\ [Next]_vars => ShownOrOnItsWay'
<1> SUFFICES ASSUME Inv, ShownOrOnItsWay, [Next]_vars, settings'.continuous,
                    NEW d \in Docs, doc'[d] # NoText
             PROVE  \/ FreshList(d, shown[d], doc[d])'
                    \/ \E r \in Runs : OnItsWay(r, d)'
  BY DEF ShownOrOnItsWay, IsOpen
<1>1. Fates /\ Env /\ Aborts /\ Sends /\ Announces
  BY RunFates, EnvNext, AbortsNext, SendsNext, AnnouncesNext DEF Inv
<1>2. settings.continuous BY <1>1 DEF Env
<1>3. CASE doc'[d] # doc[d] BY <1>1, <1>3 DEF Announces, Announced
<1>4. CASE doc'[d] = doc[d]
  <2>1. IsOpen(d) BY <1>4 DEF IsOpen
  <2>2. CASE FreshList(d, shown[d], doc[d])
    <3>1. /\ d \in failed => d \in failed'
          /\ d \in ahead => d \in ahead'
      <4>1. texts \in Nat /\ doc[d].id \in Nat /\ doc[d].id <= texts
        BY DEF Inv, Typing, StoreOK, Texts, DocStamps
      <4> QED BY <1>1, <1>4, <4>1 DEF Env
    <3>2. shown'[d] = shown[d] \/ FreshList(d, shown[d], doc[d])'
      BY <1>1, <2>1 DEF Sends, Restored
    <3> QED BY <1>4, <2>2, <3>1, <3>2 DEF FreshList
  <2>3. CASE \E r \in Runs : OnItsWay(r, d)
    BY <1>1, <1>2, <1>4, <2>1, <2>3, OnItsWayNext
  <2> QED BY <1>2, <2>1, <2>2, <2>3 DEF ShownOrOnItsWay
<1> QED BY <1>3, <1>4

\* With diagnostics on the keystroke no text of an open document is left
\* without its publication, whichever tasks were aborted or replaced, with the
\* exceptions of FreshWhenSent.
THEOREM TextsAreShown == Spec => []OpenTextIsShown
<1>1. Init => ShownOrOnItsWay BY DEF Init, ShownOrOnItsWay, IsOpen
<1>2. ShownOrOnItsWay => OpenTextIsShown
  BY DEF ShownOrOnItsWay, OpenTextIsShown, OnItsWay, FreshList
<1> QED BY <1>1, <1>2, InvInit, InvNext, ShownNext, PTL DEF Spec

=============================================================================

---------------------------- MODULE Diagnostics ----------------------------
(***************************************************************************)
(* What the language server shows the user: the diagnostics of each file,  *)
(* sent to the editor by several concurrent tasks                          *)
(* (al-lsp/src/server/diagnostics.rs, al-lsp/src/server/lsp/mod.rs).       *)
(*                                                                         *)
(* A run publishes one file in two phases, native findings first and the   *)
(* compiler's after a call into the bridge; didOpen and didSave run one in *)
(* their handler, didChange arms one behind a debounce, and a run arms a   *)
(* transaction refresh of its own.  A pass publishes the whole project and *)
(* clears the files that became clean; it is armed by edits, saves, closes *)
(* and file events, and by the project-wide compiler pass.  Every list     *)
(* replaces the one the editor shows for that file, so a list sent late    *)
(* hides a newer one.                                                      *)
(*                                                                         *)
(* Steps.  A handler holds generation_lock in write mode for one step,     *)
(* except that didOpen and didChange store the document in one and index   *)
(* it in the next: the lock is held in between, and the tasks that take no *)
(* lock run there.  Taking the read lock, checking the snapshot and        *)
(* sending (publish_if_current) is one step.  A pass holds the read lock   *)
(* from its merge of the compiler's findings to its last send.  Between    *)
(* those a task waits for the native pass, the bridge or a timer, and goes *)
(* through the mutexes of the caches and of the published set: one step    *)
(* from each wait to the next.  An aborted task may still run until its    *)
(* next await; here it may go on or end at any step.                       *)
(*                                                                         *)
(* The texts are ones the document store accepts, the project is not       *)
(* indexed again and the session is not shut down.                         *)
(*                                                                         *)
(* Data.  A text is a stamp, the editor's version number and which kinds   *)
(* of findings it has: native ones of its own syntax, ones of the rules    *)
(* that read the project's index (proj), of the transaction rules (tx) and *)
(* of the compiler (ms).  A list of diagnostics names, for each kind, the  *)
(* text the findings are about, 0 for none.                                *)
(***************************************************************************)
EXTENDS Integers, FiniteSets

CONSTANTS Docs,      \* the project's files
          Settings,  \* the sessions: diagnosticsScope is project,
                     \* diagnosticsTrigger is continuous, and what may fail
          Runs,      \* bound: publications of single files at one time
          Passes,    \* bound: project passes at one time
          MaxTasks,  \* bound: publications and passes at one time
          Findings,  \* the combinations of findings a text may have
          MaxTexts,  \* bound: texts written in the editor and on disk
          MaxSaves   \* bound: saves and calls of al.lintFile

\* The reads of a file by did_close and by the file events, a project pass, and
\* the workers that index and lint an open document.
Faults == {"close", "watch", "pass", "index", "native"}

ASSUME BoundsAssumption ==
    /\ MaxTexts \in Nat /\ MaxSaves \in Nat /\ MaxTasks \in Nat
    /\ Settings \subseteq
          [project : BOOLEAN, continuous : BOOLEAN, fails : SUBSET Faults]
    /\ Findings \subseteq
          [native : BOOLEAN, proj : BOOLEAN, tx : BOOLEAN, ms : BOOLEAN]

ASSUME TasksAssumption == Docs # {} /\ Runs \cap Passes = {}

VARIABLES
    settings,     \* the configuration of the session and its faults
    texts,        \* how many texts there have been
    saves,        \* how many saves and calls of al.lintFile
    disk,         \* the saved text of each file
    events,       \* files whose watched-file event is on its way
    doc,          \* the open documents
    idx,          \* the file index
    unmoved,      \* the passes that staged since generation_revision moved
    semantic,     \* semantic_diagnostic_cache
    transaction,  \* transaction_diagnostic_cache
    published,    \* workspace_diagnostic_uris
    shown,        \* what the editor shows
    run,          \* the publications of single files
    pass,         \* the project passes
    aborted,      \* tasks that were aborted and have not ended
    onDisk,       \* history: stamps of the texts that were ever on disk
    failed,       \* history: documents on whose text of now a worker failed
    ahead         \* history: documents whose text of now was linted before
                  \* the index had it

files  == <<disk, events, onDisk>>
store  == <<doc, idx, unmoved>>
caches == <<semantic, transaction>>
bounds == <<texts, saves>>
marks  == <<failed, ahead>>

vars == <<settings, bounds, files, store, caches, published, shown, run,
          pass, aborted, marks>>

-----------------------------------------------------------------------------
Nothing == -1                       \* no entry in a cache

NoText == [id |-> 0, ver |-> 0, native |-> FALSE, proj |-> FALSE,
           tx |-> FALSE, ms |-> FALSE]
Text(id, ver, f) ==
    [id |-> id, ver |-> ver, native |-> f.native, proj |-> f.proj,
     tx |-> f.tx, ms |-> f.ms]

Texts == [id : Nat, ver : Nat, native : BOOLEAN, proj : BOOLEAN,
          tx : BOOLEAN, ms : BOOLEAN]
Lists == [native : Nat, proj : Nat, tx : Nat, ms : Nat]

Empty == [native |-> 0, proj |-> 0, tx |-> 0, ms |-> 0]

NativeOf(t) == IF t.native THEN t.id ELSE 0
ProjOf(t)   == IF t.proj THEN t.id ELSE 0
TxOf(t)     == IF t.tx THEN t.id ELSE 0
MsOf(t)     == IF t.ms THEN t.id ELSE 0

IsOpen(d) == doc[d] # NoText

\* What a list takes from a cache without an entry is nothing.
Cached(entry) == IF entry = Nothing THEN 0 ELSE entry

AnyDoc == CHOOSE d \in Docs : TRUE

NoRun == [pc |-> "idle", kind |-> "open", of |-> AnyDoc, text |-> NoText,
          list |-> Empty]

NotStaged == [source |-> NoText, document |-> NoText, reported |-> FALSE,
              clear |-> FALSE, list |-> Empty]

NothingStaged == [d \in Docs |-> NotStaged]

NoPass == [pc |-> "idle", kind |-> "handler", attempt |-> 0,
           staged |-> NothingStaged]

RunKinds  == {"open", "change", "debounced", "save", "transaction", "close"}
PassKinds == {"debounced", "handler", "semantic"}

RunSteps ==
    {"idle", "index", "arm", "sleep", "check", "record1", "phase1", "bridge",
     "record2", "phase2", "after", "tx_sleep", "tx_record", "tx_publish",
     "close_read", "close_restore"}

PassSteps == {"idle", "sleep", "wait", "results", "stage", "staged", "send"}

RunStates == [pc : RunSteps, kind : RunKinds, of : Docs, text : Texts,
              list : Lists]

StagedStates == [source : Texts, document : Texts, reported : BOOLEAN,
                 clear : BOOLEAN, list : Lists]

MAX_STAGING_ATTEMPTS == 3

PassStates == [pc : PassSteps, kind : PassKinds,
               attempt : 0..MAX_STAGING_ATTEMPTS,
               staged : [Docs -> StagedStates]]

Sleeping == {"sleep", "tx_sleep"}

-----------------------------------------------------------------------------
(* Tasks: how they are started, replaced and ended.                        *)

\* A handler whose document waits for the index holds the generation write
\* lock, a pass between its merge and its last send holds it in read mode.
NoWriter == \A r \in Runs : run[r].pc # "index"
NoReader == \A p \in Passes : pass[p].pc # "send"
LockIsFree == NoWriter /\ NoReader

EndRun(r) ==
    /\ run' = [run EXCEPT ![r] = NoRun]
    /\ aborted' = aborted \ {r}

\* The handlers of didSave and didClose arm the project's compiler pass once
\* their own pass is done; one that is already waiting is replaced.
AfterPass(p) ==
    IF pass[p].kind = "handler" /\ \A o \in Passes : pass[o].pc # "wait"
    THEN [NoPass EXCEPT !.pc = "wait", !.kind = "semantic"]
    ELSE NoPass

EndPass(p) ==
    /\ pass' = [pass EXCEPT ![p] = AfterPass(p)]
    /\ aborted' = aborted \ {p}
    /\ unmoved' = unmoved \ {p}

RunsOf(d, kind) ==
    {r \in Runs : run[r].of = d /\ run[r].kind = kind /\ run[r].pc # "idle"}

\* The task tables after the tasks in S were aborted: one that sleeps is gone,
\* one that runs ends at its next await.
RunsWithout(S) ==
    [r \in Runs |->
        IF r \in S /\ run[r].pc \in Sleeping THEN NoRun ELSE run[r]]
PassesWithout(S) ==
    [p \in Passes |-> IF p \in S /\ pass[p].pc \in Sleeping THEN NoPass
                                                           ELSE pass[p]]
RunningRuns(S)   == {r \in S : run[r].pc \notin Sleeping}
RunningPasses(S) == {p \in S : pass[p].pc \notin Sleeping}

Tasks == {r \in Runs : run[r].pc # "idle"}
             \cup {p \in Passes : pass[p].pc # "idle"}

Bounded == Cardinality(Tasks') <= MaxTasks

NewRun(kind, pc, d, t) ==
    [NoRun EXCEPT !.pc = pc, !.kind = kind, !.of = d, !.text = t]

\* Mutant of Rearmed: a publication that is under way is left to do the work.
ArmedOnce(r) ==
    [run EXCEPT ![r] =
        IF \E o \in Runs \ {r} : run[o].of = run[r].of /\ run[o].pc # "idle"
        THEN NoRun ELSE NewRun("debounced", "sleep", run[r].of, NoText)]

\* The run table schedule_diagnostics makes for the handler r: its new task
\* replaces the old one of the document.
Rearmed(r) ==
    [RunsWithout(RunsOf(run[r].of, "debounced")) EXCEPT ![r] =
        NewRun("debounced", "sleep", run[r].of, NoText)]

\* schedule_workspace_diagnostics keeps one task; a new one replaces it.
Republishing ==
    {p \in Passes : pass[p].kind = "debounced" /\ pass[p].pc # "idle"}

NewPass(kind, pc) == [NoPass EXCEPT !.pc = pc, !.kind = kind]

\* The pass tables schedule_workspace_diagnostics makes of f, which its old
\* task has left.
PassArmed(f) ==
    {[f EXCEPT ![p] = NewPass("debounced", "sleep")] :
        p \in {q \in Passes : f[q].pc = "idle"}}

\* The pass tables schedule_project_semantic makes of f: a task that waits is
\* replaced, which changes nothing here; one that has started runs on.
SemanticArmed(f) ==
    IF \E p \in Passes : f[p].pc = "wait"
    THEN {f}
    ELSE {[f EXCEPT ![p] = NewPass("semantic", "wait")] :
            p \in {q \in Passes : f[q].pc = "idle"}}

-----------------------------------------------------------------------------
Clean == [native |-> FALSE, proj |-> FALSE, tx |-> FALSE, ms |-> FALSE]

\* The workspace is initialised and every file is clean.
Init ==
    /\ settings \in Settings
    /\ texts = 1 /\ saves = 0
    /\ disk = [d \in Docs |-> Text(1, 0, Clean)]
    /\ events = {}
    /\ doc = [d \in Docs |-> NoText]
    /\ idx = [d \in Docs |-> Text(1, 0, Clean)]
    /\ unmoved = {}
    /\ semantic = [d \in Docs |-> Nothing]
    /\ transaction = [d \in Docs |-> Nothing]
    /\ published = {}
    /\ shown = [d \in Docs |-> Empty]
    /\ run = [r \in Runs |-> NoRun]
    /\ pass = [p \in Passes |-> NoPass]
    /\ aborted = {}
    /\ onDisk = [d \in Docs |-> {0, 1}]
    /\ failed = {} /\ ahead = {}

-----------------------------------------------------------------------------
(* The notification handlers.                                              *)

\* did_open and did_change take the write lock and store the text; until they
\* have indexed it the document is ahead of the index.
Store(d, kind, t) ==
    /\ LockIsFree
    /\ texts < MaxTexts
    /\ texts' = texts + 1
    /\ doc' = [doc EXCEPT ![d] = t]
    /\ \E r \in Runs : /\ run[r].pc = "idle"
                       /\ run' = [run EXCEPT ![r] =
                                    NewRun(kind, "index", d, t)]
    /\ failed' = failed \ {d} /\ ahead' = ahead \ {d}
    /\ UNCHANGED <<settings, saves, files, idx, unmoved, caches, published,
                   shown, pass, aborted>>
    /\ Bounded

DidOpen(d, f) == ~IsOpen(d) /\ Store(d, "open", Text(texts + 1, 1, f))

DidChange(d, f) ==
    IsOpen(d) /\ Store(d, "change", Text(texts + 1, doc[d].ver + 1, f))

\* on_document_change is done and the lock is released: did_open publishes
\* the file, did_change goes on to its debounced tasks.
Indexed(r) ==
    /\ run[r].pc = "index"
    /\ idx' = [idx EXCEPT ![run[r].of] = run[r].text]
    /\ unmoved' = {}
    /\ run' = [run EXCEPT ![r].pc =
                 IF run[r].kind = "open" THEN "check" ELSE "arm"]
    /\ UNCHANGED <<settings, bounds, files, doc, caches, published, shown,
                   pass, aborted, marks>>

\* The worker that indexes a change failed, wherever it was: did_change tells
\* the user and returns.
IndexFails(r) ==
    /\ "index" \in settings.fails
    /\ run[r].pc = "index" /\ run[r].kind = "change"
    /\ idx' \in {idx, [idx EXCEPT ![run[r].of] = run[r].text]}
    /\ failed' = failed \cup {run[r].of}
    /\ EndRun(r)
    /\ UNCHANGED <<settings, bounds, files, doc, unmoved, caches, published,
                   shown, pass, ahead>>

\* The rest of did_change.  With the trigger on the keystroke the debounced
\* tasks are armed again, otherwise they are cancelled.
Arm(r) ==
    LET armed  == RunsOf(run[r].of, "debounced")
        others == PassesWithout(Republishing)
        ended  == aborted \cup RunningRuns(armed)
                          \cup RunningPasses(Republishing)
    IN
    /\ run[r].pc = "arm"
    /\ \/ /\ settings.continuous /\ settings.project
          /\ run' = Rearmed(r)
          /\ pass' \in PassArmed(others)
          /\ aborted' = ended
       \/ /\ settings.continuous /\ ~settings.project
          /\ run' = Rearmed(r)
          /\ aborted' = aborted \cup RunningRuns(armed)
          /\ UNCHANGED pass
       \/ /\ ~settings.continuous
          /\ run' = [RunsWithout(armed) EXCEPT ![r] = NoRun]
          /\ pass' = others
          /\ aborted' = ended
    /\ UNCHANGED <<settings, bounds, files, store, caches, published, shown,
                   marks>>
    /\ Bounded

\* did_save: the editor has written the file; the handler publishes the
\* document as it is in the store.
DidSave(d) ==
    /\ IsOpen(d) /\ saves < MaxSaves
    /\ saves' = saves + 1
    /\ disk' = [disk EXCEPT ![d] = doc[d]]
    /\ onDisk' = [onDisk EXCEPT ![d] = @ \cup {doc[d].id}]
    /\ \E r \in Runs : /\ run[r].pc = "idle"
                       /\ run' = [run EXCEPT ![r] =
                                    NewRun("save", "check", d, doc[d])]
    /\ UNCHANGED <<settings, texts, events, store, caches, published, shown,
                   pass, aborted, marks>>
    /\ Bounded

\* al.lintFile publishes the document as did_open does.
LintFile(d) ==
    /\ IsOpen(d) /\ saves < MaxSaves
    /\ saves' = saves + 1
    /\ \E r \in Runs : /\ run[r].pc = "idle"
                       /\ run' = [run EXCEPT ![r] =
                                    NewRun("open", "check", d, doc[d])]
    /\ UNCHANGED <<settings, texts, files, store, caches, published, shown,
                   pass, aborted, marks>>
    /\ Bounded

\* did_close up to the release of the write lock: the document is gone, its
\* tasks are aborted, the index keeps the discarded text for now.
DidClose(d) ==
    /\ LockIsFree
    /\ IsOpen(d)
    /\ doc' = [doc EXCEPT ![d] = NoText]
    /\ semantic' = IF settings.project THEN semantic
                   ELSE [semantic EXCEPT ![d] = Nothing]
    /\ transaction' = [transaction EXCEPT ![d] = Nothing]
    /\ LET tasks == RunsOf(d, "debounced") \cup RunsOf(d, "transaction")
           rest  == RunsWithout(tasks)
       IN /\ \E r \in Runs : /\ rest[r].pc = "idle"
                             /\ run' = [rest EXCEPT ![r] =
                                   NewRun("close", "close_read", d, NoText)]
          /\ aborted' = aborted \cup RunningRuns(tasks)
    /\ unmoved' = {}
    /\ failed' = failed \ {d} /\ ahead' = ahead \ {d}
    /\ UNCHANGED <<settings, bounds, files, idx, published, shown, pass>>
    /\ Bounded

\* The saved source is read without the lock; a file that cannot be read
\* counts as deleted.
CloseRead(r) ==
    /\ run[r].pc = "close_read"
    /\ \E t \in {disk[run[r].of], NoText} :
          /\ t = disk[run[r].of] \/ "close" \in settings.fails
          /\ run' = [run EXCEPT ![r].pc = "close_restore", ![r].text = t]
    /\ UNCHANGED <<settings, bounds, files, store, caches, published, shown,
                   pass, aborted, marks>>

\* The rest of did_close: unless the document was opened again, the index
\* takes the saved text, the editor's list is cleared under the write lock
\* and the project is published.
CloseRestore(r) ==
    LET d == run[r].of IN
    /\ run[r].pc = "close_restore"
    /\ LockIsFree
    /\ EndRun(r)
    /\ \/ /\ IsOpen(d)
          /\ UNCHANGED <<idx, unmoved, shown, pass>>
       \/ /\ ~IsOpen(d)
          /\ idx' = [idx EXCEPT ![d] = run[r].text]
          /\ unmoved' = {}
          /\ shown' = [shown EXCEPT ![d] = Empty]
          /\ \/ /\ settings.project
                /\ \E p \in Passes : /\ pass[p].pc = "idle"
                                     /\ pass' = [pass EXCEPT ![p] =
                                                  NewPass("handler", "stage")]
             \/ /\ ~settings.project
                /\ UNCHANGED pass
    /\ UNCHANGED <<settings, bounds, files, doc, caches, published, marks>>

\* A file is changed on disk by another program, or deleted.
DiskChange(d, t) ==
    /\ texts < MaxTexts
    /\ texts' = texts + 1
    /\ disk' = [disk EXCEPT ![d] = t]
    /\ onDisk' = [onDisk EXCEPT ![d] = @ \cup {t.id}]
    /\ events' = events \cup {d}
    /\ UNCHANGED <<settings, saves, store, caches, published, shown, run, pass,
                   aborted, marks>>

\* did_change_watched_files: the file is read under the write lock; an open
\* document belongs to the editor, and a failed read ends the handler.
DidChangeWatchedFile(d) ==
    /\ d \in events
    /\ LockIsFree
    /\ events' = events \ {d}
    /\ \/ /\ IsOpen(d) \/ "watch" \in settings.fails
          /\ UNCHANGED <<idx, unmoved, pass, aborted>>
       \/ /\ ~IsOpen(d)
          /\ idx' = [idx EXCEPT ![d] = disk[d]]
          /\ unmoved' = {}
          /\ \/ /\ settings.project
                /\ \E f \in PassArmed(PassesWithout(Republishing)) :
                      pass' \in SemanticArmed(f)
                /\ aborted' = aborted \cup RunningPasses(Republishing)
             \/ /\ ~settings.project
                /\ UNCHANGED <<pass, aborted>>
    /\ UNCHANGED <<settings, bounds, disk, onDisk, doc, caches, published,
                   shown, run, marks>>
    /\ Bounded

-----------------------------------------------------------------------------
(* publish_diagnostics, for the text the run holds.                        *)

\* Mutant of IsCurrent: a document that is gone has not changed.
IsCurrentOrClosed(r) == doc[run[r].of] \in {run[r].text, NoText}

\* snapshot_is_current
IsCurrent(r) == IsOpen(run[r].of) /\ doc[run[r].of] = run[r].text

\* record_project_publication
Record(d, list) ==
    published' = IF ~settings.project THEN published
                 ELSE IF list # Empty THEN published \cup {d}
                 ELSE published \ {d}

\* The debounce is over: the run takes the document as it is now.
Wake(r) ==
    /\ run[r].pc = "sleep"
    /\ \/ /\ IsOpen(run[r].of)
          /\ run' = [run EXCEPT ![r].pc = "check",
                                ![r].text = doc[run[r].of]]
          /\ UNCHANGED aborted
       \/ /\ ~IsOpen(run[r].of)
          /\ EndRun(r)
    /\ UNCHANGED <<settings, bounds, files, store, caches, published, shown,
                   pass, marks>>

\* What a run does when publish_diagnostics returns: didSave goes on.
Finish(r) ==
    IF run[r].kind = "save" /\ settings.project
    THEN /\ run' = [run EXCEPT ![r] = NewRun("save", "after", @.of, NoText)]
         /\ UNCHANGED aborted
    ELSE EndRun(r)

\* The check before the analysis.
Check(r) ==
    /\ run[r].pc = "check"
    /\ \/ /\ IsCurrent(r)
          /\ run' = [run EXCEPT ![r].pc = "record1"]
          /\ UNCHANGED aborted
       \/ /\ ~IsCurrent(r)
          /\ Finish(r)
    /\ UNCHANGED <<settings, bounds, files, store, caches, published, shown,
                   pass, marks>>

\* Whether a native worker comes to its end.
Works == IF "native" \in settings.fails THEN {TRUE, FALSE} ELSE {TRUE}

\* What the fast native pass gives a run, without any lock: the findings of
\* the document, one finding that it is not loaded, or nothing when the worker
\* failed; and for a loaded document the findings of the rules over the index.
FastNative(r, works) ==
    CASE ~works           -> 0
      [] IsOpen(run[r].of) -> NativeOf(doc[run[r].of])
      [] OTHER            -> run[r].text.id
FastProj(r, works) ==
    IF works /\ IsOpen(run[r].of) THEN ProjOf(idx[run[r].of]) ELSE 0

\* History: the pass failed on the text of now, or read an older index.
Mark(r, works) ==
    LET d == run[r].of IN
    /\ failed' = IF IsCurrent(r) /\ ~works THEN failed \cup {d} ELSE failed
    /\ ahead' = IF IsCurrent(r) /\ idx[d] # doc[d] THEN ahead \cup {d}
                                                 ELSE ahead

\* The native pass; phase 1 also carries the last transaction and compiler
\* findings.
Record1(r) ==
    LET d == run[r].of IN
    /\ run[r].pc = "record1"
    /\ \E works \in Works :
          LET list == [native |-> FastNative(r, works),
                       proj |-> FastProj(r, works),
                       tx |-> Cached(transaction[d]),
                       ms |-> Cached(semantic[d])]
          IN /\ run' = [run EXCEPT ![r].pc = "phase1", ![r].list = list]
             /\ Record(d, list)
             /\ Mark(r, works)
    /\ UNCHANGED <<settings, bounds, files, store, caches, shown, pass,
                   aborted>>

\* publish_if_current, then schedule_transaction_refresh.  With every run busy
\* the refresh stays asleep.
Phase1(r) ==
    LET d     == run[r].of
        armed == RunsOf(d, "transaction")
        rest  == [RunsWithout(armed) EXCEPT ![r].pc = "bridge",
                      ![r].list = [Empty EXCEPT !.native = run[r].list.native,
                                                !.proj = run[r].list.proj]]
        free  == {o \in Runs : rest[o].pc = "idle"}
    IN
    /\ run[r].pc = "phase1"
    /\ NoWriter
    /\ \/ /\ IsCurrent(r)
          /\ shown' = [shown EXCEPT ![d] = run[r].list]
          /\ \/ \E o \in free : run' = [rest EXCEPT ![o] =
                  NewRun("transaction", "tx_sleep", d, run[r].text)]
             \/ free = {} /\ run' = rest
          /\ aborted' = aborted \cup RunningRuns(armed)
       \/ /\ ~IsCurrent(r)
          /\ Finish(r)
          /\ UNCHANGED shown
    /\ UNCHANGED <<settings, bounds, files, store, caches, published, pass,
                   marks>>
    /\ Bounded

\* run_semantic_analysis gives findings, or nothing when no compiler pass
\* could run; a text that moved on meanwhile ends the run.
Bridge(r) ==
    /\ run[r].pc = "bridge"
    /\ \/ /\ IsCurrent(r)
          /\ run' = [run EXCEPT ![r].pc = "record2",
                                ![r].list.ms = MsOf(run[r].text)]
          /\ UNCHANGED aborted
       \/ Finish(r)
    /\ UNCHANGED <<settings, bounds, files, store, caches, published, shown,
                   pass, marks>>

\* The findings go to the cache and, with the transaction findings of now, to
\* the list.
Record2(r) ==
    LET d    == run[r].of
        list == [run[r].list EXCEPT !.tx = Cached(transaction[d])]
    IN
    /\ run[r].pc = "record2"
    /\ semantic' = [semantic EXCEPT ![d] = list.ms]
    /\ run' = [run EXCEPT ![r].pc = "phase2", ![r].list = list]
    /\ Record(d, list)
    /\ UNCHANGED <<settings, bounds, files, store, transaction, shown, pass,
                   aborted, marks>>

Phase2(r) ==
    /\ run[r].pc = "phase2"
    /\ NoWriter
    /\ shown' = IF IsCurrent(r)
                THEN [shown EXCEPT ![run[r].of] = run[r].list] ELSE shown
    /\ Finish(r)
    /\ UNCHANGED <<settings, bounds, files, store, caches, published, pass,
                   marks>>

\* The rest of did_save in project scope: a pending pass is cancelled and the
\* handler runs its own.
AfterSave(r) ==
    /\ run[r].pc = "after"
    /\ LET others == PassesWithout(Republishing) IN
          \E p \in Passes : /\ others[p].pc = "idle"
                           /\ pass' = [others EXCEPT ![p] =
                                        NewPass("handler", "stage")]
    /\ run' = [run EXCEPT ![r] = NoRun]
    /\ aborted' = (aborted \ {r}) \cup RunningPasses(Republishing)
    /\ UNCHANGED <<settings, bounds, files, store, caches, published, shown,
                   marks>>

-----------------------------------------------------------------------------
(* The task of schedule_transaction_refresh.                               *)

TxWake(r) ==
    /\ run[r].pc = "tx_sleep"
    /\ \/ /\ IsCurrent(r)
          /\ run' = [run EXCEPT ![r].pc = "tx_record"]
          /\ UNCHANGED aborted
       \/ /\ ~IsCurrent(r)
          /\ EndRun(r)
    /\ UNCHANGED <<settings, bounds, files, store, caches, published, shown,
                   pass, marks>>

\* The call graph pass over the index; findings that did not change are not
\* published again, others go with those of another native pass.  A worker or
\* a build of the graph that fails finds nothing.
TxRecord(r) ==
    LET d == run[r].of IN
    /\ run[r].pc = "tx_record"
    /\ \E resolves, works \in Works :
          LET list == [native |-> FastNative(r, works),
                       proj |-> FastProj(r, works),
                       tx |-> IF resolves THEN TxOf(idx[d]) ELSE 0,
                       ms |-> Cached(semantic[d])]
          IN /\ transaction' = [transaction EXCEPT ![d] = list.tx]
             /\ \/ /\ list.tx # Cached(transaction[d])
                   /\ run' = [run EXCEPT ![r].pc = "tx_publish",
                                         ![r].list = list]
                   /\ Record(d, list)
                   /\ Mark(r, works)
                   /\ UNCHANGED aborted
                \/ /\ list.tx = Cached(transaction[d])
                   /\ EndRun(r)
                   /\ UNCHANGED <<published, marks>>
    /\ UNCHANGED <<settings, bounds, files, store, semantic, shown, pass>>

\* Mutant of TxPublish: the findings are sent without a look at the document.
TxPublishUnchecked(r) ==
    /\ run[r].pc = "tx_publish"
    /\ NoWriter
    /\ shown' = [shown EXCEPT ![run[r].of] = run[r].list]
    /\ EndRun(r)
    /\ UNCHANGED <<settings, bounds, files, store, caches, published, pass,
                   marks>>

TxPublish(r) ==
    /\ run[r].pc = "tx_publish"
    /\ NoWriter
    /\ shown' = IF IsCurrent(r)
                THEN [shown EXCEPT ![run[r].of] = run[r].list] ELSE shown
    /\ EndRun(r)
    /\ UNCHANGED <<settings, bounds, files, store, caches, published, pass,
                   marks>>

CancelRun(r) ==
    /\ r \in aborted
    /\ EndRun(r)
    /\ UNCHANGED <<settings, bounds, files, store, caches, published, shown,
                   pass, marks>>

-----------------------------------------------------------------------------
(* publish_workspace_diagnostics_parts.                                    *)

PassWakes(p) ==
    /\ pass[p].pc = "sleep"
    /\ pass' = [pass EXCEPT ![p].pc = "stage"]
    /\ UNCHANGED <<settings, bounds, files, store, caches, published, shown,
                   run, aborted, marks>>

\* A file is reported when the native pass found something in it or the
\* compiler cache has an entry for it; the others that were published are to
\* be cleared.
StageOf(d) ==
    LET list     == [native |-> NativeOf(idx[d]), proj |-> ProjOf(idx[d]),
                     tx |-> TxOf(idx[d]), ms |-> 0]
        reported == list # Empty
                       \/ (idx[d] # NoText /\ semantic[d] # Nothing)
    IN [source |-> idx[d], document |-> doc[d], reported |-> reported,
        clear |-> ~reported /\ d \in published, list |-> list]

\* compute_workspace_push_diagnostics under the generation read lock.
Stage(p) ==
    /\ pass[p].pc = "stage"
    /\ NoWriter
    /\ pass' = [pass EXCEPT ![p].pc = "staged",
                            ![p].attempt = @ + 1,
                            ![p].staged = [d \in Docs |-> StageOf(d)]]
    /\ unmoved' = unmoved \cup {p}
    /\ UNCHANGED <<settings, bounds, files, doc, idx, caches, published, shown,
                   run, aborted, marks>>

\* The pass failed and told the user.
StageFails(p) ==
    /\ "pass" \in settings.fails
    /\ pass[p].pc = "stage"
    /\ EndPass(p)
    /\ UNCHANGED <<settings, bounds, files, doc, idx, caches, published, shown,
                   run, marks>>

\* The native findings of the attempt are joined by the compiler's.
WithSemantic(p) ==
    [d \in Docs |-> [pass[p].staged[d] EXCEPT !.list.ms =
        IF pass[p].staged[d].reported THEN Cached(semantic[d]) ELSE 0]]

\* Mutant of MayRestage: one attempt too many.
MayRestageOnceMore(p) == pass[p].attempt <= MAX_STAGING_ATTEMPTS

MayRestage(p) == pass[p].attempt < MAX_STAGING_ATTEMPTS

\* The lock is taken again; a generation that moved is staged again, the
\* third attempt goes on whatever happened.  The compiler's findings are
\* added now.
Merge(p) ==
    /\ pass[p].pc = "staged"
    /\ NoWriter
    /\ \/ /\ p \notin unmoved /\ MayRestage(p)
          /\ pass' = [pass EXCEPT ![p].pc = "stage",
                                  ![p].staged = NothingStaged]
       \/ /\ p \in unmoved \/ ~MayRestage(p)
          /\ pass' = [pass EXCEPT ![p].pc = "send", ![p].attempt = 0,
                                  ![p].staged = WithSemantic(p)]
    /\ unmoved' = unmoved \ {p}
    /\ UNCHANGED <<settings, bounds, files, doc, idx, caches, published, shown,
                   run, aborted, marks>>

\* StagedInput::is_current
InputIsCurrent(p, d) ==
    /\ pass[p].staged[d].source = idx[d]
    /\ pass[p].staged[d].document = doc[d]

\* The files that get a list, the files that are cleared, and the files that
\* were published and are neither.
Current(p) == {d \in Docs : pass[p].staged[d].reported
                              /\ pass[p].staged[d].list # Empty}
Sent(p)    == {d \in Current(p) : InputIsCurrent(p, d)}
Cleared(p) == {d \in published \ Current(p) :
                  pass[p].staged[d].clear /\ InputIsCurrent(p, d)}
Kept(p)    == (published \ Current(p)) \ Cleared(p)

\* What the editor shows once the sends to the files in D are done.
ShownAfter(p, D) ==
    [d \in Docs |-> CASE d \in Sent(p) \cap D    -> pass[p].staged[d].list
                     [] d \in Cleared(p) \cap D -> Empty
                     [] OTHER                   -> shown[d]]

\* The clears and the lists are sent and the set of published files is
\* replaced, under its mutex and the generation read lock.
Send(p) ==
    /\ pass[p].pc = "send"
    /\ shown' = ShownAfter(p, Docs)
    /\ published' = Current(p) \cup Kept(p)
    /\ EndPass(p)
    /\ UNCHANGED <<settings, bounds, files, doc, idx, caches, run, marks>>

\* An aborted pass ends at any await, between two sends too: some files have
\* been sent their list and the published set is not replaced.
CancelPass(p) ==
    /\ p \in aborted
    /\ \/ /\ pass[p].pc = "send"
          /\ \E D \in SUBSET Docs : shown' = ShownAfter(p, D)
       \/ /\ pass[p].pc # "send"
          /\ UNCHANGED shown
    /\ EndPass(p)
    /\ UNCHANGED <<settings, bounds, files, doc, idx, caches, published, run,
                   marks>>

-----------------------------------------------------------------------------
(* run_project_semantic_analysis, which ends with a pass.                  *)

\* The open documents and the files on disk go to the compiler.
Analyzed(d) ==
    [NotStaged EXCEPT !.document = doc[d],
        !.list = [Empty EXCEPT
            !.ms = MsOf(IF IsOpen(d) THEN doc[d] ELSE disk[d])]]

AnalyzeProject(p) ==
    /\ pass[p].pc = "wait"
    /\ pass' = [pass EXCEPT ![p].pc = "results",
                            ![p].staged = [d \in Docs |-> Analyzed(d)]]
    /\ UNCHANGED <<settings, bounds, files, store, caches, published, shown,
                   run, aborted, marks>>

AnalyzeProjectFails(p) ==
    /\ "pass" \in settings.fails
    /\ pass[p].pc = "wait"
    /\ EndPass(p)
    /\ UNCHANGED <<settings, bounds, files, doc, idx, caches, published, shown,
                   run, marks>>

\* Every project file gets an entry, an empty one when it is clean; an open
\* document whose version moved keeps its own.
TakesResult(p, d) ==
    /\ idx[d] # NoText \/ pass[p].staged[d].list.ms # 0
    /\ IsOpen(d) => /\ pass[p].staged[d].document # NoText
                    /\ pass[p].staged[d].document.ver = doc[d].ver

InsertResults(p) ==
    /\ pass[p].pc = "results"
    /\ semantic' = [d \in Docs |-> IF TakesResult(p, d)
                                   THEN pass[p].staged[d].list.ms
                                   ELSE semantic[d]]
    /\ pass' = [pass EXCEPT ![p].pc = "stage",
                            ![p].staged = NothingStaged]
    /\ UNCHANGED <<settings, bounds, files, store, transaction, published,
                   shown, run, aborted, marks>>

-----------------------------------------------------------------------------
RunStep(r) ==
    \/ Indexed(r) \/ IndexFails(r) \/ Arm(r)
    \/ Wake(r) \/ Check(r) \/ Record1(r) \/ Phase1(r) \/ Bridge(r)
    \/ Record2(r) \/ Phase2(r) \/ AfterSave(r)
    \/ TxWake(r) \/ TxRecord(r) \/ TxPublish(r)
    \/ CloseRead(r) \/ CloseRestore(r) \/ CancelRun(r)

PassStep(p) ==
    \/ PassWakes(p) \/ Stage(p) \/ StageFails(p) \/ Merge(p) \/ Send(p)
    \/ CancelPass(p)
    \/ AnalyzeProject(p) \/ AnalyzeProjectFails(p) \/ InsertResults(p)

Next ==
    \/ \E d \in Docs :
          \/ \E f \in Findings :
                \/ DidOpen(d, f) \/ DidChange(d, f)
                \/ DiskChange(d, Text(texts + 1, 0, f))
          \/ DiskChange(d, NoText)
          \/ DidSave(d) \/ LintFile(d) \/ DidClose(d)
          \/ DidChangeWatchedFile(d)
    \/ \E r \in Runs : RunStep(r)
    \/ \E p \in Passes : PassStep(p)

Spec == Init /\ [][Next]_vars

-----------------------------------------------------------------------------
TypeOK ==
    /\ settings \in Settings
    /\ texts \in Nat /\ saves \in Nat /\ unmoved \subseteq Passes
    /\ disk \in [Docs -> Texts] /\ doc \in [Docs -> Texts]
    /\ idx \in [Docs -> Texts]
    /\ events \subseteq Docs /\ published \subseteq Docs
    /\ semantic \in [Docs -> Nat \cup {Nothing}]
    /\ transaction \in [Docs -> Nat \cup {Nothing}]
    /\ shown \in [Docs -> Lists]
    /\ run \in [Runs -> RunStates]
    /\ pass \in [Passes -> PassStates]
    /\ aborted \subseteq Runs \cup Passes
    /\ onDisk \in [Docs -> SUBSET Nat]
    /\ failed \subseteq Docs /\ ahead \subseteq Docs

\* What is sent for an open document has exactly the native and the project
\* findings of the text the editor has: no run, refresh or pass, however late,
\* replaces them by those of an older text, and no clear hides them.  Two
\* things are left to the code: a worker that fails on the text, and for the
\* project findings a native pass that met the text before the index had it.
FreshWhenSent ==
    [][\A d \in Docs : shown'[d] # shown[d] /\ doc'[d] # NoText =>
           /\ d \in failed' \/ shown'[d].native = NativeOf(doc'[d])
           /\ \/ d \in failed' \cup ahead'
              \/ shown'[d].proj = ProjOf(doc'[d])]_vars

\* A file is being closed until its list was cleared.
Closing(d) == \E r \in Runs : run[r].kind = "close" /\ run[r].of = d
                                  /\ run[r].pc # "idle"

\* A closed document shows no native, project or transaction findings of text
\* that was discarded with it, and outside project scope no compiler findings
\* either: no publication that began before the close lands after its clear.
NoGhost ==
    \A d \in Docs : ~IsOpen(d) /\ ~Closing(d) =>
        /\ {shown[d].native, shown[d].proj, shown[d].tx} \subseteq onDisk[d]
        /\ ~settings.project => shown[d] = Empty

\* With diagnostics on the keystroke, an open document for which nothing is
\* under way shows the native and the project findings of the text in the
\* editor, with the exceptions of FreshWhenSent: no text was left without its
\* publication, whichever tasks were aborted on the way.
OpenTextIsShown ==
    settings.continuous =>
        \A d \in Docs : IsOpen(d) /\ (\A r \in Runs : run[r].of = d =>
                                                     run[r].pc = "idle") =>
            /\ d \in failed \/ shown[d].native = NativeOf(doc[d])
            /\ d \in failed \cup ahead \/ shown[d].proj = ProjOf(doc[d])

-----------------------------------------------------------------------------
(* What the repository says of the code and the code does not do.          *)

Quiet ==
    /\ \A r \in Runs : run[r].pc = "idle"
    /\ \A p \in Passes : pass[p].pc = "idle"
    /\ events = {}

\* "Re-publish the complete workspace diagnostic generation, including empty
\* arrays for files that became clean": once every task is done, a file that
\* is clean on disk shows no native findings.
FixedFindingsLeave ==
    settings.project /\ Quiet =>
        \A d \in Docs : ~IsOpen(d) /\ NativeOf(idx[d]) = 0 =>
            shown[d].native = 0

=============================================================================

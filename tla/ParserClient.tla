----------------------------- MODULE ParserClient -----------------------------
(***************************************************************************)
(* The parser of the code-completion plug-in as the client of a thread     *)
(* pool: class Parser (parser/parser.cpp), the two tasks of                *)
(* parserthreadedtask.cpp, the part of ParserThread that opens and closes  *)
(* files, and the file table of the TokenTree.                             *)
(*                                                                         *)
(* The pool is TaskBoard, which ThreadPool implements; Parser forces it to *)
(* one thread.  The GUI thread handles calls, timers and pool events one   *)
(* at a time; the worker runs between any two of them, and inside them     *)
(* only where they wait: for the token tree's mutex, or in the destructor  *)
(* for the pool.  Several parsers share s_CurrentParser: this is one of    *)
(* them, the others are the environment.                                   *)
(*                                                                         *)
(* Left out: what the tokens are (every file holds at least one), which    *)
(* copy of a text is read (m_NeedsReparse), the stop watch, and a parser   *)
(* that changes project.                                                   *)
(***************************************************************************)
EXTENDS Naturals, Sequences, FiniteSets, SequencesExt

CONSTANTS
    File,
    Includes,     \* the files the text of each file includes
    Batches,      \* the source files the project may have, as AddBatchParse gets them
    HasProject,   \* m_Project is not null
    MaxCalls      \* bound: calls of the client and turns of other parsers

ASSUME ParserAssumption ==
    /\ IsFiniteSet(File) /\ Includes \in [File -> SUBSET File]
    /\ \A l \in Batches : l \in Seq(File) /\ IsInjective(l)
    /\ HasProject \in BOOLEAN /\ MaxCalls \in Nat

VARIABLES
    files,       \* m_BatchParseFiles
    macros,      \* m_PredefinedMacros is not empty
    parsing,     \* m_IsParsing
    ignore,      \* m_IgnoreThreadEvents
    state,       \* m_ParserState
    needMark,    \* m_NeedMarkFileAsLocal
    timer,       \* m_BatchTimer runs
    reTimer,     \* m_ReparseTimer runs
    current,     \* s_CurrentParser
    tree,        \* m_FileStatusMap; "no" is fpsNotParsed or no entry
    flagged,     \* m_FilesToBeReparsed
    inbox,       \* cbEVT_THREADTASK_ALLDONE events not handled yet
    life,        \* the Parser object: its destructor waits, then is over
    (* the pool: see TaskBoard *)
    pending, claimed, done, due, open,
    added,       \* tasks added so far
    (* the worker *)
    at,          \* where the task it carries out stands
    todo,        \* batchFiles: the copy the batch task made
    opened,      \* the files it is parsing, each included by the one before
    (* history *)
    calls,       \* calls so far
    unread,      \* files that could not be opened
    owed,        \* files accepted for parsing and not parsed since
    raced,       \* a call came while a batch task was between copy and clear
    hasty        \* a call stopped the timer of a parser that was parsing

poolVars   == <<pending, claimed, done, due, open, added>>
listVars   == <<files, macros>>
phaseVars  == <<parsing, ignore, state, needMark, current>>
timerVars  == <<timer, reTimer>>
treeVars   == <<tree, flagged>>
workerVars == <<at, todo, opened>>
historyVars == <<calls, unread, owed, raced, hasty>>
vars == <<listVars, phaseVars, timerVars, treeVars, inbox, life, poolVars,
          workerVars, historyVars>>

(* ParserThreadedTask, MarkFileAsLocalThreadedTask and ParserThread; n     *)
(* tells equal tasks apart.                                                *)
Task == [n : Nat, kind : {"batch", "mark"}]
        \cup [n : Nat, kind : {"parse"}, file : File]
Pool == INSTANCE TaskBoard WITH N <- 1

Tasks == Pool!Listed \cup claimed
AddTask(kind) ==
    /\ Pool!Add([n |-> added, kind |-> kind])
    /\ added' = added + 1
AddParserThread(f) ==
    /\ Pool!Add([n |-> added, kind |-> "parse", file |-> f])
    /\ added' = added + 1

(* The types; and m_BatchParseFiles lists no file twice.                   *)
TypeOK ==
    /\ files \in Seq(File) /\ IsInjective(files) /\ macros \in BOOLEAN
    /\ parsing \in BOOLEAN /\ ignore \in BOOLEAN /\ needMark \in BOOLEAN
    /\ state \in {"ptCreateParser", "ptAddFileToParser", "ptReparseFile", "ptUndefined"}
    /\ timer \in BOOLEAN /\ reTimer \in BOOLEAN
    /\ current \in {"none", "this", "other"}
    /\ tree \in [File -> {"no", "assigned", "parsing", "done"}]
    /\ flagged \subseteq File
    /\ inbox \in Nat /\ life \in {"alive", "ending", "over"}
    /\ pending \in Seq(Task) /\ claimed \subseteq Task /\ done \subseteq Task
    /\ due \in BOOLEAN /\ open \in BOOLEAN /\ added \in Nat
    /\ at \in {"idle", "copy", "macros", "list", "parse", "locked", "gap", "end"}
    /\ todo \in Seq(File) /\ opened \in Seq(File)
    /\ calls \in Nat /\ unread \subseteq File /\ owed \subseteq File
    /\ raced \in BOOLEAN /\ hasty \in BOOLEAN

(* The parser as NativeParser::CreateParser makes it: the constructor, and *)
(* the AddPredefinedMacros and AddBatchParse of DoFullParsing.             *)
Init ==
    /\ files \in Batches /\ macros \in BOOLEAN
    /\ parsing = FALSE /\ ignore = TRUE
    /\ state = "ptCreateParser" /\ needMark = TRUE
    /\ timer = TRUE /\ reTimer = FALSE /\ current \in {"none", "other"}
    /\ tree = [f \in File |-> "no"] /\ flagged = {}
    /\ inbox = 0 /\ life = "alive" /\ Pool!Init /\ added = 0
    /\ at = "idle" /\ todo = <<>> /\ opened = <<>>
    /\ calls = 0 /\ unread = {} /\ owed = ToSet(files) /\ raced = FALSE /\ hasty = FALSE

-----------------------------------------------------------------------------
(* The file table of the token tree *)

(* TokenTree::IsFileParsed *)
IsFileParsed(f) == tree[f] \in {"parsing", "done"} /\ f \notin flagged

(* TokenTree::ReserveFileForParsing, as the status it finds and the tree   *)
(* it leaves; a file flagged for reparsing starts afresh when it is done.  *)
Found(f) == IF f \in flagged /\ tree[f] = "done" THEN "no" ELSE tree[f]
MayReserve(f, preliminary) ==
    Found(f) \in (IF preliminary THEN {"no"} ELSE {"no", "assigned"})
Reserve(f, preliminary) ==
    /\ tree' = [tree EXCEPT ![f] = IF preliminary THEN "assigned" ELSE "parsing"]
    /\ flagged' = flagged \ {f}

(* "canparse" in Parser::Parse *)
CanParse(f) == ~IsFileParsed(f) /\ MayReserve(f, TRUE)

-----------------------------------------------------------------------------
(* Calls of the client, on the GUI thread *)

TreeIsLocked == at = "locked"
Called == life = "alive" /\ calls < MaxCalls /\ calls' = calls + 1

(* "if (!m_IsParsing)": the timer that was stopped is only started again   *)
(* when no batch is under way.                                             *)
StopAndStartTimer == timer' = ~parsing

(* what a call that adds something leaves for the properties to tell       *)
Adds(fs) ==
    LET racing == at \in {"macros", "list"}
    IN  /\ raced' = (raced \/ racing)
        /\ hasty' = (hasty \/ (timer /\ parsing))
        /\ owed' = IF racing THEN owed
                   ELSE owed \cup {f \in fs : ~IsFileParsed(f) /\ f \notin unread}

LeaveUndefined(s) == state' = IF state = "ptUndefined" THEN s ELSE state

(* defs tells whether there is any definition to add *)
AddPredefinedMacros(defs) ==
    /\ Called
    /\ macros' = (macros \/ defs)
    /\ LeaveUndefined("ptCreateParser")
    /\ StopAndStartTimer /\ Adds({})
    /\ UNCHANGED <<files, parsing, ignore, needMark, current, reTimer, treeVars,
                   inbox, life, poolVars, workerVars, unread>>

(* AddFile with the AddParse it calls.  Parser::IsFileParsed looks at the  *)
(* token tree and at the list, which keeps a file until the batch is over. *)
ListFile(f) ==
    /\ files' = Append(files, f)
    /\ LeaveUndefined("ptAddFileToParser")
    /\ needMark' = (needMark \/ HasProject)
    /\ StopAndStartTimer /\ Adds({f})
    /\ UNCHANGED <<macros, parsing, ignore, current, reTimer, treeVars,
                   inbox, life, poolVars, workerVars, unread>>
AddFileTwice(f) ==    \* faulty variant: m_BatchParseFiles is not looked at
    /\ Called /\ ~TreeIsLocked /\ ~IsFileParsed(f)
    /\ ListFile(f)
AddFile(f) ==
    /\ Called /\ ~TreeIsLocked
    /\ ~IsFileParsed(f) /\ f \notin ToSet(files)
    /\ ListFile(f)

RemoveFile(f) ==
    /\ Called /\ ~TreeIsLocked
    /\ tree' = [tree EXCEPT ![f] = "no"]
    /\ flagged' = flagged \ {f}
    /\ owed' = owed \ {f}
    /\ UNCHANGED <<listVars, phaseVars, timerVars, inbox, life, poolVars,
                   workerVars, unread, raced, hasty>>

(* Done.  cbThreadPool::Done is true between two tasks as well as when     *)
(* there is none left: where no task is claimed both answers are possible. *)
MayBeDone == files = <<>> /\ ~macros /\ ~needMark /\ claimed = {}

Reparse(f) ==
    /\ Called /\ ~TreeIsLocked /\ MayBeDone
    /\ flagged' = flagged \cup {f}
    /\ reTimer' = TRUE
    /\ owed' = IF f \in unread THEN owed ELSE owed \cup {f}
    /\ UNCHANGED <<listVars, phaseVars, timer, tree, inbox, life, poolVars,
                   workerVars, unread, raced, hasty>>

-----------------------------------------------------------------------------
(* Timers and events, on the GUI thread *)

(* Faulty variant: s_CurrentParser is not looked at. *)
OnBatchTimerEager ==
    /\ life = "alive" /\ timer
    /\ timer' = FALSE
    /\ \/ /\ files = <<>> /\ ~macros
          /\ UNCHANGED <<current, poolVars>>
       \/ /\ files # <<>> \/ macros
          /\ AddTask("batch")
          /\ current' = IF current = "none" THEN "this" ELSE current
    /\ UNCHANGED <<listVars, parsing, ignore, state, needMark, reTimer, treeVars,
                   inbox, life, workerVars, historyVars>>

(* OnBatchTimer; while another parser is the current one it only starts    *)
(* the timer again.                                                        *)
OnBatchTimer ==
    /\ life = "alive" /\ timer /\ current # "other"
    /\ timer' = FALSE
    /\ \/ /\ files = <<>> /\ ~macros
          /\ UNCHANGED <<current, poolVars>>
       \/ /\ files # <<>> \/ macros
          /\ AddTask("batch")
          /\ current' = "this"
    /\ UNCHANGED <<listVars, parsing, ignore, state, needMark, reTimer, treeVars,
                   inbox, life, workerVars, historyVars>>

(* OnReparseTimer; as long as Done is false it only starts the timer again. *)
ReparseModifiedFiles ==
    /\ life = "alive" /\ reTimer /\ MayBeDone /\ ~TreeIsLocked
    /\ reTimer' = FALSE
    /\ \/ /\ flagged = {}
          /\ UNCHANGED <<files, state, timer, raced, hasty, owed>>
       \/ /\ flagged # {}
          /\ LeaveUndefined("ptReparseFile")
          /\ files' \in SetToSeqs(flagged)
          /\ StopAndStartTimer /\ Adds({})
    /\ UNCHANGED <<macros, parsing, ignore, needMark, current, treeVars, inbox,
                   life, poolVars, workerVars, calls, unread>>

(* OnAllThreadsDone: more to parse, the project's files to be marked as    *)
(* local, or the end.                                                      *)
MoreMacros == macros      \* faulty variant: files added meanwhile are forgotten
More     == files # <<>> \/ macros
MarkLeft == state \in {"ptCreateParser", "ptAddFileToParser"} /\ needMark /\ HasProject
OnAllThreadsDone ==
    /\ life = "alive" /\ inbox > 0 /\ inbox' = inbox - 1
    /\ \/ /\ ignore \/ ~parsing
          /\ UNCHANGED <<phaseVars, timer, poolVars>>
       \/ /\ ~ignore /\ parsing /\ More
          /\ timer' = TRUE
          /\ UNCHANGED <<phaseVars, poolVars>>
       \/ /\ ~ignore /\ parsing /\ ~More /\ MarkLeft
          /\ needMark' = FALSE
          /\ AddTask("mark")
          /\ UNCHANGED <<parsing, ignore, state, current, timer>>
       \/ /\ ~ignore /\ parsing /\ ~More /\ ~MarkLeft /\ ~TreeIsLocked
          /\ needMark' = (needMark /\ HasProject)
          /\ ignore' = TRUE /\ parsing' = FALSE
          /\ state' = "ptUndefined" /\ current' = "none"
          /\ UNCHANGED <<timer, poolVars>>
    /\ UNCHANGED <<listVars, reTimer, treeVars, life, workerVars, historyVars>>

(* ~Parser, up to the loop of TerminateAllThreads *)
Terminate ==
    /\ life = "alive"
    /\ life' = "ending"
    /\ Pool!Discard
    /\ owed' = {}
    /\ UNCHANGED <<added, listVars, phaseVars, timerVars, treeVars, inbox, workerVars,
                   calls, unread, raced, hasty>>

(* Faulty variant: the destructor does not wait. *)
TerminatedAtOnce ==
    /\ life = "ending"
    /\ life' = "over"
    /\ current' = IF current = "this" THEN "none" ELSE current
    /\ UNCHANGED <<listVars, parsing, ignore, state, needMark, timerVars, treeVars,
                   inbox, poolVars, workerVars, historyVars>>

(* the rest of it, once the pool says it is done *)
Terminated ==
    /\ life = "ending" /\ claimed = {}
    /\ life' = "over"
    /\ current' = IF current = "this" THEN "none" ELSE current
    /\ UNCHANGED <<listVars, parsing, ignore, state, needMark, timerVars, treeVars,
                   inbox, poolVars, workerVars, historyVars>>

(* ~cbThreadPool, run when the members of Parser are destroyed; what the   *)
(* worker does with the parser afterwards is undefined and not followed.   *)
ClosePool ==
    /\ life = "over" /\ Pool!Close
    /\ UNCHANGED <<added, listVars, phaseVars, timerVars, treeVars, inbox, life,
                   workerVars, historyVars>>

(* Another parser becomes the current one, and ends.                       *)
OtherStarts ==
    /\ calls < MaxCalls /\ calls' = calls + 1
    /\ current = "none" /\ current' = "other"
    /\ UNCHANGED <<listVars, parsing, ignore, state, needMark, timerVars, treeVars,
                   inbox, life, poolVars, workerVars, unread, owed, raced, hasty>>

OtherEnds ==
    /\ current = "other" /\ current' = "none"
    /\ UNCHANGED <<listVars, parsing, ignore, state, needMark, timerVars, treeVars,
                   inbox, life, poolVars, workerVars, historyVars>>

-----------------------------------------------------------------------------
(* The worker *)

Go(p) == at' = p
guiVars == <<phaseVars, timerVars, life, inbox>>

Start ==
    /\ Pool!Claim
    /\ Go(CASE Head(pending).kind = "batch" -> "copy"
            [] Head(pending).kind = "parse" -> "parse"
            [] Head(pending).kind = "mark"  -> "end")
    /\ UNCHANGED <<added, guiVars, listVars, treeVars, todo, opened, historyVars>>

(* ParserThreadedTask::Execute: the lists are copied under the mutex, *)
CopyBatch ==
    /\ open /\ at = "copy"
    /\ todo' = files
    /\ Go("macros")
    /\ UNCHANGED <<guiVars, listVars, treeVars, poolVars, opened, historyVars>>

(* the macros are parsed and ClearPredefinedMacros called, *)
ClearPredefinedMacros ==
    /\ open /\ at = "macros"
    /\ macros' = FALSE
    /\ Go("list")
    /\ UNCHANGED <<guiVars, files, treeVars, poolVars, todo, opened, historyVars>>

(* Parse adds a task for each file that nobody has parsed or reserved, *)
ParseNext ==
    /\ open /\ at = "list" /\ todo # <<>>
    /\ todo' = Tail(todo)
    /\ \/ /\ CanParse(Head(todo))
          /\ Reserve(Head(todo), TRUE)
          /\ AddParserThread(Head(todo))
       \/ /\ ~CanParse(Head(todo))
          /\ UNCHANGED <<treeVars, poolVars>>
    /\ UNCHANGED <<guiVars, listVars, at, opened, historyVars>>

(* Faulty variant: m_IgnoreThreadEvents is tested after it was reset. *)
ClearBatchSwapped ==
    /\ open /\ at = "list" /\ todo = <<>>
    /\ files' = <<>>
    /\ ignore' = FALSE
    /\ parsing' = parsing
    /\ Go("end")
    /\ UNCHANGED <<state, needMark, current, timerVars, life, inbox, macros,
                   treeVars, poolVars, todo, opened, historyVars>>

(* and at last the list is cleared and the pool's events are heard.        *)
ClearBatch ==
    /\ open /\ at = "list" /\ todo = <<>>
    /\ files' = <<>>
    /\ ignore' = FALSE
    /\ parsing' = (parsing \/ ignore)
    /\ Go("end")
    /\ UNCHANGED <<state, needMark, current, timerVars, life, inbox, macros,
                   treeVars, poolVars, todo, opened, historyVars>>

(* ParserThread::Execute and Parse, up to DoParse *)
Unreadable(f) == unread' = unread \cup {f} /\ owed' = owed \ {f}
OpenFile ==
    /\ open /\ at = "parse"
    /\ \E t \in claimed :
          \/ Unreadable(t.file) /\ Go("end") /\ UNCHANGED <<treeVars, opened>>
          \/ /\ MayReserve(t.file, FALSE)
             /\ Reserve(t.file, FALSE)
             /\ opened' = <<t.file>>
             /\ Go("locked") /\ UNCHANGED <<unread, owed>>
          \/ /\ ~MayReserve(t.file, FALSE)
             /\ Go("end") /\ UNCHANGED <<treeVars, opened, unread, owed>>
    /\ UNCHANGED <<guiVars, listVars, poolVars, todo, calls, raced, hasty>>

(* Parse with "locked", for an include directive: it reserves the file and *)
(* lets go of the tree for a moment *)
Include(f) ==
    /\ open /\ at = "locked" /\ f \in Includes[Last(opened)]
    /\ CanParse(f)
    /\ Reserve(f, TRUE)
    /\ opened' = Append(opened, f)
    /\ Go("gap")
    /\ UNCHANGED <<guiVars, listVars, poolVars, todo, historyVars>>

(* before it parses the file there and then; nobody but the worker itself  *)
(* could have parsed the file in between.                                  *)
OpenIncluded ==
    /\ open /\ at = "gap"
    /\ Go("locked")
    /\ LET f == Last(opened)
       IN  \/ /\ Unreadable(f)
              /\ opened' = Front(opened) /\ UNCHANGED treeVars
           \/ /\ MayReserve(f, FALSE) /\ Reserve(f, FALSE)
              /\ UNCHANGED <<opened, unread, owed>>
    /\ UNCHANGED <<guiVars, listVars, poolVars, todo, calls, raced, hasty>>

(* Faulty variant: no FlagFileAsParsed. *)
CloseFileUnflagged ==
    /\ open /\ at = "locked"
    /\ owed' = owed \ {Last(opened)}
    /\ opened' = Front(opened)
    /\ Go(IF Len(opened) = 1 THEN "end" ELSE "locked")
    /\ UNCHANGED <<guiVars, listVars, treeVars, poolVars, todo, calls, unread, raced,
                   hasty>>

(* the end of ParserThread::Parse *)
CloseFile ==
    /\ open /\ at = "locked"
    /\ tree' = [tree EXCEPT ![Last(opened)] = "done"]
    /\ owed' = owed \ {Last(opened)}
    /\ opened' = Front(opened)
    /\ Go(IF Len(opened) = 1 THEN "end" ELSE "locked")
    /\ UNCHANGED <<guiVars, listVars, flagged, poolVars, todo, calls, unread, raced,
                   hasty>>

EndTask ==
    /\ open /\ at = "end"
    /\ \E t \in claimed : Pool!Complete(t)
    /\ Go("idle")
    /\ UNCHANGED <<added, guiVars, listVars, treeVars, todo, opened, historyVars>>

(* cbEVT_THREADTASK_ALLDONE is posted.                                     *)
Announce ==
    /\ Pool!Announce
    /\ inbox' = inbox + 1
    /\ UNCHANGED <<added, phaseVars, timerVars, life, listVars, treeVars, workerVars,
                   historyVars>>

Worker ==
    \/ Start \/ CopyBatch \/ ClearPredefinedMacros \/ ParseNext \/ ClearBatch
    \/ OpenFile \/ OpenIncluded \/ CloseFile \/ EndTask \/ Announce
    \/ \E f \in File : Include(f)

Client ==
    \/ \E defs \in BOOLEAN : AddPredefinedMacros(defs)
    \/ \E f \in File : AddFile(f) \/ RemoveFile(f) \/ Reparse(f)
    \/ Terminate
    \/ OtherStarts

Next ==
    \/ Client \/ Worker
    \/ OnBatchTimer \/ ReparseModifiedFiles \/ OnAllThreadsDone
    \/ Terminated \/ ClosePool \/ OtherEnds

Spec == Init /\ [][Next]_vars

(* The worker is scheduled, timers fire, posted events are handled, the    *)
(* destructor polls the pool, and another parser that is current ends.     *)
FairSpec ==
    /\ Spec
    /\ WF_vars(Worker) /\ WF_vars(OtherEnds)
    /\ WF_vars(OnBatchTimer) /\ WF_vars(ReparseModifiedFiles)
    /\ WF_vars(OnAllThreadsDone) /\ WF_vars(Terminated)

-----------------------------------------------------------------------------
(* Properties *)

(* Parsers take turns: one that has tasks in its pool is the current one.  *)
OnlyOwnerParses ==
    life = "alive" /\ ~raced => (Tasks # {} => current = "this")

(* A file that is reserved is going to be parsed: it has a task, or the    *)
(* worker has it open.  Otherwise nobody would ever parse it, because      *)
(* everybody would think that somebody else does.                          *)
ReservedHasTask ==
    life = "alive" => \A f \in File :
        tree[f] \in {"assigned", "parsing"} =>
            \/ \E t \in Tasks : t.kind = "parse" /\ t.file = f
            \/ f \in ToSet(opened)
            \/ f \in unread

(* The destructor does not leave a batch or mark task behind, which would  *)
(* use m_BatchParseFiles and m_PredefinedMacros, or the project's files,   *)
(* after the parser is gone.  A parse task may be left: what it still does *)
(* through Parser::Parse and the pool is not followed (see README).        *)
NoListUserLeft ==
    life = "over" => \A t \in Tasks : t.kind = "parse"

(* A file added while one is parsed again leaves m_NeedMarkFileAsLocal set, *)
(* and nothing but another addition will ever clear it: Done stays false.  *)
MarkForgotten ==
    needMark /\ HasProject /\ state \in {"ptReparseFile", "ptUndefined"}

(* The current parser lets the others have their turn.                     *)
Released == current = "this" ~> current # "this" \/ hasty

(* What was accepted for parsing is parsed.                                *)
EverythingParsed ==
    \A f \in File : f \in owed ~> f \notin owed \/ hasty \/ MarkForgotten
===============================================================================

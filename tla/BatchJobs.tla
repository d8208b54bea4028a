------------------------------ MODULE BatchJobs ------------------------------
(***************************************************************************)
(* Batch jobs of the agent (agent/app.py, agent/batch_state.py and the     *)
(* splitting of agent/batch_processing.py).  A job transforms an input     *)
(* file chunk by chunk or analyses it.  One daemon thread works on a job;  *)
(* calls of the user change the status the thread polls; every finished    *)
(* chunk is kept in a checkpoint file from which a later start resumes.    *)
(* The store of the jobs is read, changed and written under BATCH_LOCK, so *)
(* each region under that lock is one step.                                *)
(***************************************************************************)
EXTENDS Integers, Sequences, FiniteSets

CONSTANTS
    Jobs,       \* the jobs that may be created
    KindsOf,    \* [Jobs -> SUBSET Kinds]: what the route may make of a job
    ModesOf,    \* [Jobs -> SUBSET Modes]: execution modes it may be created with
    Files,      \* the input files
    FileOf,     \* [Jobs -> Files]; the output's path is derived from it
    Versions,   \* the contents a file may have, positive numbers
    Original,   \* the version the files begin with
    Units,      \* [Versions -> Seq(Nat)]: tokens of the statements (without a blank
                \* tail), lines, paragraphs or JSON items
    Uncut,      \* versions whose units are never cut: JSON, and an unknown type,
                \* which is one unit
    Limit,      \* tokens of a chunk
    MaxItems,   \* targets of a free-text batch
    Threads,    \* threads of the agent
    MaxChunks,  \* bound: chunks of a file
    MaxCalls,   \* [Jobs -> Nat], bound: calls of the user to a job
    MaxMishaps, \* bound: edits of an input file and faults (restarts, failed
                \* thread starts, failed writes)
    None,       \* no job, no thread, no file
    Gone        \* a job that was cleaned up

Kinds == {"chunks", "freetext", "analysis"}
Transforms == {"chunks", "freetext"}
Modes == {"automatic", "controlled"}
Statuses == {"queued", "running", "paused", "interrupted",
             "completed", "failed", "cancelled"}

JobRecords == [kind : Kinds, status : Statuses, mode : Modes,
               plan : Versions \cup {0}]

Places == {"begin", "prepare", "poll", "work", "progress", "assemble",
           "write", "replace", "unlink", "drop", "complete", "fail", "close"}

\* What the model makes of positions of a version
Texts == Versions \X Nat \X Nat

\* A file at the output's path or beside it, and the threads that have it open
Outputs == [by : Jobs, text : Seq(Texts), stale : BOOLEAN, open : SUBSET Threads]

Workers == [pc : Places, job : Jobs, analysis : BOOLEAN,
            prev : Versions \cup {0}, plan : Versions \cup {0},
            idx : 1..(MaxChunks + 1), text : Seq(Texts), stale : BOOLEAN]

ASSUME BatchAssumption ==
    /\ KindsOf \in [Jobs -> SUBSET Kinds]
    /\ ModesOf \in [Jobs -> SUBSET Modes]
    /\ FileOf \in [Jobs -> Files]
    /\ Versions \subseteq Nat \ {0}
    /\ Original \in Versions
    /\ Units \in [Versions -> Seq(Nat)] /\ Uncut \subseteq Versions
    /\ Limit \in Nat \ {0} /\ MaxItems \in Nat \ {0} /\ MaxChunks \in Nat
    /\ MaxCalls \in [Jobs -> Nat] /\ MaxMishaps \in Nat
    /\ None \notin Threads \cup Texts \cup Statuses \cup JobRecords \cup Outputs
    /\ Gone \notin JobRecords
    /\ None # Gone

VARIABLES
    job,        \* jobs.json: [Jobs -> None, Gone or the fields of the job]
    cp,         \* numbered checkpoints: [Jobs -> [1..MaxChunks -> piece or None]]
    ft,         \* free-text checkpoints: [Jobs -> set of <<plan, batch>>]
    input,      \* [Files -> Versions]
    tmp,        \* [Files -> None or an output], <output>.tmp
    out,        \* [Files -> None or an output]
    reg,        \* BATCH_WORKERS: [Jobs -> Threads or None]
    w,          \* [Threads -> the worker's place and its local variables]
    clash,      \* history: [Files -> BOOLEAN], two workers were at once between
                \* opening and replacing the temporary file
    allowed,    \* history: the user has let a controlled job go on
    calls,      \* [Jobs -> number of calls so far]
    edits,      \* number of edits so far
    faults      \* number of faults so far

vars == <<job, cp, ft, input, tmp, out, reg, w, clash, allowed, calls, edits, faults>>
files == <<cp, ft, input, tmp, out, clash, edits>>

-----------------------------------------------------------------------------
(* Splitting.  A text is the positions 1..Size of its tokens; a chunk is   *)
(* an interval of them, a piece of output the version and the interval.    *)

Size ==
    [v \in Versions |->
        LET upto[i \in 0..Len(Units[v])] ==
                IF i = 0 THEN 0 ELSE upto[i - 1] + Units[v][i]
        IN  upto[Len(Units[v])]]

\* split_chunk_hard of a unit without line breaks
HardParts(lo, hi) ==
    [i \in 1..((hi - lo) \div Limit + 1) |->
        <<lo + (i - 1) * Limit,
          IF i = (hi - lo) \div Limit + 1 THEN hi ELSE lo + i * Limit - 1>>]

\* A unit above the limit; JSON that is cut would not be JSON any more
Oversized(cuts, lo, hi) == IF cuts THEN HardParts(lo, hi) ELSE <<<<lo, hi>>>>

\* The chunk being filled, if there is one
Current(s) == IF s.pos < s.lo THEN <<>> ELSE <<<<s.lo, s.pos>>>>

\* One turn of the loop of pack_units, or of the loops over JSON items (the
\* static fields of an object belong to its first item)
AddUnit(s, n, cuts) ==
    LET end == s.pos + n
    IN  IF n > Limit
        THEN [done |-> s.done \o Current(s) \o Oversized(cuts, s.pos + 1, end),
              lo |-> end + 1, pos |-> end, items |-> 0]
        ELSE IF Current(s) # <<>> /\ end - s.lo + 1 > Limit
        THEN [done |-> s.done \o Current(s),
              lo |-> s.pos + 1, pos |-> end, items |-> 1]
        ELSE [s EXCEPT !.pos = end, !.items = @ + 1]

\* One turn of the loop of build_json_freetext_batches
AddTarget(s, n) ==
    LET end == s.pos + n
    IN  IF Current(s) # <<>> /\ (s.items >= MaxItems \/ end - s.lo + 1 > Limit)
        THEN [done |-> s.done \o Current(s),
              lo |-> s.pos + 1, pos |-> end, items |-> 1]
        ELSE [s EXCEPT !.pos = end, !.items = @ + 1]

Nothing == [done |-> <<>>, lo |-> 1, pos |-> 0, items |-> 0]

\* split_batch_content and build_json_freetext_batches, for every kind and version
Splits ==
    [kind \in Kinds |-> [v \in Versions |->
        LET turn[i \in 0..Len(Units[v])] ==
                IF i = 0 THEN Nothing
                ELSE IF kind = "freetext" THEN AddTarget(turn[i - 1], Units[v][i])
                ELSE AddUnit(turn[i - 1], Units[v][i], v \notin Uncut)
            last == turn[Len(Units[v])]
        IN  last.done \o Current(last)]]

ASSUME SplitsFit ==
    \A kind \in Kinds, v \in Versions : Len(Splits[kind][v]) <= MaxChunks

\* What the model makes of a chunk
Piece(kind, v, i) == <<v, Splits[kind][v][i][1], Splits[kind][v][i][2]>>

\* A text is all of one version, in order: its pieces adjoin and reach the end
Whole(text) ==
    \E v \in Versions :
        /\ \A i \in 1..Len(text) :
            /\ text[i][1] = v
            /\ text[i][2] = IF i = 1 THEN 1 ELSE text[i - 1][3] + 1
            /\ text[i][2] <= text[i][3]
        /\ Size[v] = IF text = <<>> THEN 0 ELSE text[Len(text)][3]
-----------------------------------------------------------------------------
(* A job and the thread on it *)

Exists(j) == job[j] \notin {None, Gone}

Status(j) == IF Exists(j) THEN job[j].status ELSE None

Idle == [pc |-> "idle"]

Busy(t) == w[t] # Idle

AliveWhileRunning(j) == Status(j) = "running" /\ reg[j] # None
\* batch_worker_is_alive: the registered thread still works on the job
Alive(j) == reg[j] # None /\ Busy(reg[j]) /\ w[reg[j]].job = j

\* A checkpoint of another plan lies where the saved plan has a chunk
Stale(j) ==
    /\ job[j].kind = "chunks" /\ job[j].plan # 0
    /\ \E i \in 1..Len(Splits["chunks"][job[j].plan]) :
        cp[j][i] # None /\ cp[j][i][1] # job[j].plan

AllButLast(j) ==
    IF \E k \in 1..MaxChunks : cp[j][k] # None
    THEN Cardinality({k \in 1..MaxChunks : cp[j][k] # None}) - 1 ELSE 0
\* completed_batch_checkpoints, as far as they are contiguous
Contiguous(j) ==
    CHOOSE k \in 0..MaxChunks :
        /\ \A i \in 1..k : cp[j][i] # None
        /\ k < MaxChunks => cp[j][k + 1] = None

At(t, pc) == Busy(t) /\ w[t].pc = pc

Kind(t) == job[w[t].job].kind

\* The worker goes on at pc, its job being left alone
GoTo(t, pc) == w' = [w EXCEPT ![t].pc = pc]

\* The locked region of a worker that gives its job a status
Set(j, status) == job' = [job EXCEPT ![j].status = status]

\* The turn of the loop for chunk i, or what follows the loop
Turn(kind, v, i) == IF i <= Len(Splits[kind][v]) THEN "poll" ELSE "assemble"

-----------------------------------------------------------------------------
(* Calls of the user *)

Called(j) ==
    /\ calls[j] < MaxCalls[j]
    /\ calls' = [calls EXCEPT ![j] = @ + 1]

New(kind, mode) == [kind |-> kind, status |-> "queued", mode |-> mode, plan |-> 0]

\* create_batch_job, also what route_chat_file does with a large file
Create(j) ==
    /\ job[j] = None
    /\ \E kind \in KindsOf[j] \cap Transforms, mode \in ModesOf[j] :
        job' = [job EXCEPT ![j] = New(kind, mode)]
    /\ UNCHANGED <<files, reg, w, allowed, calls, faults>>

\* A registered thread that has not done anything yet
Worker(j, analysis) ==
    [pc |-> "begin", job |-> j, analysis |-> analysis, prev |-> 0, plan |-> 0,
     idx |-> 1, text |-> <<>>, stale |-> FALSE]

\* thread.start succeeds
Spawned(j, analysis) ==
    /\ \E t \in Threads : ~Busy(t)
    /\ LET t == CHOOSE t \in Threads : ~Busy(t)
       IN  /\ w' = [w EXCEPT ![t] = Worker(j, analysis)]
           /\ reg' = [reg EXCEPT ![j] = t]
    /\ UNCHANGED faults

\* thread.start fails
NotSpawned(j) ==
    /\ edits + faults < MaxMishaps /\ faults' = faults + 1
    /\ reg' = [reg EXCEPT ![j] = None]
    /\ UNCHANGED w

\* route_chat_file of a question or of a small file: the job is created and
\* started.  A call in between is like one before the thread's begin, but for
\* a cancel with a cleanup: then a thread is registered for a job that is gone,
\* and it returns at once.
Route(j) ==
    /\ job[j] = None
    /\ \E kind \in KindsOf[j] :
        LET new == New(kind, "automatic")
        IN  \/ Spawned(j, kind = "analysis") /\ job' = [job EXCEPT ![j] = new]
            \/ /\ NotSpawned(j)
               /\ job' = [job EXCEPT ![j] = [new EXCEPT !.status = "failed"]]
    /\ allowed' = [allowed EXCEPT ![j] = TRUE]
    /\ UNCHANGED <<files, calls>>

\* start_batch_job: whatever the kind and the status, unless a thread is alive
Start(j) ==
    /\ Exists(j) /\ ~Alive(j) /\ Called(j)
    /\ \/ /\ Spawned(j, FALSE)
          /\ IF Status(j) = "running" THEN Set(j, "interrupted")
             ELSE UNCHANGED job
       \/ NotSpawned(j) /\ Set(j, "failed")
    /\ allowed' = [allowed EXCEPT ![j] = TRUE]
    /\ UNCHANGED files

\* pause_batch_job
Pause(j) ==
    /\ Status(j) = "running" /\ Called(j)
    /\ Set(j, "paused")
    /\ UNCHANGED <<files, reg, w, allowed, faults>>

\* resume_batch_job
Resume(j) ==
    /\ Status(j) = "paused" /\ Called(j)
    /\ Set(j, "running")
    /\ allowed' = [allowed EXCEPT ![j] = TRUE]
    /\ UNCHANGED <<files, reg, w, faults>>

\* automatic_batch_job
Automatic(j) ==
    /\ Status(j) \in {"queued", "paused", "running"} /\ Called(j)
    /\ job' = [job EXCEPT
        ![j].mode = "automatic",
        ![j].status = IF @ = "paused" THEN "running" ELSE @]
    /\ UNCHANGED <<files, reg, w, allowed, faults>>

\* cancel_batch_job
Cancel(j) ==
    /\ Status(j) \in {"queued", "running", "paused"} /\ Called(j)
    /\ Set(j, "cancelled")
    /\ UNCHANGED <<files, reg, w, allowed, faults>>

\* history_statuses
Scopes == {{"completed"}, {"failed"},
           {"completed", "failed", "cancelled", "interrupted"}}

\* cleanup_batch_history
Removable(j, scope) == Status(j) \in scope /\ reg[j] = None

Cleanup ==
    /\ \E scope \in Scopes :
        /\ \E j \in Jobs : Removable(j, scope)
        /\ job' = [j \in Jobs |-> IF Removable(j, scope) THEN Gone ELSE job[j]]
    /\ UNCHANGED <<files, reg, w, allowed, calls, faults>>

\* The input file changes between or during two runs
Edit(f) ==
    /\ edits + faults < MaxMishaps /\ edits' = edits + 1
    /\ \E v \in Versions \ {input[f]} : input' = [input EXCEPT ![f] = v]
    /\ UNCHANGED <<job, cp, ft, tmp, out, reg, w, clash, allowed, calls, faults>>

-----------------------------------------------------------------------------
(* The worker: run_batch_transform_job, run_file_analysis_job *)

\* The first locked region; its copy of the job is used to the end
Begin(t) ==
    /\ At(t, "begin")
    /\ LET j == w[t].job
       IN  /\ Set(j, "running")
           /\ w' = [w EXCEPT ![t].pc = "prepare",
                             ![t].prev = job[j].plan,
                             ![t].stale = Stale(j)]
    /\ UNCHANGED <<files, reg, allowed, calls, faults>>

\* That region's save fails.  A transform has not reached its try: the thread
\* dies registered and the status stays.  An analysis has, and fails.
BeginUnsaved(t) ==
    /\ At(t, "begin")
    /\ edits + faults < MaxMishaps /\ faults' = faults + 1
    /\ IF w[t].analysis THEN GoTo(t, "fail") ELSE w' = [w EXCEPT ![t] = Idle]
    /\ UNCHANGED <<job, files, reg, allowed, calls>>

AnyPlan(t, plan) == Contiguous(w[t].job)
OneMore(t, plan) == IF w[t].prev = plan THEN Contiguous(w[t].job) + 1 ELSE 1
\* Chunks whose checkpoints the run takes over
Reusable(t, plan) == IF w[t].prev = plan THEN Contiguous(w[t].job) ELSE 0

\* Where a worker begins that has read version v: at the first chunk that has
\* to be transformed, or at the answer about an excerpt or the file's structure
Entries(t, v) ==
    LET i == IF Kind(t) = "chunks" THEN Reusable(t, v) + 1 ELSE 1
    IN  {[w[t] EXCEPT !.pc = Turn(Kind(t), v, i), !.plan = v, !.idx = i]} \cup
        IF Kind(t) = "analysis" THEN {[w[t] EXCEPT !.pc = "assemble", !.plan = v]} ELSE {}

\* The input is read and split; a chunked transform saves its plan in the job
\* and takes over the checkpoints of the same plan.  An analysis has no
\* output_path, which is a KeyError in a transform.
Prepare(t) ==
    /\ At(t, "prepare")
    /\ w[t].analysis \/ Kind(t) \in Transforms
    /\ LET v == input[FileOf[w[t].job]]
       IN  /\ \E entry \in Entries(t, v) : w' = [w EXCEPT ![t] = entry]
           /\ IF Kind(t) = "chunks"
              THEN job' = [job EXCEPT ![w[t].job].plan = v]
              ELSE UNCHANGED job
    /\ UNCHANGED <<files, reg, allowed, calls, faults>>

\* The free-text batch has a checkpoint of this plan.  A checkpoint has the plan
\* in its name and is written with one text per target, whole or not at all;
\* the rerun of an invalid one is for files damaged from outside.
Done(t) == Kind(t) = "freetext" /\ <<w[t].plan, w[t].idx>> \in ft[w[t].job]

\* The text of the worker with the chunk in turn, which goes on to the next
Onward(t) ==
    [w[t] EXCEPT !.idx = @ + 1, !.pc = Turn(Kind(t), w[t].plan, w[t].idx + 1)]

\* A free-text batch is taken from its checkpoint, the status is not looked at
Reuse(t) ==
    /\ At(t, "poll") /\ Done(t)
    /\ w' = [w EXCEPT ![t] =
        [Onward(t) EXCEPT !.text = Append(@, Piece("freetext", w[t].plan, w[t].idx))]]
    /\ UNCHANGED <<job, files, reg, allowed, calls, faults>>

PollRunning(t) ==
    /\ At(t, "poll") /\ ~Done(t)
    /\ Status(w[t].job) = "running"
    /\ GoTo(t, "work")
    /\ UNCHANGED <<job, files, reg, allowed, calls, faults>>
\* The status is polled before a chunk: paused jobs wait
Poll(t) ==
    /\ At(t, "poll") /\ ~Done(t)
    /\ Status(w[t].job) # "paused"
    /\ GoTo(t, IF Status(w[t].job) = "cancelled" THEN "close" ELSE "work")
    /\ UNCHANGED <<job, files, reg, allowed, calls, faults>>

\* The chunk is transformed, by rules or by the model, and its checkpoint written
Work(t) ==
    /\ At(t, "work")
    /\ LET j == w[t].job
           i == w[t].idx
           piece == Piece(Kind(t), w[t].plan, i)
       IN  /\ IF Kind(t) = "freetext"
              THEN /\ ft' = [ft EXCEPT ![j] = @ \cup {<<w[t].plan, i>>}]
                   /\ UNCHANGED cp
              ELSE /\ cp' = [cp EXCEPT ![j][i] = piece]
                   /\ UNCHANGED ft
           /\ w' = [w EXCEPT ![t].pc = "progress",
                ![t].text = IF Kind(t) = "chunks" THEN <<>> ELSE Append(@, piece)]
           /\ allowed' = [allowed EXCEPT ![j] = FALSE]
    /\ UNCHANGED <<job, input, tmp, out, reg, clash, calls, edits, faults>>

WaitsOnce(t) ==
    /\ Kind(t) = "chunks" /\ job[w[t].job].mode = "controlled"
    /\ w[t].idx + 1 < Len(Splits["chunks"][w[t].plan])
\* A controlled job waits for the user after each chunk but the last
Waits(t) ==
    /\ Kind(t) = "chunks" /\ job[w[t].job].mode = "controlled"
    /\ w[t].idx < Len(Splits["chunks"][w[t].plan])

Progress(t) ==
    /\ At(t, "progress")
    /\ IF Waits(t) THEN Set(w[t].job, "paused") ELSE UNCHANGED job
    /\ w' = [w EXCEPT ![t] = Onward(t)]
    /\ UNCHANGED <<files, reg, allowed, calls, faults>>

\* The output of the worker: for chunks, what the checkpoints 1..n hold
Assembled(t) ==
    IF Kind(t) = "chunks"
    THEN [i \in 1..Len(Splits["chunks"][w[t].plan]) |-> cp[w[t].job][i]]
    ELSE w[t].text

\* The threads that have this file open
Writers(o) == IF o = None THEN {} ELSE o.open
Closed(o, ts) == IF o = None THEN None ELSE [o EXCEPT !.open = @ \ ts]

\* A worker on file f is between opening and replacing the temporary file
Writing(u, f) ==
    Busy(u) /\ FileOf[w[u].job] = f /\ w[u].pc \in {"write", "replace"}

\* The output is put together and the temporary file beside it opened, which
\* truncates it, even if another worker on the file has just written it
Assemble(t) ==
    /\ At(t, "assemble") /\ ~w[t].analysis
    /\ LET f == FileOf[w[t].job]
       IN  /\ tmp' = [tmp EXCEPT ![f] =
                [by |-> w[t].job, text |-> <<>>, stale |-> w[t].stale,
                 open |-> Writers(@) \cup {t}]]
           /\ clash' = [clash EXCEPT ![f] =
                @ \/ \E u \in Threads \ {t} : Writing(u, f)]
    /\ w' = [w EXCEPT ![t].pc = "write", ![t].text = Assembled(t)]
    /\ UNCHANGED <<job, cp, ft, input, out, reg, allowed, calls, edits, faults>>

\* The text is written from the start of the file; what a longer text of
\* another worker has at its end stays there
Written(t, o) ==
    {[by |-> w[t].job, text |-> text, stale |-> w[t].stale, open |-> o.open \ {t}] :
        text \in {w[t].text} \cup
                 IF o.text = <<>> THEN {} ELSE {Append(w[t].text, o.text[Len(o.text)])}}

\* It goes to the file the worker has open, wherever another worker's replace
\* or unlink has put that file: still beside the output, the output, or nowhere
Write(t) ==
    /\ At(t, "write")
    /\ LET f == FileOf[w[t].job]
       IN  \/ /\ t \in Writers(tmp[f])
              /\ \E o \in Written(t, tmp[f]) : tmp' = [tmp EXCEPT ![f] = o]
              /\ UNCHANGED out
           \/ /\ t \in Writers(out[f])
              /\ \E o \in Written(t, out[f]) : out' = [out EXCEPT ![f] = o]
              /\ UNCHANGED tmp
           \/ /\ t \notin Writers(tmp[f]) \cup Writers(out[f])
              /\ UNCHANGED <<tmp, out>>
    /\ GoTo(t, "replace")
    /\ UNCHANGED <<job, cp, ft, input, reg, clash, allowed, calls, edits, faults>>

\* The open, the write or the replace fails
WriteFails(t) ==
    /\ \/ At(t, "assemble") /\ ~w[t].analysis
       \/ At(t, "write")
       \/ At(t, "replace")
    /\ edits + faults < MaxMishaps /\ faults' = faults + 1
    /\ tmp' = [f \in Files |-> Closed(tmp[f], {t})]
    /\ out' = [f \in Files |-> Closed(out[f], {t})]
    /\ GoTo(t, "drop")
    /\ UNCHANGED <<job, cp, ft, input, reg, clash, allowed, calls, edits>>

\* The final answer of an analysis
Answer(t) ==
    /\ At(t, "assemble") /\ w[t].analysis
    /\ GoTo(t, "complete")
    /\ UNCHANGED <<job, files, reg, allowed, calls, faults>>

\* temporary_path.replace, which fails when another worker has taken the file
Replace(t) ==
    /\ At(t, "replace")
    /\ LET f == FileOf[w[t].job]
       IN  \/ /\ tmp[f] # None
              /\ out' = [out EXCEPT ![f] = tmp[f]]
              /\ tmp' = [tmp EXCEPT ![f] = None]
              /\ GoTo(t, "unlink")
           \/ /\ tmp[f] = None
              /\ GoTo(t, "drop")
              /\ UNCHANGED <<tmp, out>>
    /\ UNCHANGED <<job, cp, ft, input, reg, clash, allowed, calls, edits, faults>>

\* The temporary file is removed, whoever wrote it, after a replace that worked or not
Unlink(t) ==
    /\ \/ At(t, "unlink") /\ GoTo(t, "complete")
       \/ At(t, "drop") /\ GoTo(t, "fail")
    /\ tmp' = [tmp EXCEPT ![FileOf[w[t].job]] = None]
    /\ UNCHANGED <<job, cp, ft, input, out, reg, clash, allowed, calls, edits, faults>>

HeedsNothing(t) == FALSE
\* Only the chunked transform looks for a cancel before it completes the job
HeedsCancel(t) == Kind(t) = "chunks" /\ Status(w[t].job) = "cancelled"

Complete(t) ==
    /\ At(t, "complete")
    /\ IF HeedsCancel(t) THEN UNCHANGED job ELSE Set(w[t].job, "completed")
    /\ GoTo(t, "close")
    /\ UNCHANGED <<files, reg, allowed, calls, faults>>

\* An exception: unreadable input, no model, a refused call, invalid JSON, or
\* a job that cannot be saved
Raise(t) ==
    /\ Busy(t)
    /\ \/ w[t].pc \in {"prepare", "work", "assemble"} /\ UNCHANGED faults
       \/ /\ w[t].pc \in {"progress", "complete"}
          /\ edits + faults < MaxMishaps /\ faults' = faults + 1
    /\ GoTo(t, "fail")
    /\ UNCHANGED <<job, files, reg, allowed, calls>>

\* except: only the transforms keep a cancel; the write itself may fail
Fail(t) ==
    /\ At(t, "fail")
    /\ \/ /\ IF ~w[t].analysis /\ Status(w[t].job) = "cancelled"
             THEN UNCHANGED job ELSE Set(w[t].job, "failed")
          /\ UNCHANGED faults
       \/ edits + faults < MaxMishaps /\ faults' = faults + 1 /\ UNCHANGED job
    /\ GoTo(t, "close")
    /\ UNCHANGED <<files, reg, allowed, calls>>

\* finally: the thread ends unregistered, or registered if its last write fails
Close(t) ==
    /\ At(t, "close")
    /\ \/ reg' = [reg EXCEPT ![w[t].job] = None] /\ UNCHANGED faults
       \/ edits + faults < MaxMishaps /\ faults' = faults + 1 /\ UNCHANGED reg
    /\ w' = [w EXCEPT ![t] = Idle]
    /\ UNCHANGED <<job, files, allowed, calls>>

\* The agent dies and is started again: threads and registry are gone, a
\* temporary file stays as it is
Restart ==
    /\ edits + faults < MaxMishaps /\ faults' = faults + 1
    /\ \E t \in Threads : Busy(t)
    /\ w' = [t \in Threads |-> Idle]
    /\ reg' = [j \in Jobs |-> None]
    /\ tmp' = [f \in Files |-> Closed(tmp[f], Threads)]
    /\ out' = [f \in Files |-> Closed(out[f], Threads)]
    /\ UNCHANGED <<job, cp, ft, input, clash, allowed, calls, edits>>

-----------------------------------------------------------------------------
Init ==
    /\ job = [j \in Jobs |-> None]
    /\ cp = [j \in Jobs |-> [i \in 1..MaxChunks |-> None]]
    /\ ft = [j \in Jobs |-> {}]
    /\ input = [f \in Files |-> Original]
    /\ tmp = [f \in Files |-> None]
    /\ out = [f \in Files |-> None]
    /\ reg = [j \in Jobs |-> None]
    /\ w = [t \in Threads |-> Idle]
    /\ clash = [f \in Files |-> FALSE]
    /\ allowed = [j \in Jobs |-> FALSE]
    /\ calls = [j \in Jobs |-> 0]
    /\ edits = 0
    /\ faults = 0

Call(j) ==
    \/ Create(j) \/ Route(j) \/ Start(j) \/ Pause(j)
    \/ Resume(j) \/ Automatic(j) \/ Cancel(j)

Step(t) ==
    \/ Begin(t) \/ BeginUnsaved(t) \/ Prepare(t) \/ Reuse(t) \/ Poll(t)
    \/ Work(t) \/ Progress(t) \/ Assemble(t) \/ Answer(t) \/ Write(t)
    \/ WriteFails(t) \/ Replace(t) \/ Unlink(t) \/ Complete(t) \/ Raise(t) \/ Fail(t) \/ Close(t)

Next ==
    \/ \E j \in Jobs : Call(j)
    \/ \E t \in Threads : Step(t)
    \/ \E f \in Files : Edit(f)
    \/ Cleanup
    \/ Restart

\* A thread that can go on does so; the user need not call
Spec == Init /\ [][Next]_vars /\ \A t \in Threads : WF_vars(Step(t))

-----------------------------------------------------------------------------
(* Properties *)

\* Types of the store, the files, the registry and the workers.
TypeOK ==
    /\ job \in [Jobs -> {None, Gone} \cup JobRecords]
    /\ cp \in [Jobs -> [1..MaxChunks -> Texts \cup {None}]]
    /\ ft \in [Jobs -> SUBSET (Versions \X (1..MaxChunks))]
    /\ input \in [Files -> Versions]
    /\ tmp \in [Files -> Outputs \cup {None}]
    /\ out \in [Files -> Outputs \cup {None}]
    /\ reg \in [Jobs -> Threads \cup {None}]
    /\ w \in [Threads -> {Idle} \cup Workers]
    /\ clash \in [Files -> BOOLEAN]
    /\ allowed \in [Jobs -> BOOLEAN]
    /\ calls \in [Jobs -> Nat] /\ \A j \in Jobs : calls[j] <= MaxCalls[j]
    /\ edits \in Nat /\ faults \in Nat /\ edits + faults <= MaxMishaps

\* The registry under BATCH_WORKERS_LOCK is what keeps two threads from one
\* job and a cleanup from the job of a thread: a thread's job is in the store
\* and registered to it, and without faults a job shown as running or paused
\* has its thread.
WorkersKept ==
    /\ \A t \in Threads :
        Busy(t) => reg[w[t].job] = t /\ Exists(w[t].job)
    /\ \A j \in Jobs :
        Status(j) \in {"running", "paused", "interrupted"} =>
            faults > 0 \/ Alive(j)

\* A completed transform has an output, which is all of one version of the
\* input, through pauses, failures, resumed runs, crashes in the middle of a
\* write and edits of the input, with two exceptions: the run began on
\* checkpoints that an earlier run with a changed plan had not replaced, or two
\* jobs on the file were at once between opening and replacing the temporary
\* file they share.  The output is its own unless another job has the file.
CompletedIsWhole ==
    \A j \in Jobs :
        Status(j) = "completed" /\ job[j].kind \in Transforms =>
            LET o == out[FileOf[j]]
            IN  /\ o # None
                /\ Whole(o.text) \/ o.stale \/ clash[FileOf[j]]
                /\ \/ o.by = j
                   \/ \E k \in Jobs \ {j} : FileOf[k] = FileOf[j] /\ job[k] # None

\* The controlled mode of route_chat_file: a chunk is transformed only after a
\* start or a resume that came after the previous chunk.
ControlledByUser ==
    \A t \in Threads :
        At(t, "work") /\ Kind(t) = "chunks"
            /\ job[w[t].job].mode = "controlled" => allowed[w[t].job]

\* A cancel of an automatic chunked transform whose worker has begun is not
\* overwritten by that worker, however it ends.
CancelStays ==
    [][\A j \in Jobs :
        /\ Status(j) = "cancelled" /\ Alive(j) /\ ~At(reg[j], "begin")
        /\ job[j].kind = "chunks" /\ job[j].mode = "automatic"
        => job'[j].status = "cancelled"]_vars

\* A resumed run does not pay twice: a chunk that has a checkpoint of the plan
\* is transformed again only if the plan has changed since the last start.
RedoneOnlyForNewPlan ==
    [][\A t \in Threads :
        At(t, "work") /\ Kind(t) = "chunks" /\ w'[t].pc = "progress" =>
            LET old == cp[w[t].job][w[t].idx]
            IN  \/ old = None
                \/ old # Piece(Kind(t), w[t].plan, w[t].idx)
                \/ w[t].prev # w[t].plan]_vars

\* Every worker is again and again done or at a job that the user keeps paused:
\* no loop of the worker and no other status it waits for holds it for ever.
WorkersEnd ==
    \A t \in Threads :
        []<>(~Busy(t) \/ Status(w[t].job) = "paused")
=============================================================================

--------------------------- MODULE EngineProtocol ---------------------------
(***************************************************************************)
(* One session between cargo-hax and hax-engine.                           *)
(*                                                                         *)
(* cargo-hax (run_engine, cli/subcommands/src/cargo_hax.rs) spawns the     *)
(* engine with piped stdin and stdout, writes the options as one JSON      *)
(* value, then handles the messages of the engine until `Exit` or the end  *)
(* of its stdout, closes the stdin and reaps the process.  The engine      *)
(* (engine/bin/lib.ml, engine/lib/hax_io.ml) reads the options, runs a     *)
(* sequence of profiled stages (import, phases, backend), asking cargo-hax *)
(* to pretty-print things on the way, and at the end writes everything it  *)
(* computed, `Exit`, and waits for its stdin to close.                     *)
(*                                                                         *)
(* The pipes are bounded FIFO queues: a write blocks while the pipe is     *)
(* full and fails once the reader is gone, a read blocks while it is empty *)
(* and returns end-of-file once the writer is gone.                        *)
(***************************************************************************)
EXTENDS Integers, Sequences, FiniteSets

CONSTANTS Owners,         \* ids (DefId) of the items of the crate
          NoOwner,        \* diagnostics whose owner_id is None
          Files,          \* paths of the files the backend may produce
          PipeCapacity,   \* what a pipe holds, in messages
          OptionsChunks,  \* writes it takes to send the options
          LastStage,      \* stages 1 .. LastStage: import, phases, backend
          MaxReports,     \* bound on the diagnostics of a session
          MaxRequests     \* bound on the requests of a session

ASSUME PipeAssumption == PipeCapacity \in Nat \ {0}
ASSUME ChunksAssumption == OptionsChunks \in Nat \ {0}
ASSUME StageAssumption == LastStage \in Nat \ {0}
ASSUME BoundsAssumption == MaxReports \in Nat /\ MaxRequests \in Nat
ASSUME OwnerAssumption == NoOwner \notin Owners

VARIABLES
    options,          \* the flags of the command that matter here
    \* cargo-hax
    cargo_hax,        \* where run_engine is
    sent,             \* chunks of the options written so far
    error,            \* the result of run_engine
    reported,         \* Diagnostic messages reported to the user
    disk,             \* File messages written under the output directory
    output,           \* what --dry-run prints at the end
    errors_per_item,  \* a partial function from Owners to counts
    \* hax-engine
    engine,           \* where the engine is
    stage,            \* 0: parse_options; LastStage + 1: after `run`
    got,              \* chunks of the options read so far
    profiling,        \* Profiling.enabled
    declared,         \* has ItemProcessed been written?
    awaiting,         \* the request whose answer is being waited for
    requests,         \* requests made so far
    exn,              \* the exception in flight
    state,            \* Diagnostics.Core.state, as Diagnostic messages
    files,            \* the files `translate` returned
    emitted,          \* how many messages of Results are written
    exitCode,         \* -1: killed by a signal
    \* the two pipes
    toEngine,
    fromEngine

cargoVars  == <<cargo_hax, sent, error, reported, disk, output, errors_per_item>>
engineVars == <<engine, stage, got, profiling, declared, awaiting, requests,
                exn, state, files, emitted, exitCode>>
vars == <<options, cargoVars, engineVars, toEngine, fromEngine>>

-----------------------------------------------------------------------------
(* Messages *)

Diagnostics  == [type : {"Diagnostic"}, owner : Owners \cup {NoOwner}]
FileMessages == [type : {"File"}, path : Files]
DebugString  == [type |-> "DebugString"]
Exit         == [type |-> "Exit"]
Request(k)   == [type |-> k]
Profile(e)   == [type |-> "ProfilingData", errored |-> e]
Items(S)     == [type |-> "ItemProcessed", items |-> S]
Truncated    == [type |-> "Truncated"]  \* a line cut short by a kill

RequestKinds == {"PrettyPrintDiagnostic", "PrettyPrintRust"}
AnswerTo == [k \in RequestKinds |->
                IF k = "PrettyPrintRust" THEN "PrettyPrintedRust"
                ELSE "PrettyPrintedDiagnostic"]

Output == Diagnostics \cup FileMessages \cup {DebugString}
FromEngine ==
    Output \cup {Exit, Truncated}
           \cup {Request(k) : k \in RequestKinds}
           \cup {Profile(e) : e \in BOOLEAN}
           \cup {Items(S) : S \in SUBSET Owners}
ToEngine == {"Options", "PrettyPrintedDiagnostic", "PrettyPrintedRust"}

Options == [dry_run : BOOLEAN, stats : BOOLEAN, human : BOOLEAN,
            profile : BOOLEAN, debug : BOOLEAN, sameVersion : BOOLEAN]

EmptyOutput == [diagnostics |-> <<>>, files |-> <<>>, debug_json |-> FALSE]

Stages == 1 .. LastStage
AfterRun == LastStage + 1

\* Faulty variant of Results: files written before the diagnostics.
FilesFirst == files \o state
                    \o (IF options.debug THEN <<DebugString>> ELSE <<>>)
                    \o <<Exit>>

\* What `main` writes once `run` has returned, in this order.
Results == state \o files
                 \o (IF options.debug THEN <<DebugString>> ELSE <<>>)
                 \o <<Exit>>

-----------------------------------------------------------------------------
(* The ends of the pipes.  run_engine drops the engine's stdout when it    *)
(* leaves the message loop; `wait` closes the engine's stdin; a process    *)
(* that stops closes both its ends.                                        *)

\* Faulty variant of StdinOpen: the handle was taken, `wait` does not close it.
StdinKept   == cargo_hax \in {"send", "loop", "stats", "wait"}

StdinOpen   == cargo_hax \in {"send", "loop", "stats"}
StdoutOpen  == cargo_hax \in {"send", "loop"}
EngineAlive == engine # "exited"

RoomToEngine   == EngineAlive /\ Len(toEngine) < PipeCapacity
RoomFromEngine == StdoutOpen /\ Len(fromEngine) < PipeCapacity

Write(m) == RoomFromEngine /\ fromEngine' = Append(fromEngine, m)

\* finalize, in Profiling.profile: a message only when profiling is enabled.
Finalize(errored) ==
    IF profiling THEN Write(Profile(errored)) ELSE UNCHANGED fromEngine

Init ==
    /\ options \in Options
    /\ cargo_hax = "send" /\ sent = 0 /\ error = FALSE
    /\ reported = <<>> /\ disk = <<>> /\ output = EmptyOutput
    /\ errors_per_item = [o \in {} |-> 0]
    /\ engine = "options" /\ stage = 0 /\ got = 0 /\ profiling = TRUE
    /\ declared = FALSE /\ awaiting = "none" /\ requests = 0
    /\ exn = "none" /\ state = <<>> /\ files = <<>> /\ emitted = 0
    /\ exitCode = 0
    /\ toEngine = <<>> /\ fromEngine = <<>>

-----------------------------------------------------------------------------
(* hax-engine *)

\* Hax_io.read_json in parse_options: one chunk of the options.  After the
\* last one the versions are compared, then `Profiling.enabled` is set.
ReadOptions ==
    /\ engine = "options"
    /\ toEngine # <<>>
    /\ toEngine' = Tail(toEngine)
    /\ got' = got + 1
    /\ IF got' < OptionsChunks
         THEN UNCHANGED <<engine, profiling, exitCode>>
         ELSE IF options.sameVersion
           THEN /\ engine' = "leaving"
                /\ profiling' = options.profile
                /\ UNCHANGED exitCode
           ELSE /\ engine' = "exited" /\ exitCode' = 1
                /\ UNCHANGED profiling
    /\ UNCHANGED <<options, cargoVars, stage, declared, awaiting, requests,
                   exn, state, files, emitted, fromEngine>>

\* End of file in the middle of the options, or instead of an answer.
ReadEOF ==
    /\ engine \in {"options", "awaiting"}
    /\ toEngine = <<>> /\ ~StdinOpen
    /\ engine' = "raising" /\ exn' = "crash" /\ awaiting' = "none"
    /\ UNCHANGED <<options, cargoVars, stage, got, profiling, declared,
                   requests, state, files, emitted, exitCode,
                   toEngine, fromEngine>>

\* Faulty variant of Report: diagnostics are streamed as they come.
ReportAndStream ==
    /\ engine = "working" /\ stage \in Stages
    /\ Len(state) < MaxReports
    /\ \E d \in Diagnostics : state' = Append(state, d) /\ Write(d)
    /\ UNCHANGED <<options, cargoVars, engine, stage, got, profiling, declared,
                   awaiting, requests, exn, files, emitted, exitCode, toEngine>>

\* A stage records an error: Diagnostics.Core.report.
Report ==
    /\ engine = "working" /\ stage \in Stages
    /\ Len(state) < MaxReports
    /\ \E d \in Diagnostics : state' = Append(state, d)
    /\ UNCHANGED <<options, cargoVars, engine, stage, got, profiling, declared,
                   awaiting, requests, exn, files, emitted, exitCode,
                   toEngine, fromEngine>>

\* The last thing the import does before it re-reports the import errors.
DeclareItems ==
    /\ engine = "working" /\ stage = 1 /\ ~declared
    /\ \E S \in SUBSET Owners : Write(Items(S))
    /\ declared' = TRUE
    /\ UNCHANGED <<options, cargoVars, engine, stage, got, profiling,
                   awaiting, requests, exn, state, files, emitted, exitCode,
                   toEngine>>

\* Faulty variant of Ask: the engine goes on without reading the answer.
AskAsync(k) ==
    /\ engine = "working" /\ requests < MaxRequests /\ stage \in Stages
    /\ Write(Request(k))
    /\ requests' = requests + 1
    /\ UNCHANGED <<options, cargoVars, engine, stage, got, profiling, declared,
                   awaiting, exn, state, files, emitted, exitCode, toEngine>>

\* Hax_io.request.  An item whose import or phase fails is replaced by its
\* pretty-printed error; in debug mode `export` prints every phase as Rust.
Ask(k) ==
    /\ engine = "working" /\ requests < MaxRequests
    /\ \/ stage \in Stages
       \/ stage = AfterRun /\ options.debug /\ k = "PrettyPrintRust"
    /\ Write(Request(k))
    /\ engine' = "awaiting" /\ awaiting' = k /\ requests' = requests + 1
    /\ UNCHANGED <<options, cargoVars, stage, got, profiling, declared, exn,
                   state, files, emitted, exitCode, toEngine>>

\* An answer of the wrong kind is a "communication protocol error".
ReceiveAnswer ==
    /\ engine = "awaiting"
    /\ toEngine # <<>>
    /\ toEngine' = Tail(toEngine)
    /\ awaiting' = "none"
    /\ IF Head(toEngine) = AnswerTo[awaiting]
         THEN engine' = "working" /\ UNCHANGED exn
         ELSE engine' = "raising" /\ exn' = "mismatch"
    /\ UNCHANGED <<options, cargoVars, stage, got, profiling, declared,
                   requests, state, files, emitted, exitCode, fromEngine>>

\* The profiled function of a stage returns.  The backend's returns files.
FinishStage ==
    /\ engine = "working" /\ stage \in Stages
    /\ stage = 1 => declared
    /\ engine' = "leaving"
    /\ IF stage = LastStage
         THEN files' \in {<<>>} \cup
                         {<<[type |-> "File", path |-> f]>> : f \in Files} \cup
                         {<<[type |-> "File", path |-> f],
                            [type |-> "File", path |-> g]>> : f, g \in Files}
         ELSE UNCHANGED files
    /\ UNCHANGED <<options, cargoVars, stage, got, profiling, declared,
                   awaiting, requests, exn, state, emitted, exitCode,
                   toEngine, fromEngine>>

LeaveStage ==
    /\ engine = "leaving"
    /\ Finalize(FALSE)
    /\ engine' = "working" /\ stage' = stage + 1
    /\ UNCHANGED <<options, cargoVars, got, profiling, declared, awaiting,
                   requests, exn, state, files, emitted, exitCode, toEngine>>

\* "fatal": Diagnostics.failure, which reports before it raises and which
\* only `Diagnostics.try_` catches.  "crash": any other OCaml exception.
RaiseFatal ==
    /\ engine = "working" /\ stage \in Stages
    /\ Len(state) < MaxReports
    /\ \E d \in Diagnostics : state' = Append(state, d)
    /\ engine' = "raising" /\ exn' = "fatal"
    /\ UNCHANGED <<options, cargoVars, stage, got, profiling, declared,
                   awaiting, requests, files, emitted, exitCode,
                   toEngine, fromEngine>>

RaiseCrash ==
    /\ engine = "working"
    /\ engine' = "raising" /\ exn' = "crash"
    /\ UNCHANGED <<options, cargoVars, stage, got, profiling, declared,
                   awaiting, requests, state, files, emitted, exitCode,
                   toEngine, fromEngine>>

\* `profile` finalizes the stage and re-raises.  `try_` turns a fatal error
\* into no files; anything else ends the process with code 2.
Unwind ==
    /\ engine = "raising"
    /\ IF stage < AfterRun THEN Finalize(TRUE) ELSE UNCHANGED fromEngine
    /\ IF exn = "fatal"
         THEN /\ engine' = "working" /\ stage' = AfterRun
              /\ files' = <<>> /\ exn' = "none"
              /\ UNCHANGED exitCode
         ELSE /\ engine' = "exited" /\ exitCode' = 2
              /\ UNCHANGED <<stage, files, exn>>
    /\ UNCHANGED <<options, cargoVars, got, profiling, declared, awaiting,
                   requests, state, emitted, toEngine>>

\* `run` and the debug export have returned: main starts writing Results.
Conclude ==
    /\ engine = "working" /\ stage = AfterRun
    /\ engine' = "emitting"
    /\ UNCHANGED <<options, cargoVars, stage, got, profiling, declared,
                   awaiting, requests, exn, state, files, emitted, exitCode,
                   toEngine, fromEngine>>

Emit ==
    /\ engine = "emitting"
    /\ Write(Results[emitted + 1])
    /\ emitted' = emitted + 1
    /\ engine' = IF emitted' = Len(Results) THEN "closing" ELSE "emitting"
    /\ UNCHANGED <<options, cargoVars, stage, got, profiling, declared,
                   awaiting, requests, exn, state, files, exitCode, toEngine>>

\* Hax_io.close: after Exit, read until something or the end of file comes.
Close ==
    /\ engine = "closing"
    /\ toEngine # <<>> \/ ~StdinOpen
    /\ engine' = "exited" /\ exitCode' = 0
    /\ toEngine' = IF toEngine = <<>> THEN <<>> ELSE Tail(toEngine)
    /\ UNCHANGED <<options, cargoVars, stage, got, profiling, declared,
                   awaiting, requests, exn, state, files, emitted, fromEngine>>

\* SIGPIPE: a write to a pipe nobody reads any more.
BrokenPipe ==
    /\ ~StdoutOpen
    /\ \/ engine \in {"working", "emitting"}
       \/ engine \in {"leaving", "raising"} /\ profiling
    /\ engine' = "exited" /\ exitCode' = -1
    /\ UNCHANGED <<options, cargoVars, stage, got, profiling, declared,
                   awaiting, requests, exn, state, files, emitted,
                   toEngine, fromEngine>>

\* The operating system kills the engine, perhaps in the middle of a line.
Killed ==
    /\ EngineAlive
    /\ engine' = "exited" /\ exitCode' = -1
    /\ \/ UNCHANGED fromEngine
       \/ engine = "emitting" /\ Write(Truncated)
    /\ UNCHANGED <<options, cargoVars, stage, got, profiling, declared,
                   awaiting, requests, exn, state, files, emitted, toEngine>>

Engine ==
    \/ ReadOptions \/ ReadEOF \/ Report \/ DeclareItems
    \/ \E k \in RequestKinds : Ask(k)
    \/ ReceiveAnswer \/ FinishStage \/ LeaveStage
    \/ RaiseFatal \/ RaiseCrash \/ Unwind
    \/ Conclude \/ Emit \/ Close \/ BrokenPipe

-----------------------------------------------------------------------------
(* cargo-hax: run_engine *)

\* send!(with_table): one write of the serialised options.
SendOptions ==
    /\ cargo_hax = "send"
    /\ RoomToEngine
    /\ toEngine' = Append(toEngine, "Options")
    /\ sent' = sent + 1
    /\ cargo_hax' = IF sent' = OptionsChunks THEN "loop" ELSE "send"
    /\ UNCHANGED <<options, error, reported, disk, output, errors_per_item,
                   engineVars, fromEngine>>

\* The engine is gone: `unwrap` on the write panics.
SendFails ==
    /\ cargo_hax = "send"
    /\ ~EngineAlive
    /\ cargo_hax' = "panicked"
    /\ UNCHANGED <<options, sent, error, reported, disk, output,
                   errors_per_item, engineVars, toEngine, fromEngine>>

\* `for msg in stdout.json_lines()`: the next line, of one of the types T.
Receive(T) ==
    /\ cargo_hax = "loop"
    /\ fromEngine # <<>>
    /\ Head(fromEngine).type \in T
    /\ fromEngine' = Tail(fromEngine)

\* Faulty variant of CountError: insert(owner, 1).
CountOnce(o) ==
    errors_per_item' =
        [p \in DOMAIN errors_per_item \cup {o} |->
            IF p # o THEN errors_per_item[p] ELSE 1]

\* errors_per_item.entry(owner).or_default() += 1
CountError(o) ==
    errors_per_item' =
        [p \in DOMAIN errors_per_item \cup {o} |->
            IF p # o THEN errors_per_item[p]
            ELSE IF o \in DOMAIN errors_per_item THEN errors_per_item[o] + 1
            ELSE 1]

HandleDiagnostic ==
    /\ Receive({"Diagnostic"})
    /\ LET d == Head(fromEngine) IN
         /\ error' = TRUE
         /\ output' = IF options.dry_run
                        THEN [output EXCEPT !.diagnostics = Append(@, d)]
                        ELSE output
         /\ IF d.owner = NoOwner THEN UNCHANGED errors_per_item
                                 ELSE CountError(d.owner)
         /\ reported' = Append(reported, d)
    /\ UNCHANGED <<options, cargo_hax, sent, disk, engineVars, toEngine>>

HandleFile ==
    /\ Receive({"File"})
    /\ IF options.dry_run
         THEN /\ output' = [output EXCEPT !.files = Append(@, Head(fromEngine))]
              /\ UNCHANGED disk
         ELSE /\ disk' = Append(disk, Head(fromEngine))
              /\ UNCHANGED output
    /\ UNCHANGED <<options, cargo_hax, sent, error, reported, errors_per_item,
                   engineVars, toEngine>>

HandleDebugString ==
    /\ Receive({"DebugString"})
    /\ output' = [output EXCEPT !.debug_json = TRUE]
    /\ UNCHANGED <<options, cargo_hax, sent, error, reported, disk,
                   errors_per_item, engineVars, toEngine>>

\* The handler of a request sends the answer before the next message is read.
HandleRequest ==
    /\ Receive(RequestKinds)
    /\ RoomToEngine
    /\ toEngine' = Append(toEngine, AnswerTo[Head(fromEngine).type])
    /\ UNCHANGED <<options, cargoVars, engineVars>>

HandleProfilingData ==
    /\ Receive({"ProfilingData"})
    /\ UNCHANGED <<options, cargoVars, engineVars, toEngine>>

\* errors_per_item.insert(item, 0) for every item
HandleItemProcessed ==
    /\ Receive({"ItemProcessed"})
    /\ LET items == Head(fromEngine).items IN
         errors_per_item' =
            [o \in DOMAIN errors_per_item \cup items |->
                IF o \in items THEN 0 ELSE errors_per_item[o]]
    /\ UNCHANGED <<options, cargo_hax, sent, error, reported, disk, output,
                   engineVars, toEngine>>

HandleExit ==
    /\ Receive({"Exit"})
    /\ cargo_hax' = "stats"
    /\ UNCHANGED <<options, sent, error, reported, disk, output,
                   errors_per_item, engineVars, toEngine>>

\* The stdout of the engine is closed and drained.
EndOfOutput ==
    /\ cargo_hax = "loop"
    /\ fromEngine = <<>> /\ ~EngineAlive
    /\ cargo_hax' = "stats"
    /\ UNCHANGED <<options, sent, error, reported, disk, output,
                   errors_per_item, engineVars, toEngine, fromEngine>>

\* Faulty variant of HandlerPanics: what cannot be handled is skipped.
SkipMessage ==
    /\ Receive({"Truncated", "File", "Diagnostic"})
    /\ UNCHANGED <<options, cargoVars, engineVars, toEngine>>

\* A handler panics: a line that is not JSON, an answer that cannot be sent,
\* a source that cannot be read to render a diagnostic, a file that cannot be
\* written (or that is written, but not the source map that goes with it).
HandlerPanics ==
    /\ Receive({"Truncated"}
               \cup (IF EngineAlive THEN {} ELSE RequestKinds)
               \cup (IF options.human THEN {"Diagnostic"} ELSE {})
               \cup (IF options.dry_run THEN {} ELSE {"File"}))
    /\ cargo_hax' = "panicked"
    /\ \/ UNCHANGED disk
       \/ /\ Head(fromEngine) \in FileMessages
          /\ disk' = Append(disk, Head(fromEngine))
    /\ UNCHANGED <<options, sent, error, reported, output,
                   errors_per_item, engineVars, toEngine>>

\* HaxMessage::Stats; the human rendering divides by the number of items.
Stats ==
    /\ cargo_hax = "stats"
    /\ cargo_hax' = IF options.stats /\ options.human
                         /\ DOMAIN errors_per_item = {}
                      THEN "panicked" ELSE "wait"
    /\ UNCHANGED <<options, sent, error, reported, disk, output,
                   errors_per_item, engineVars, toEngine, fromEngine>>

\* Faulty variant of Wait: the exit status is not looked at.
WaitIgnoringStatus ==
    /\ cargo_hax = "wait"
    /\ ~EngineAlive
    /\ cargo_hax' = "returned"
    /\ UNCHANGED <<options, sent, error, reported, disk, output,
                   errors_per_item, engineVars, toEngine, fromEngine>>

\* Child::wait closes the stdin of the child (see StdinOpen), then blocks.
Wait ==
    /\ cargo_hax = "wait"
    /\ ~EngineAlive
    /\ cargo_hax' = IF exitCode = 0 THEN "returned" ELSE "exit1"
    /\ UNCHANGED <<options, sent, error, reported, disk, output,
                   errors_per_item, engineVars, toEngine, fromEngine>>

\* The operating system (or the user) kills cargo-hax.
CargoHaxKilled ==
    /\ cargo_hax \in {"send", "loop", "stats", "wait"}
    /\ cargo_hax' = "killed"
    /\ UNCHANGED <<options, sent, error, reported, disk, output,
                   errors_per_item, engineVars, toEngine, fromEngine>>

CargoHax ==
    \/ SendOptions \/ SendFails
    \/ HandleDiagnostic \/ HandleFile \/ HandleDebugString \/ HandleRequest
    \/ HandleProfilingData \/ HandleItemProcessed \/ HandleExit
    \/ EndOfOutput \/ HandlerPanics \/ Stats \/ Wait

\* The session is over: nothing more happens.
Done == cargo_hax \in {"returned", "exit1", "panicked", "killed"}
        /\ ~EngineAlive

Terminated == Done /\ UNCHANGED vars

Next == Engine \/ CargoHax \/ Killed \/ CargoHaxKilled \/ Terminated

\* Each process is a sequential program the scheduler runs; nothing makes a
\* process be killed.
Spec == /\ Init /\ [][Next]_vars
        /\ WF_vars(Engine) /\ WF_vars(CargoHax)

-----------------------------------------------------------------------------
(* Type invariant *)

CargoTypeOK ==
    /\ cargo_hax \in {"send", "loop", "stats", "wait",
                      "returned", "exit1", "panicked", "killed"}
    /\ sent \in 0 .. OptionsChunks
    /\ error \in BOOLEAN
    /\ reported \in Seq(Diagnostics)
    /\ disk \in Seq(FileMessages)
    /\ output \in [diagnostics : Seq(Diagnostics), files : Seq(FileMessages),
                   debug_json : BOOLEAN]
    /\ DOMAIN errors_per_item \subseteq Owners
    /\ errors_per_item \in [DOMAIN errors_per_item -> Nat]

EngineTypeOK ==
    /\ engine \in {"options", "working", "awaiting", "leaving", "raising",
                   "emitting", "closing", "exited"}
    /\ stage \in 0 .. AfterRun
    /\ got \in 0 .. OptionsChunks
    /\ profiling \in BOOLEAN /\ declared \in BOOLEAN
    /\ awaiting \in RequestKinds \cup {"none"}
    /\ requests \in 0 .. MaxRequests
    /\ exn \in {"none", "fatal", "crash", "mismatch"}
    /\ state \in Seq(Diagnostics)
    /\ files \in Seq(FileMessages)
    /\ emitted \in Nat
    /\ exitCode \in {-1, 0, 1, 2}

PipesTypeOK ==
    /\ toEngine \in Seq(ToEngine)
    /\ fromEngine \in Seq(FromEngine)

TypeOK ==
    options \in Options /\ CargoTypeOK /\ EngineTypeOK /\ PipesTypeOK

-----------------------------------------------------------------------------
(* Safety *)

IsRequest(m) == m.type \in RequestKinds

NoRequest(q) == \A i \in 1 .. Len(q) : ~IsRequest(q[i])

EndsWithRequest(q) ==
    /\ Len(q) > 0
    /\ IsRequest(q[Len(q)])
    /\ \A i \in 1 .. Len(q) - 1 : ~IsRequest(q[i])

\* Requests and answers pair up although nothing in a message says which
\* request it answers: at most one request is in flight, it is the last thing
\* the engine wrote, and until it is answered the other pipe is empty.  So
\* the handler of a request never blocks and `Hax_io.request` never meets an
\* answer of the wrong kind.
RequestOutstanding ==
    /\ \/ NoRequest(fromEngine)
       \/ /\ EndsWithRequest(fromEngine)
          /\ toEngine = <<>>
          /\ engine \in {"awaiting", "raising", "exited"}
    /\ engine = "awaiting" =>
          \/ toEngine = <<AnswerTo[awaiting]>>
          \/ /\ toEngine = <<>>
             /\ \/ ~StdoutOpen
                \/ /\ EndsWithRequest(fromEngine)
                   /\ fromEngine[Len(fromEngine)] = Request(awaiting)
    /\ exn # "mismatch"

OutputFiles == IF options.dry_run THEN output.files ELSE disk

\* When run_engine returns, the user has seen every diagnostic the engine
\* recorded, every file it produced is on disk (or, with --dry-run, in the
\* output and not on disk), and `error` is set exactly when there were
\* diagnostics.  Whatever dies half-way is never taken for a success.
ReturnedIsComplete ==
    cargo_hax = "returned" =>
        /\ reported = state
        /\ OutputFiles = files
        /\ options.dry_run => disk = <<>> /\ output.diagnostics = state
        /\ ~options.dry_run => output.files = <<>>
        /\ output.debug_json = options.debug
        /\ error <=> state # <<>>

\* No file is touched before every diagnostic has been reported, hence never
\* on behalf of a translation that is still running.
FilesComeLast ==
    OutputFiles # <<>> => reported = state /\ stage = AfterRun

\* An exception in the engine (as opposed to a kill) leaves no partial
\* extraction behind: nothing was reported and nothing was written.
ExceptionLeavesNothing ==
    exitCode \in {1, 2} => reported = <<>> /\ disk = <<>> /\ output = EmptyOutput

\* errors_per_item counts the reported diagnostics of each owner: the reset
\* done by ItemProcessed never discards an error already counted.
CountsAreExact ==
    \A o \in DOMAIN errors_per_item :
        errors_per_item[o] =
            Cardinality({i \in 1 .. Len(reported) : reported[i].owner = o})

-----------------------------------------------------------------------------
(* Liveness and refinement *)

\* No deadlock between the two pipes: every session ends, the engine is
\* reaped or ends by itself, whoever dies first.
SessionEnds == <>Done

Delivered == reported \o OutputFiles
               \o (IF output.debug_json THEN <<DebugString>> ELSE <<>>)

Session == INSTANCE TranslationSession WITH
    computed  <- emitted > 0,
    result    <- IF emitted > 0 THEN SubSeq(Results, 1, Len(Results) - 1)
                                ELSE <<>>,
    delivered <- Delivered,
    outcome   <- CASE cargo_hax = "returned" -> "ok"
                   [] cargo_hax \in {"exit1", "panicked", "killed"} -> "failed"
                   [] OTHER -> "running"

\* The protocol implements the promise made to the caller of run_engine.
ImplementsSession == Session!Spec
=============================================================================

------------------------------ MODULE CargoHax ------------------------------
(***************************************************************************)
(* Invocations of `cargo hax` that share a workspace, from the cargo build *)
(* to the exit code.                                                       *)
(*                                                                         *)
(* An invocation (cli/subcommands/src/cargo_hax.rs) runs `cargo build`     *)
(* with its own driver in place of rustc.  For a package to translate, the *)
(* driver (cli/driver/src) exports the crate to a `haxmeta` file, names    *)
(* the file on its stderr, and runs the real rustc.  When cargo is done,   *)
(* the invocation reads the files whose names it heard of, and runs an     *)
(* engine on each (see EngineProtocol) or exports it as JSON.              *)
(*                                                                         *)
(* Cargo is external.  Of it the model keeps: one build at a time per      *)
(* target directory; a unit is fresh when it was compiled with success     *)
(* under the values the environment variables of its dep-info still have;  *)
(* a fresh unit replays the stderr of its compilation; a unit starts after *)
(* those it depends on, and none starts after a failure.                   *)
(***************************************************************************)
EXTENDS Naturals, Sequences, FiniteSets

CONSTANTS Invocations,  \* processes running `cargo hax`
          Crates,       \* packages of the workspace
          Needs,        \* Needs[c]: all the packages c depends on
          Configs,      \* the command lines to consider
          NoOne         \* the build directory is unlocked

\* `primary` are the packages cargo builds because of the current directory.
Config == [version : STRING, command : {"into", "json"}, deps : BOOLEAN,
           primary : SUBSET Crates]

ASSUME ConfigAssumption == Configs \subseteq Config
ASSUME NeedsAssumption ==
    /\ Needs \in [Crates -> SUBSET Crates]
    /\ \A c \in Crates : c \notin Needs[c]
ASSUME NoOneAssumption == NoOne \notin Invocations

VARIABLES
    config,         \* the command line of each invocation
    pc,             \* where each invocation is
    haxmeta_files,  \* the crates whose EmitHaxMeta it has received
    exit_code,      \* what compute_haxmeta_files returned
    error,          \* `error` in run_command
    next,           \* the haxmeta file to read next
    translated,     \* the calls of run_engine that returned
    output_file,    \* what is in the JSON file
    status,         \* exit status, or how the invocation ended
    overtaken,      \* keys of the builds that started since its own
    lock,           \* who holds the lock of the target directory
    unit,           \* progress of the units of the current build
    fingerprint,    \* what each crate was last compiled under, with success
    replay,         \* does the recorded stderr name the haxmeta file?
    haxmeta         \* the haxmeta files

invocationVars == <<pc, haxmeta_files, exit_code, error, next, translated,
                    output_file, status, overtaken>>
targetVars == <<lock, unit, fingerprint, replay, haxmeta>>
vars == <<config, invocationVars, targetVars>>

-----------------------------------------------------------------------------
(* What cargo and the driver derive from a command line *)

\* Faulty variant of Key: the version of hax is left out of the dep-info.
KeyWithoutVersion(cfg) ==
    IF cfg.command = "json" THEN [cfg EXCEPT !.version = ""]
                            ELSE [cfg EXCEPT !.version = "", !.primary = {}]

\* The environment variables the driver adds to the dep-info: the options and
\* HAX_CARGO_CACHE_KEY.  The current directory shows in them only through the
\* path of the JSON file, which normalize_paths makes absolute.
Key(cfg) == IF cfg.command = "json" THEN cfg ELSE [cfg EXCEPT !.primary = {}]

\* translate_package, in the driver.
Translates(cfg, c) == cfg.deps \/ c \in cfg.primary

\* The packages cargo builds.
Closure(cfg) == cfg.primary \cup UNION {Needs[c] : c \in cfg.primary}

Dependents(c) == {d \in Crates : c \in Needs[d]}

Keys == {Key(cfg) : cfg \in Configs}
Absent == [state |-> "absent"]
Haxmeta == [state : {"empty", "whole", "cut"}, by : Keys]

Running == {"create", "convert", "emit", "flush", "rustc"}

Init ==
    /\ config \in [Invocations -> Configs]
    /\ pc = [p \in Invocations |-> "start"]
    /\ haxmeta_files = [p \in Invocations |-> <<>>]
    /\ exit_code = [p \in Invocations |-> 0]
    /\ error = [p \in Invocations |-> FALSE]
    /\ next = [p \in Invocations |-> 1]
    /\ translated = [p \in Invocations |-> {}]
    /\ output_file = [p \in Invocations |-> {}]
    /\ status = [p \in Invocations |-> "none"]
    /\ overtaken = [p \in Invocations |-> {}]
    /\ lock = NoOne
    /\ unit = [c \in Crates |-> "done"]
    /\ fingerprint = [c \in Crates |-> {}]
    /\ replay = [c \in Crates |-> FALSE]
    /\ haxmeta = [c \in Crates |-> Absent]

-----------------------------------------------------------------------------
(* compute_haxmeta_files: cargo, and the drivers it runs *)

\* Cargo takes the lock of the target directory.
StartBuild(p) ==
    /\ pc[p] = "start" /\ lock = NoOne
    /\ lock' = p
    /\ pc' = [pc EXCEPT ![p] = "build"]
    /\ unit' = [c \in Crates |-> IF c \in Closure(config[p]) THEN "todo"
                                                             ELSE "done"]
    /\ overtaken' = [q \in Invocations |->
                        IF pc[q] = "run" THEN overtaken[q] \cup {Key(config[p])}
                                         ELSE overtaken[q]]
    /\ UNCHANGED <<config, haxmeta_files, exit_code, error, next, translated,
                   output_file, status, fingerprint, replay, haxmeta>>

\* The unit can start: in the build of p, nothing has failed, and what the
\* crate depends on is there.
Ready(p, c) ==
    /\ lock = p /\ unit[c] = "todo"
    /\ \A d \in Crates : unit[d] # "failed"
    /\ \A d \in Needs[c] : unit[d] = "done"

Hear(p, c) ==
    haxmeta_files' = [haxmeta_files EXCEPT ![p] = Append(@, c)]

\* A fresh unit: its recorded stderr is replayed.
Fresh(p, c) ==
    /\ Ready(p, c)
    /\ fingerprint[c] = {Key(config[p])}
    /\ unit' = [unit EXCEPT ![c] = "done"]
    /\ IF replay[c] THEN Hear(p, c) ELSE UNCHANGED haxmeta_files
    /\ UNCHANGED <<config, pc, exit_code, error, next, translated, output_file,
                   status, overtaken, lock, fingerprint, replay, haxmeta>>

\* Faulty variant of StartUnit: the fingerprint stays while a unit compiles.
StartUnitTrusting(p, c) ==
    /\ Ready(p, c)
    /\ fingerprint[c] # {Key(config[p])}
    /\ unit' = [unit EXCEPT ![c] = IF Translates(config[p], c)
                                     THEN "create" ELSE "rustc"]
    /\ replay' = [replay EXCEPT ![c] = FALSE]
    /\ UNCHANGED <<config, invocationVars, lock, fingerprint, haxmeta>>

\* Cargo runs the driver.  The crate, and those that depend on it, are stale
\* from now on, until they compile.
StartUnit(p, c) ==
    /\ Ready(p, c)
    /\ fingerprint[c] # {Key(config[p])}
    /\ unit' = [unit EXCEPT ![c] = IF Translates(config[p], c)
                                     THEN "create" ELSE "rustc"]
    /\ fingerprint' = [d \in Crates |-> IF d \in {c} \cup Dependents(c)
                                          THEN {} ELSE fingerprint[d]]
    /\ replay' = [replay EXCEPT ![c] = FALSE]
    /\ UNCHANGED <<config, invocationVars, lock, haxmeta>>

\* after_expansion: File::create, before anything is translated.
CreateFile(p, c) ==
    /\ lock = p /\ unit[c] = "create"
    /\ haxmeta' = [haxmeta EXCEPT ![c] =
                      [state |-> "empty", by |-> Key(config[p])]]
    /\ unit' = [unit EXCEPT ![c] = "convert"]
    /\ UNCHANGED <<config, invocationVars, lock, fingerprint, replay>>

\* convert_thir and HaxMeta::write, into the buffer of a BufWriter.
Convert(p, c) ==
    /\ lock = p /\ unit[c] = "convert"
    /\ unit' = [unit EXCEPT ![c] = "emit"]
    /\ UNCHANGED <<config, invocationVars, lock, fingerprint, replay, haxmeta>>

\* The driver names the file on stderr; cargo records and forwards the line.
EmitHaxMeta(p, c) ==
    /\ lock = p /\ unit[c] = "emit"
    /\ Hear(p, c)
    /\ replay' = [replay EXCEPT ![c] = TRUE]
    /\ unit' = [unit EXCEPT ![c] = "flush"]
    /\ UNCHANGED <<config, pc, exit_code, error, next, translated, output_file,
                   status, overtaken, lock, fingerprint, haxmeta>>

\* The BufWriter is dropped: what it holds is written; a failure of that write
\* (no space left) is ignored.
Flush(p, c) ==
    /\ lock = p /\ unit[c] = "flush"
    /\ \E s \in {"whole", "cut"} : haxmeta' = [haxmeta EXCEPT ![c].state = s]
    /\ unit' = [unit EXCEPT ![c] = "rustc"]
    /\ UNCHANGED <<config, invocationVars, lock, fingerprint, replay>>

\* vanilla_rustc (or, for a package that is not translated, the driver itself)
\* compiles the crate.
Compile(p, c) ==
    /\ lock = p /\ unit[c] = "rustc"
    /\ unit' = [unit EXCEPT ![c] = "done"]
    /\ fingerprint' = [fingerprint EXCEPT ![c] = {Key(config[p])}]
    /\ UNCHANGED <<config, invocationVars, lock, replay, haxmeta>>

\* The driver ends with an error, wherever it is: rustc errors, a panic of the
\* exporter, a kill, or the failure of vanilla_rustc.
UnitFails(p, c) ==
    /\ lock = p /\ unit[c] \in Running
    /\ unit' = [unit EXCEPT ![c] = "failed"]
    /\ UNCHANGED <<config, invocationVars, lock, fingerprint, replay, haxmeta>>

\* Faulty variant of EndBuild: the failure of a unit is not an end.
EndBuildOnSuccess(p) ==
    /\ pc[p] = "build" /\ lock = p
    /\ \A c \in Crates : unit[c] = "done"
    /\ lock' = NoOne
    /\ pc' = [pc EXCEPT ![p] = "run"]
    /\ UNCHANGED <<config, haxmeta_files, exit_code, error, next, translated,
                   output_file, status, overtaken, unit, fingerprint, replay,
                   haxmeta>>

\* Cargo exits, when no driver runs any more, and is waited for.
EndBuild(p) ==
    /\ pc[p] = "build" /\ lock = p
    /\ \A c \in Crates : unit[c] \notin Running
    /\ \/ \A c \in Crates : unit[c] = "done"
       \/ \E c \in Crates : unit[c] = "failed"
    /\ exit_code' = [exit_code EXCEPT ![p] =
                        IF \E c \in Crates : unit[c] = "failed" THEN 101 ELSE 0]
    /\ lock' = NoOne
    /\ pc' = [pc EXCEPT ![p] = "run"]
    /\ UNCHANGED <<config, haxmeta_files, error, next, translated, output_file,
                   status, overtaken, unit, fingerprint, replay, haxmeta>>

-----------------------------------------------------------------------------
(* run_command *)

End(p, how) ==
    /\ pc' = [pc EXCEPT ![p] = "ended"]
    /\ status' = [status EXCEPT ![p] = how]

Todo(p) == pc[p] = "run" /\ next[p] <= Len(haxmeta_files[p])
Current(p) == haxmeta[haxmeta_files[p][next[p]]]

\* What HaxMeta::read accepts.
Readable(p) == /\ Current(p).state = "whole"
               /\ Current(p).by.version = config[p].version

\* HaxMeta::read panics: a file that is not complete, or the version in it.
ReadPanics(p) ==
    /\ Todo(p) /\ ~Readable(p)
    /\ End(p, CASE Current(p).state = "empty" -> "empty"
                [] Current(p).state = "cut" -> "cut"
                [] OTHER -> "version")
    /\ UNCHANGED <<config, haxmeta_files, exit_code, error, next, translated,
                   output_file, overtaken, targetVars>>

\* What an engine is given: a crate, exported under some options.
Input(p) == [crate |-> haxmeta_files[p][next[p]], by |-> Current(p).by]

\* A call of run_engine, and the errors it reports.
Translate(p, e) ==
    translated' = [translated EXCEPT ![p] =
                      @ \cup {[input |-> Input(p), errors |-> e]}]

\* Faulty variant of RunEngine: the last crate decides.
RunEngineForgetting(p) ==
    /\ Todo(p) /\ Readable(p) /\ config[p].command = "into"
    /\ \E e \in BOOLEAN : Translate(p, e) /\ error' = [error EXCEPT ![p] = e]
    /\ next' = [next EXCEPT ![p] = @ + 1]
    /\ UNCHANGED <<config, pc, haxmeta_files, exit_code, output_file, status,
                   overtaken, targetVars>>

\* `error = error || run_engine(..)`: no engine is run after an error.
RunEngine(p) ==
    /\ Todo(p) /\ Readable(p) /\ config[p].command = "into"
    /\ IF error[p]
         THEN UNCHANGED <<translated, error>>
         ELSE \E e \in BOOLEAN :
                Translate(p, e) /\ error' = [error EXCEPT ![p] = e]
    /\ next' = [next EXCEPT ![p] = @ + 1]
    /\ UNCHANGED <<config, pc, haxmeta_files, exit_code, output_file, status,
                   overtaken, targetVars>>

\* run_engine exits by itself when the engine fails.
EngineFailure(p) ==
    /\ Todo(p) /\ Readable(p) /\ config[p].command = "into" /\ ~error[p]
    /\ End(p, "exit 1")
    /\ UNCHANGED <<config, haxmeta_files, exit_code, error, next, translated,
                   output_file, overtaken, targetVars>>

\* Every crate is written to the JSON file, which is created each time.
ExportJSON(p) ==
    /\ Todo(p) /\ Readable(p) /\ config[p].command = "json"
    /\ output_file' = [output_file EXCEPT ![p] = {Input(p)}]
    /\ next' = [next EXCEPT ![p] = @ + 1]
    /\ UNCHANGED <<config, pc, haxmeta_files, exit_code, error, translated,
                   status, overtaken, targetVars>>

\* main: the code of cargo, or 1 when cargo succeeded and an engine did not.
Exit(p) ==
    /\ pc[p] = "run" /\ next[p] > Len(haxmeta_files[p])
    /\ End(p, IF exit_code[p] = 0 THEN IF error[p] THEN "exit 1" ELSE "exit 0"
                                  ELSE "exit 101")
    /\ UNCHANGED <<config, haxmeta_files, exit_code, error, next, translated,
                   output_file, overtaken, targetVars>>

\* The user interrupts cargo-hax, and with it cargo and the drivers.
Interrupted(p) ==
    /\ pc[p] # "ended"
    /\ End(p, "interrupted")
    /\ lock' = IF lock = p THEN NoOne ELSE lock
    /\ UNCHANGED <<config, haxmeta_files, exit_code, error, next, translated,
                   output_file, overtaken, unit, fingerprint, replay, haxmeta>>

Driver(p, c) == \/ Fresh(p, c) \/ StartUnit(p, c) \/ CreateFile(p, c)
                \/ Convert(p, c) \/ EmitHaxMeta(p, c) \/ Flush(p, c)
                \/ Compile(p, c)

Command(p) == \/ StartBuild(p) \/ EndBuild(p) \/ ReadPanics(p) \/ RunEngine(p)
              \/ EngineFailure(p) \/ ExportJSON(p) \/ Exit(p)

Terminated == (\A p \in Invocations : pc[p] = "ended") /\ UNCHANGED vars

Next == \/ \E p \in Invocations : Command(p) \/ Interrupted(p)
        \/ \E p \in Invocations, c \in Crates : Driver(p, c) \/ UnitFails(p, c)
        \/ Terminated

\* Every process that runs makes progress; nothing makes one fail.
Spec == /\ Init /\ [][Next]_vars
        /\ \A p \in Invocations : WF_vars(Command(p))
        /\ \A p \in Invocations, c \in Crates : WF_vars(Driver(p, c))

-----------------------------------------------------------------------------
(* Type invariant *)

Inputs == [crate : Crates, by : Keys]

TypeOK ==
    /\ config \in [Invocations -> Configs]
    /\ pc \in [Invocations -> {"start", "build", "run", "ended"}]
    /\ haxmeta_files \in [Invocations -> Seq(Crates)]
    /\ exit_code \in [Invocations -> {0, 101}]
    /\ error \in [Invocations -> BOOLEAN]
    /\ next \in [Invocations -> Nat \ {0}]
    /\ translated \in
          [Invocations -> SUBSET [input : Inputs, errors : BOOLEAN]]
    /\ output_file \in [Invocations -> SUBSET Inputs]
    /\ status \in [Invocations -> {"none", "exit 0", "exit 1", "exit 101",
                      "empty", "cut", "version", "interrupted"}]
    /\ overtaken \in [Invocations -> SUBSET Keys]
    /\ lock \in Invocations \cup {NoOne}
    /\ unit \in [Crates -> Running \cup {"todo", "done", "failed"}]
    /\ fingerprint \in [Crates -> SUBSET Keys]
    /\ replay \in [Crates -> BOOLEAN]
    /\ haxmeta \in [Crates -> {Absent} \cup Haxmeta]

-----------------------------------------------------------------------------
(* Safety *)

\* What a crate was recorded to be compiled under is what its haxmeta file was
\* exported under: however the builds before were interrupted or failed, a
\* fresh unit never names a file that was left empty or rewritten since.
CacheSound ==
    \A c \in Crates : \A k \in fingerprint[c] :
        replay[c] => haxmeta[c].state \in {"whole", "cut"} /\ haxmeta[c].by = k

UsedInputs(p) == {t.input : t \in translated[p]} \cup output_file[p]

\* The files are read without the lock that protected their writing.  An
\* invocation that no other build overtook meets a file without contents only
\* if its own build failed, never a file of another version, and never works
\* on what another command line exported.
OnlyOverlapMisleads ==
    \A p \in Invocations :
        /\ status[p] = "empty" => exit_code[p] # 0 \/ overtaken[p] # {}
        /\ status[p] = "version" =>
              \E k \in overtaken[p] : k.version # config[p].version
        /\ \A i \in UsedInputs(p) : i.by \in {Key(config[p])} \cup overtaken[p]

Heard(p) == {haxmeta_files[p][i] : i \in 1 .. Len(haxmeta_files[p])}

\* A caller that looks at the exit status only is not misled: it is 0 only
\* when cargo succeeded, every crate that was named was translated, and no
\* engine reported an error, whichever crate it was.
ExitZeroIsClean ==
    \A p \in Invocations : status[p] = "exit 0" =>
        /\ exit_code[p] = 0
        /\ \A t \in translated[p] : ~t.errors
        /\ config[p].command = "into" =>
              {t.input.crate : t \in translated[p]} = Heard(p)

\* Every invocation ends, whoever holds the lock and whatever fails.
InvocationsEnd == \A p \in Invocations : <>(pc[p] = "ended")

-----------------------------------------------------------------------------
(* What the documentation and the comments say *)

Finished(p) == /\ pc[p] = "ended" /\ exit_code[p] = 0
               /\ next[p] > Len(haxmeta_files[p])
               /\ status[p] \in {"exit 0", "exit 1"}

TranslatedCrates(p) == {t.input.crate : t \in translated[p]}

\* "By default, the command is only applied to the primary packages (i.e. the
\* package(s) of the current directory ...)", cli_options/mod.rs: when an
\* invocation without --deps ends well, it has translated these packages.
PrimaryIsTranslated ==
    \A p \in Invocations :
        status[p] = "exit 0" /\ ~config[p].deps /\ config[p].command = "into"
            => TranslatedCrates(p) = config[p].primary

\* --deps: "Apply the command to every local package of the dependency
\* closure", cli_options/mod.rs, for `cargo hax into`.
DepsTranslatesAll ==
    \A p \in Invocations :
        Finished(p) /\ config[p].deps /\ config[p].command = "into"
            => TranslatedCrates(p) = Closure(config[p])
=============================================================================

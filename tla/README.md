# A verification project for hax

hax translates a subset of Rust to F\*, Coq, ProVerif and other proof
languages.  This directory holds TLA+ modules that model parts of it, TLC
configurations that check them on small instances, and proofs, checked by
TLAPS, of what holds for every instance.  Paths below are relative to the root
of the repository (`src/` in `PROJECT.json`).

## 1. The system

### 1.1 Parts, state and interactions

```
 cargo hax into fstar                    (cli/subcommands/src/cargo_hax.rs)
   |  spawns: cargo build, RUSTC_WORKSPACE_WRAPPER = the driver
   |        cargo --(one process per crate)--> driver   (cli/driver/src)
   |                     macros of hax-lib expand in it (hax-lib/macros/src)
   |                     exporter: THIR -> haxmeta file  (frontend/exporter/src)
   |        <--- stderr: EmitHaxMeta(path)
   |  reads the haxmeta files, and for each of them
   |  spawns: hax-engine                              (engine/bin, engine/lib)
   |        ---> stdin : options + items, answers to requests
   |        <--- stdout: requests, ItemProcessed, diagnostics, files, Exit
   |                     import -> selection -> phases -> backend
   v  writes proofs/<backend>/extraction/*, reports diagnostics, exits
```

| Part | State it keeps | Operations | Interacts by |
|---|---|---|---|
| `cargo_hax.rs` | list of haxmeta files, `error`, `errors_per_item`, dry-run output | build, one `run_engine` per crate, one handler per message | processes, pipes, files |
| driver (`driver.rs`, `exporter.rs`, `callbacks_wrapper.rs`) | none between runs; a haxmeta file, dep-info | `after_expansion`, vanilla re-run of rustc | environment variables, stderr |
| macros of hax-lib (`hax-lib/macros`) | a counter of uids per process | one expansion per attribute, companions and payloads | called by rustc; payloads are attributes, read by the engine |
| exporter (`frontend/exporter`) | `state.rs` caches, `id_table` session, one trait searcher per item | `sinto` of each item, `resolve` of trait references | called by the driver; calls rustc's queries |
| engine main (`bin/lib.ml`, `hax_io.ml`) | pipes, `Profiling.enabled` | options, import, selection, phases, output, `close` | JSON lines on pipes |
| `span.ml`, `diagnostics.ml` | `owner_id_list`, `state_owner_hint`, `Core.state` | `with_owner_hint`, `capture`, `try_`, `report` | global references read by import, phases, printers |
| import and selection (`import_thir.ml`, `dependencies.ml`, `attr_payloads.ml`) | the AST items, their graph | `import_thir_items`, `filter_by_inclusion_clauses`, lookups of companions by uid | called by `run`; lookups come from phases and backends |
| phases (`engine/lib/phases`, `side_effect_utils.ml`, `subtype.ml`) | the AST; fresh identifiers | one AST-to-AST function each, in the order a backend lists | each relies on the output of the one before |
| backends, printers, source maps | the text | `translate` | called by `run` |
| hax-lib, bounded integers | none; the values of a program | arithmetic, conversions, assertions | linked into the user's program, and read by the engine |

`PROJECT.json` lists every part with its sources, whether it is modelled, and
why not when it is not.

### 1.2 What is hard

* **Two processes and two bounded pipes.**  A request of the engine has no
  identifier; both sides block on reads and on full pipes; either may die at
  any moment; `close` waits for an end of file that only the other side can
  cause.  Cargo-hax acts on messages as they come, so a session may fail after
  some of its effects.
* **Global references and exceptions in the engine.**  `with_owner_hint` and
  `capture` replace a reference and put it back on the normal path only.
  Errors are reported *and* raised, and an enclosing handler makes an error
  node.
* **Caching by cargo.**  Whether a crate is exported again depends on what the
  driver adds to its dep-info.  The haxmeta file is emptied before it is
  written, announced before it is flushed, and read after cargo has released
  its lock.
* **Several results into one exit status.**
* **Queries that steal.**  rustc gives the THIR of a body once; to ask for one
  body may take another one away, so the order in which the exporter asks matters.
* **Caches filled by code that calls back into them.**  `sinto` looks up,
  translates the parts, which may look up the same entry, and stores.  A trait
  searcher grows while references are resolved, and an answer names a clause by its
  position.
* **Annotations in two worlds.**  A macro leaves companions and uids in the
  program rustc compiles; the engine finds them again after selection, erasure
  and phases have dropped items.  What `cargo` compiles and what is translated
  are expansions by different macros.
* **Two translations of every expression.**  The exporter copies rustc's THIR and
  the engine imports the copy; what one of them flattens, renames or leaves out
  (scopes, labels, the order of fields, signs, indices of variants) the other
  one must not need.
* **Chains of program transformations** in which each phase assumes an
  invariant the ones before establish.
* **One program, three executions.**  A debug build, a release build and what is
  proved of its reading should agree, and the checks of each are different.

The list of hazards, at their lines, is in `PROJECT.json`; every hazard names
the properties that would catch it.

### 1.3 What makes each part correct

* Session: requests and answers pair up; a session that returns has delivered
  every diagnostic and file, in order; a session that fails is never taken for
  a success; every session ends.
* Engine run: every error node has been reported; errors are attributed to the
  right item; errors about items that are not selected stay silent.
* Workspace: a cached crate has a haxmeta file that fits; an invocation works on
  what its own command line exported unless another one overtook it; an exit
  status of 0 means that all went well; every invocation ends.
* Exporter: a body is lost only to a body asked for before; a definition has one
  node; every node comes after those it refers to; what is written can be read
  back.
* Trait resolution: a path proves the predicate it answers; its index names a
  clause of the item; what a parameter's clauses prove is found; nothing that was
  resolved before makes an answer wrong or missing.
* Annotations and selection: every contract written on a translated item is
  attached to it, or an error says so; a formula only names what it may; nothing
  asked for is missing, nothing else is there.
* Bodies and constants: what is exported and what is imported mean what the
  program means; what cannot be translated is reported, and nothing else.
* Phases: each preserves the meaning of programs and removes the constructs it
  announces.
* Library: a program whose obligations hold neither panics nor computes anything
  else than its reading does.

## 2. Modules

| Module | Models | Source |
|---|---|---|
| `TranslationSession` | abstract promise of `run_engine` to its caller | `cargo_hax.rs` |
| `EngineProtocol` | the session: both processes and both pipes | `cargo_hax.rs`, `engine/bin/lib.ml`, `hax_io.ml`, `profiling.ml` |
| `ItemDiagnostics` | owners, captured diagnostics, error nodes, statistics | `span.ml`, `diagnostics.ml`, `bin/lib.ml`, `import_thir.ml`, `subtype.ml`, `print_rust.ml` |
| `CargoHax` | invocations that share a target directory | `cargo_hax.rs`, `driver.rs`, `exporter.rs`, `callbacks_wrapper.rs`, `driver_api.rs` |
| `Exporter` | the export of a crate: bodies, caches, id table, and reading back | `driver/exporter.rs`, `state.rs`, `id_table.rs`, `rustc_utils.rs`, `types/` |
| `TraitResolution` | the trait searcher of an item and the calls that search | `traits/resolution.rs`, `traits/utils.rs`, `traits.rs` |
| `TraitSelection` | what rustc selects and normalises (external) | `shallow_resolve_trait_ref` |
| `RustData` | `Iterator::filter`, `Iterator::flatten`, `HashMap::insert` and unions of maps, as functions one can reason about | used by `Exporter`, `TraitResolution` and `Attributes` |
| `Attributes` | items, their attributes, and the functions that decorations write | `hax-lib/macros/src`, `macros/types` |
| `Annotations` | the macros of hax-lib | `hax-lib/macros/src`, `macros/types` |
| `EngineItems` | what the engine computes from lists of items: the graph, the clauses of `-i`, statuses, quotes, formulas | `dependencies.ml`, `attr_payloads.ml`, `ast_utils.ml` |
| `ItemSelection` | import of annotated items, inclusion clauses, companions, quotes | `import_thir.ml`, `dependencies.ml`, `attr_payloads.ml`, `cli_options/mod.rs`, `phase_traits_specs.ml` |
| `Constants` | constants of types, patterns, expressions and bodies, exported and imported | `constant_utils.rs`, `types/mir.rs`, `types/thir.rs`, `import_thir.ml` |
| `Mir` | MIR bodies, as the exporter copies them | `types/mir.rs` |
| `Thir` | bodies from THIR to the language of the phases: export, import, three phases | `types/thir.rs`, `body.rs`, `rustc_utils.rs`, `import_thir.ml`, `phase_reconstruct_while_loops.ml`, `phase_drop_blocks.ml`, `phase_drop_match_guards.ml` |
| `HaxAst` | expressions and the helpers the phases share | `ast.ml`, `ast_utils.ml` |
| `HaxMeaning` | reference evaluator of these expressions (no code of the engine) | |
| `SideEffects` | `Hoist`: effects leave operand position | `side_effect_utils.ml` |
| `LocalMutation` | assignments become bindings and loop states | `phase_local_mutation.ml` |
| `ControlFlow` | the phases that remove `return`, `break` and `continue`, and loops | `phase_simplify_match_return.ml`, `phase_rewrite_control_flow.ml`, `phase_drop_return_break_continue.ml`, `phase_functionalize_loops.ml`, `ast_builder.ml` |
| `FStarPhases` | the chain of these phases, as the F\* backend runs it | `fstar_backend.ml` |
| `HaxLib` | the run-time library in three executions | `hax-lib/src`, `hax-bounded-integers/src`, `macros/src/implementation.rs` (`refinement_type`) |
| `EngineProtocol_proofs` | theorems about the session: types, pairing, delivery and refinement | |
| `ItemDiagnostics_proofs` | theorems about the engine run: hints and reports | |
| `CargoHax_proofs` | theorems about the workspace: the cache, what invocations read and how they end | |
| `DataLemmas` | induction over an interval and the existence of recursive functions; lemmas about sequences and about the functions of `RustData`, `Attributes` and `EngineItems` | |
| `Exporter_proofs` | theorems about the export: bodies, the id table, the file, the implementations | |
| `TraitResolution_proofs` | theorems about trait resolution: its calls, its answers, and that none is missing | |
| `ItemSelection_proofs` | theorems about `Annotations` and `ItemSelection`: companions, contracts, formulas, selection, quotes, and what a backend finds | |
| `HaxLib_proofs` | theorems about the run-time library | |
| `MC...` | instances for TLC | |

`EngineProtocol` is one session seen from close up; in `CargoHax` the session is
one step (`RunEngine` or `EngineFailure`), which is what `TranslationSession`,
shown to be implemented by `EngineProtocol`, allows.  `Exporter` is what
happens in the step `Convert` of a driver of `CargoHax`, and `TraitResolution`
what stands behind the constant `Resolution` of `Exporter`.  `ItemSelection`
extends `Annotations`: the items it imports are those the macros have made.  What both
need without looking at the state is in `Attributes` and `EngineItems`, which `DataLemmas`
extends.
`Thir` is what the call of `sinto` for a body in `Exporter` and the import of an
expression in `ItemDiagnostics` do with it, and its last stage is where the
bodies of `FStarPhases` come from; `Constants` is about the literals and named
constants in it; `Mir` copies the other form of a body, for tools that do not use the
engine.
`ItemDiagnostics` is what happens inside the engine's stages, whose outcome is
any list of diagnostics in `EngineProtocol`.  `FStarPhases` is what the
phases, one step of `ItemDiagnostics` (`PhaseError` or nothing), do to the body
of one function.

A definition called "faulty variant of X" is never used by a specification.  It
is X with a plausible bug, and shows that the property meant to exclude this
bug is violated when X is replaced by it.

### 2.1 EngineProtocol

State: `cargo_hax` and `engine` are the control points of the two programs;
`toEngine` and `fromEngine` the pipes, bounded by `PipeCapacity` messages;
`state` is `Diagnostics.Core.state`, `files` what the backend returned,
`emitted` how far `main` is in writing them; `reported`, `disk` and `output` are
what the user gets.  Actions of the engine: `ReadOptions`, `Report`,
`DeclareItems`, `Ask`/`ReceiveAnswer` (`Hax_io.request`), `FinishStage` and
`LeaveStage` (a profiled stage), `RaiseFatal`/`RaiseCrash`/`Unwind`, `Conclude`,
`Emit`, `Close`, `BrokenPipe`.  Of cargo-hax: `SendOptions` and one `Handle...`
per message, `EndOfOutput`, `HandlerPanics`, `Stats`, `Wait`.  Both may be killed
at any time.  The options are written in `OptionsChunks` pieces because they
exceed the pipe.

Abstractions: contents of messages are reduced to their type, owner or path.
Up to `MaxReports` diagnostics, two files and `MaxRequests` requests per session.
`Ping` is answered like a request and is not sent by the engine.  The profiling
of `parse_options` and of the stages is kept since it writes to the pipe.

### 2.2 ItemDiagnostics

State: the references of `span.ml` and `diagnostics.ml` under their own names,
with what `with_owner_hint` (`previous_hint`) and `capture` (`previous_state`)
keep on the stack; `items` are the AST items with the hint of their span and
whether an error node stands in them.  One action per way to enter, leave or
fail an import (`ImportItem`, `ExprError`, `FinishItem`, `FailItem`), then
`Select`, then the errors of the later stages (`PhaseError`, `PrintError`,
`Failure`), and `Crash` for any other exception.  `Finish` ends the run without the two
filters behind the selection, of type aliases (`lib.ml:107`) and of `late_skip` items
(`lib.ml:123`): what is selected may be more than what is printed.

Abstractions: an item yields up to `MaxYield` AST items; the selection is any
subset (the inclusion clauses and the dependency closure belong to
`ItemSelection`); equal reports about one item are merged when the
item ends, which is when nothing can tell them apart any more.

### 2.3 CargoHax

State per invocation: its command line, its control point, the haxmeta files it
heard of, `exit_code`, `error`, what it translated or exported.  Shared: the lock
of the target directory, the progress of each unit of the build that holds it,
and per crate the fingerprint, the recorded stderr (`replay`) and the haxmeta
file.  A driver goes through `CreateFile`, `Convert`, `EmitHaxMeta`, `Flush`,
`Compile`; `UnitFails` and `Interrupted` may strike anywhere between.
`overtaken` only records which builds started after one's own, for the
properties.

Cargo is external and is modelled by what hax relies on: one build at a time per
target directory; a unit is fresh if it compiled with success under the
environment values its dep-info names; the stderr of a fresh unit is replayed; a
unit starts after its dependencies and not after a failure.  `Key` is what the
driver puts into the dep-info: all options and the version, hence the current
directory only through the absolute path of a JSON output file.

Not modelled: `--disable-cargo-cache` (a time stamp in the options: every build
is then stale), RUSTFLAGS and toolchain changes, edits of the sources between
invocations.

### 2.4 FStarPhases

State: the imported body `program`, what the phases have made of it (`expr`), the last
phase that ran and the error it raised.  One action per phase, in the order of
`fstar_backend.ml`; each applies to the body the operator that models the phase:
`HoistSideEffects`, `SimplifyMatchReturn`, `MutationToBindings`,
`RewriteControlFlow`, `DropReturnBreakContinue`, `FunctionalizeLoops`.

An expression is a record of its constructor and its direct subexpressions, so
that a visitor of the engine becomes a recursive operator with a case for each
constructor it overrides.  Types are left out, as are the kinds of expressions the
phases treat like an application.  A fresh name is the position of the operand
it stands for.

The reference is `HaxMeaning`, an evaluator for all the languages of the
chain: the imperative one at its start, with assignments and jumps; the one in the
middle, whose loops carry a state; and folds, which interpret what their body
returns as the proof libraries do (`fold_range`, `fold_range_cf`,
`fold_range_return`).  It evaluates operands from left to right and gives up
(`stuck`) on what has no meaning, such as a fold whose body returns something else
than the `ControlFlow` it expects, or an addition of what is not a number.
`MeaningKept` compares the body after each phase with the imported one, for every
argument: the result, or the panic, it comes to.

Bodies return pairs or unit.  A caller sees nothing of a unit function but its
panics, so their bodies end in a call that panics with the two variables, and a
`return;` is seen by the panic it avoids.  (Unit functions with parameters of
type `&mut` return values when these phases run.)  `LoopWithReturn` makes two cases of
what a loop returned, as the code does: it is returned again if there is a
witness, that is when it is not a unit, and is the value of the arm otherwise.
The second is right out of loops and wrong in one: `MeaningKept` names this
exception, `ReturnsUnitFromNestedLoop`, for the phases after
`Rewrite_control_flow`, and `phases_unit` shows it (section 3.1).

Abstractions: the only iterators are ranges that start at 0; labels of jumps are
ignored, as the importer ignores them; conditions are integers; the proof
libraries define folds of while loops without control flow only, and the model
takes those with it to work like the folds over ranges.

The programs of `phases_safety` leave out two shapes whose meaning is known to
change (section 3.1): while conditions with a binding or an assignment, and
operands that both assign and jump.  They also leave out bodies that end in an
assignment or in a loop, whose value is not used.

### 2.5 Exporter

State: the crate (`krate`: what rustc knows of it), the step of `convert_thir`
(`pc`), the caches of `state.rs` under their names, the id table (`table`, `next_id`),
the stack of the calls of `sinto` that have not returned, what the haxmeta file
holds (`haxmeta`) and what a reader has decoded (`state`).  Actions:
`PrecomputeBody` and `BodiesDone` (`precompute_local_thir_bodies`); `StartItem`,
`EnterItem`, `GetBody`, `CallSInto`, `ReturnSInto`, `FinishItem` for the
translation of items, whose order of calls is that of the Rust code; the
listing of implementations (`ItemsDone`, `StartImplInfos`, `FinishImplInfos`);
`Export`; `ReadPair` and `ReadValue` of the reader.

rustc is external.  The model keeps of it that typing a body may evaluate
constants, and that what is evaluated is stolen, for every relation between
bodies that rustc accepts; that a crate has finitely many definitions; that an
anonymous constant is never an item; and that with a body its closures are among
the bodies.  Abstractions: what a value consists of is the list of
the definitions, types and trait references it names; compression and encoding
of the file are left out; caches of spans and of full definitions are left
out.

### 2.6 TraitResolution

State: the program, `candidates` of the `PredicateSearcher` of one item and whether
it was made (`predicate_searcher`), the candidates that `extend` still has to insert
(`extending`), the calls of `resolve` and `resolve_local` under way (`stack`) and the
cached answers (`impl_exprs`).  Actions: `SolveTrait` (`solve_trait` for a reference
that was not answered yet, with `new_for_owner`), `SolvedTrait` (one that is in the
cache); `Extend`, one turn of the breadth-first search (`extend`, `extend_parents`);
`Resolve`, `ResolveNext`, `AnswerLocal` and `AnswerSource` of `resolve` and
`resolve_predicates`; `ResolveLocal`, `TraitFound`, `AddBounds` and `LookUpAgain` of
`resolve_local` and `add_associated_type_refs`.

The stack is explicit because the two functions call each other between reading
the candidates and using them: `resolve_local` looks a predicate up, and when it is
not there looks for the trait of the associated type it is about, resolves what this
type requires (which may extend the candidates in turn), adds its bounds, and looks
again.  The references of an item are resolved in any order, and `candidates` is never
emptied.

rustc is external: `Select` says which source proves a predicate, with the generics of
an implementation, and `NormTy` normalises a type.  That candidates and answers are
proofs holds for any of them; that none is missing, for those that mean by a source that is
a parameter what the language does (`ParamAssumption`).  For TLC `TraitSelection` defines both
by the rules of the language, and the assumption is checked of them.  Types are
parameters and type constants followed by associated types.  Left out: regions but
for clauses that are no trait clauses, generics of associated types, constants.

### 2.7 HaxLib

State: one register per kind of value (`x` of a refinement type, `n` of its base
type, `int`, `p`), each in three executions: `debug`, `release` and `reading`;
why each build stopped; and whether the obligations hold so far (`proved`).  The
program is any sequence of the operations, one action each.  The reading is what
hax makes of the operation: a refinement type is a subset, `Int` the integers,
`Prop` a formula.

Abstractions: one register per kind, since no operation looks at more values
than two; shifts, bitwise and bit-counting operators, which go to the base type
in the same way, are left out; the quantifiers of `Prop` range over base values.

### 2.8 Annotations and ItemSelection

State of `Annotations`: `items`, with their attributes, inputs and bodies, the number
of uids drawn, and how the crate is compiled (`build`: by cargo alone, as a
dependency under `cargo hax`, or translated for a backend).  `Expand` applies
the macros of one item, once those of what encloses it are done; the items
come in any order.  A formula is reduced to what it says, the variables it names and
the items it uses, which is what moving it out of its item can break.  What it says
stands for the place it is written at, so that no two formulas of an item and a role
say the same (`SaysApart`).  Programs are finite, and use the attributes of the
documented interface, on items their macros parse: contracts and `lemma` on functions,
`refinement_type` on structs; `impl_fn_decoration` is what `attributes` writes; and a field is
that of a struct (`ProgramsAssumption`).  A struct has in the place of an output how its
fields are written (`Record` or `Positional`); the engine's item keeps it in the place of a body.
They are programs that compile: a formula names what is in scope where it is written, and
`future` is known in postconditions only (`NamesAssumption`).  `PostconditionFits` lists
where the macro, which goes by the syntax, and the engine, which goes by the types,
disagree on what a postcondition is applied to; one of them is a lemma with an
`ensures` above its `lemma`, which is read while the function still returns its proof.

`ItemSelection` goes on with the engine: `Start` gives the inclusion clauses,
`ImportThirItems` imports the items and selects among them (`import_thir_items`,
`filter_by_inclusion_clauses`), `ApplyPhases` is `Transform_hax_lib_inline`, and
`Translate` looks up the contracts as the F\* and the Coq backend do.  A pattern matches
everything or some items of the source, since companions have no name a user could write
(`ClausesAssumption`), and no formula says what an error says (`FormulasAssumption`).

Which formulas are looked up is what the backends print: both those of functions; F\* also
those of a refinement type and of parts, but of the fields of a struct only if it is a record
(`PartsRead`).  `NoSilentLoss` starts from what is written, not from what is looked up: a
formula on anything translated is found, or answered by an error, or its loss has one of
three names, `NeverRead` (no backend code looks there) or the two of `FoundOf` (all but
the first formula on the method of a trait; a refinement under `+:**`).

`SelectionIsExact` compares the two passes with what the documentation of `-i` includes,
read clause by clause, on two classes of lists.  Nothing documented is missing where
clauses do not meet (`Independent`): in others the second pass looks for
dependencies among items the first has left, without the bodies that a `+~` or a `+:`
took away.  Nothing is selected beyond what signatures and contracts lead to, unless
a `-` or a `+:` follows a `+~` (`FinalShallow`): the exclusion takes an item out, but
not what it brought.

Abstractions: namespaces in clauses are sets of items; `decreases`, which is
treated like `requires`, `loop_invariant` and quotes in expressions are left
out, and so is whether the generated code is well typed.

### 2.9 Constants

State: one constant and what has become of it, after `Export` (`constant_utils.rs`:
valtrees of types, values of bodies, unevaluated constants), `Import`
(`c_lit`, `constant_expr_to_expr`) and `ImportPattern` (`c_pat`).  A constant is
what rustc keeps of it: a tree, a scalar, bytes or a pointer.  Meaning is given
by reading each form back as a value.  Numbers keep their width and their sign
through bits (`% 2^w`), magnitudes and flags.  Left out: the text of a literal,
and generic arguments but for that they are dropped.

### 2.10 Thir

State: the `body`, as rustc has it, and what the stages have made of it (`current`):
`Export`, `Import`, `ReconstructWhileLoops`, `RemoveBlocks`, `RemoveMatchGuards`.
A node is a record of its kind, the id exported with it and its children under
the names of the fields of the Rust types; a translation is a recursive operator
with a case per kind.  One evaluator covers the nodes of all stages, with
assignments, jumps with labels, short-circuit operators and guards.
`MeaningIsKept` runs the body before and after each stage on all inputs.

Left out: types (other than three facts that control depends on), attributes,
spans, generics, macro invocations, references to constants and constant
parameters (`Constants`), places other than variables, the safety of blocks.

### 2.11 Mir

`Mir` extends `Constants`: what is exported is a constant or a MIR body.  State: the
body as rustc has it (`source`) and its copy (`mir`), made by `ExportMir`.  A place of
rustc is a local and a list of projections; `PlaceSInto` nests it, gives each level
its type and merges a downcast into the field after it.  `FunOperand` and
`FunctionOf` resolve calls and list what proves the clauses of the function,
`TranslateSwitchTargets` types the values of a switch, and the rest is copied node by
node.  One evaluator, with a memory of locals and paths into them, runs both bodies:
places, operands, rvalues, statements and terminators of rustc and of the copy.  A
place of the copy is followed level by level, and what is found at each level must have
the type noted there.  `BodyKeepsItsMeaning` compares the memory, the branches, the
calls and the drops of the two.  Arithmetic of the copy wraps, as rustc's does; the
unchecked operators are undefined on overflow in rustc's body, where nothing is
compared.

Left out: names, scopes, lifetimes, unwinding, coroutines, inline assembly, unions, casts,
the bounds of types that aggregates list, and bodies another query has stolen.

## 3. Runs

Every run is `tlc -config <cfg> <module>`; each ends within three minutes on
two workers.

| Run | Module, configuration | Instance | Shows |
|---|---|---|---|
| `protocol` | `MCEngineProtocol`, `EngineProtocol_session.cfg` | pipes of 2 messages, options in 3 chunks, 1 owner, 1 file, 2 stages, 2 reports, 2 requests; 829 000 states | `RequestOutstanding`, `ReturnedIsComplete`, `FilesComeLast`, `ExceptionLeavesNothing`, `CountsAreExact`; `SessionEnds`; the refinement `ImplementsSession` |
| `items_safety` | `MCItemDiagnostics`, `ItemDiagnostics_safety.cfg` | 3 items, up to 2 AST items and 2 reports each; 280 000 states | `HintNamesItem`, `StaleHintIsFailure`, `NoForeignReports`, `NoSilentError` |
| `workspace_safety` | `MCCargoHax`, `CargoHax_safety.cfg` | 2 invocations, each with any of 5 command lines, 2 packages one of which depends on the other; 540 000 states | `CacheSound`, `OnlyOverlapMisleads`, `ExitZeroIsClean`; `InvocationsEnd` |
| `phases_safety` | `MCFStarPhases`, `FStarPhases_safety.cfg` | 4 860 bodies, 8 arguments; 33 800 states | `MeaningKept`, `FailuresAreExplained` |
| `exporter_safety` | `MCExporter`, `Exporter_safety.cfg` | three kinds of small crates, every relation of evaluation; 84 000 states | `BodiesLostInOrder`, `TableIsSound`, `FileIsReadBack`, `ImplsHaveInfos` |
| `traits_safety` | `MCTraitResolution`, `TraitResolution_safety.cfg` | 4 traits with 2 associated types, up to 3 references per item, call by call; 86 000 states | `AnswersAreProofs` (`PathsAreProofs`, `IndexNamesClause`, `AnswersProve`), `ParamIsFound` |
| `haxlib_safety` | `MCHaxLib`, `HaxLib_safety.cfg` | an unsigned and a signed two-bit type, all sequences of calls; 425 000 states | `ProvedIsSafe`, `ProvedIsFaithful`, `ProvedIsInBounds`, `ReleaseAgrees` |
| `annotations` | `MCItemSelection`, `ItemSelection_safety.cfg` | five kinds of crates, 4 builds, 21 lists of clauses; 9 700 states | `ContractsAttached`, `FormulaFits` (`FormulaIsClosed` and `PostconditionFits`), `CompanionsStayApart`, `SelectionIsExact`, `QuotesFollow`, `NoSilentLoss`, `ErrorsAreExplained` |
| `bodies` | `MCExportedBodies`, `Bodies_safety.cfg` | constants of types nested two deep over two-bit integers; 204 bodies in MIR, 6 memories; 566 bodies in THIR, 9 inputs; 6 300 states | `ConstantsKeepTheirValue`, `ConstantErrorsAreExplained`, `BodyKeepsItsMeaning`, `BodyStopsAreExplained`; `MeaningIsKept`, `BodyErrorsAreExplained` |

Why the bounds are enough.  The pipes of the protocol hold fewer messages than
one side writes at a stretch, so both sides do block on a full pipe, and the
options do not fit in the pipe; the second request may only be asked when the
answer to the first has been read, and the second report meets a stage that
the first one left.  Three items are the fewest for which the order of owner
ids (which `owner_hint` reverses) has a middle, and two AST items per item the
fewest for which a hint is used twice.  Two packages are a primary one and a
dependency, and either may be the primary one according to the directory the
invocation runs in; two invocations are one that recorded a cache entry, or is
overtaken, and another.  Error paths (kills, crashes, failing handlers, failing
drivers, interrupts, a full disk) may strike in any state, any number of times.

The bodies of `phases_safety` that return pairs combine every pair of 11 statements
out of loops and of 17 in a loop, those that return unit 6 and 12: assignments, conditional jumps with and without an assignment
before them, effects in operands, conditions, initializers and match arms.
Loops come in sequence, nested, under a condition, in the initializer of a variable,
and after or before any of these.  Two variables are the fewest for which the order
of a loop's state can differ from the order its context wants; a range of two
iterations runs a body once more after its first effects; while loops end after at most
three iterations or are equated as divergent after five (`Fuel`).  The bodies in
THIR of `bodies` have every kind of node at least once, jumps out of one and of two loops,
and guards that fail with arms of every kind after them; a loop is taken to
diverge after six iterations.  Those in MIR read, write and take references to
every place of up to three projections (a field, a variant, an element by index or from
either end, a slice, a box, a reference, what a closure captures), which is one more than
it takes for a projection to have another one on both sides; other bodies have each rvalue,
each way to branch and each kind of callee, with values for which each branch is taken,
an overflow happens and an index is out of bounds; a loop is taken to diverge after
`Steps` blocks.

`bodies` puts the two side by side (`MCExportedBodies`, on the bodies of `MCMir` and
`MCThir`): `--kind` of `cargo hax json` asks for THIR, MIR or both, and each form is made from
what rustc has, so that a behaviour is that of one constant or one body in one form.

The crates of `exporter_safety` have a body of every kind (`const` and plain
functions, constants, a discriminant, an inline constant, a closure), so that every
level of `precompute_local_thir_bodies` meets every other one in every
direction of evaluation; chains of references through a type, a projection and
an implementation of another crate are two deep.  Traits of `traits_safety` have a
supertrait, a parameter with a bound, and an associated type whose bound is cyclic:
the shapes the breadth-first search has a case for; three references are one that
makes the candidates grow, one before and one after it; one of them is about
an implementation whose clauses are about its own parameter and an associated type
of it, and what the associated type `X` requires is resolved inside a call that looks
for it.  Two-bit integers are the
smallest that overflow on both sides, with a bound that excludes zero and one that
does not; two bytes are the fewest for which an `Int` may be too short, fit or be too
long for its array.  The crates of `annotations` have, each, one item of the
kind they are about, with up to three annotations in every order that differs, and a
chain of four calls for the dependencies.

Deadlock is checked in `protocol`, `items_safety`, `workspace_safety`,
`phases_safety` and `traits_safety`, whose specifications stutter or repeat in their
final states.  `exporter_safety`, `haxlib_safety`, `annotations` and
`bodies` describe programs that really stop.

### 3.1 Disagreements

Three runs each check one statement of a comment or of the documentation, and TLC finds
a behaviour in which the code does otherwise.  `PROJECT.json` quotes the lines.

| Run | Statement | What happens |
|---|---|---|
| `workspace_primary` | `PrimaryIsTranslated` | `CARGO_PRIMARY_PACKAGE` is not part of the dep-info; run from another directory, the package is fresh and nothing is translated |
| `haxlib_checked` | `CheckedAtRunTime` | the condition under which a refinement type checks its invariant is inverted (`macros/src/implementation.rs:989`), so that a debug build accepts any value |
| `phases_unit` | `JumpsHaveAnEquivalent` | there is no witness to return a unit with: `return;` from a loop in a loop is a `continue` of the outer loop, or gives it a unit for a state (`phase_rewrite_control_flow.ml:41` and `:69`) |

The following were observed while modelling.  They are part of the models, as the
code has them, and are the named exceptions of the properties, or statements no
run checks, to keep the list of runs short; a statement in parentheses is a
definition a reader can give to TLC.

* Session and workspace: `error = error || run_engine(..)` skips the crates after the
  first failing one (`cargo_hax.rs:605`, `DepsTranslatesAll`); `--stats` on a crate of which no
  item is processed divides by zero (`cargo_hax.rs:213`); `cargo hax json --deps`
  truncates its output for every crate (`cargo_hax.rs:553`); two engines may write
  one proofs directory (`cargo_hax.rs:332`); the last buffered write of a haxmeta
  file is flushed by `drop`, which ignores its error (`exporter.rs:265`); versions
  are compared after decoding, so that a file of another version may panic
  before the message about versions (`driver_api.rs:62`); a diagnostic is rendered
  with the sources as they are when it is reported (`report.rs:26`).
* Engine run: `owner_hint` reads the list of owners from the wrong end
  (`span.ml:153`, `DeclaredAreSelected`); import and phases report errors without an
  owner, so that the statistics count failed items as successes (`diagnostics.ml:161`).
* Exporter: implementations are listed from the keys of a cache that grows while
  they are translated (`state.rs:369`, `EveryImplHasInfos`); the flag of
  `WithTable::run` stays set after a panic.
* Trait resolution: the path recorded first for a predicate is kept, and what is
  recorded while an associated type is resolved may be longer than a path through
  another one (`resolution.rs:249`, `ShortestPath` of `TraitSelection`); predicates of
  variants and constructors are pushed twice; the index in a path counts the trait
  clauses only, its comment says that it is the one in the list of `implied_predicates`
  (`traits.rs:40`, `resolution.rs:184` and `:255`, `IndexedInImplied`); `resolve` never returns `Err`.
* Bodies: labels of `break` and `continue` survive the export but not the import
  (`import_thir.ml:658`); `x op= e` becomes `x = x op e`, which reads `x` before `e`
  (`import_thir.ml:607`); `&&` and `||` become calls, whose right operand is then
  hoisted like any other; `Drop_match_guards` evaluates the scrutinee again after a
  guard; the block of a `let ... else` gets the type of the enclosing block; the
  length in a tuple projector is always 0.
* Phases: loops in front of a loop that returns are not rewritten, and raise an
  assertion failure (`phase_rewrite_control_flow.ml:153`, `NoAssertionFailure`); what
  the condition of a `while` binds or assigns is hoisted in front of the loop
  (`side_effect_utils.ml:294`); a read commutes with any operand that may jump, even
  one that assigns the variable (`side_effect_utils.ml:107`); a loop that neither
  assigns nor returns is refused (`phase_functionalize_loops.ml:180`).
* Constants: offsets of pointers are ignored; byte strings that are UTF-8 become
  strings; structures without size lose their fields; one-field structures and
  fieldless enums of bodies are fatal; generic arguments are dropped.
* MIR: a subslice of an array keeps the type of the array (`mir.rs:839`, a TODO of the
  code); `ty` of a place is the type of the place, its comment says the type that the
  projection is applied to (`mir.rs:680`); calls of copied or constant function pointers
  panic (`mir.rs:399`), and so do switches on characters (`mir.rs:506`).
* Selection: the clauses are documented as a fold from left to right but applied in
  two passes (`cli_options/mod.rs:281`, `dependencies.ml:408`), so that `-** +a -b` loses what
  `a` reaches through `b`, and `+~g +f` what `f` reaches through `g`.
* Annotations: a replacement for one backend hides the item from all
  (`implementation.rs:848`); a `refine` on a field of a tuple struct is accepted
  (`implementation.rs:560`) and printed by F\* without it or an error
  (`fstar_backend.ml:1154`, `:1163`, against `:1126` for records), and Coq reads formulas of
  functions only (`NeverRead`); a quote for another backend leaves a dangling uid, and
  all contracts of its item fail (`attr_payloads.ml:228`); refinements lose their body
  under `+:` (`macros/types/src/lib.rs:118`); a second `requires` on a method of a
  trait is dropped (`fstar_backend.ml:1296`); quotes on inherent implementations and
  modules vanish; postconditions of `&mut self` lack the future
  (`implementation.rs:295`).
* Library: a release build drops `assert!` of hax-lib (`implementation.rs:53`,
  `AssertIsChecked`); `BigInt::new` refuses integers of fewer bytes than
  it has room for (`bigint.rs:17`, `LiftFits`); `constructors::implies` has its operands reversed (`prop.rs:30`); the
  proof libraries divide negative numbers otherwise than Rust does, which
  `TypesAssumption` excludes.

### 3.2 Mutants

For every property of a passing run, `PROJECT.json` names a definition that models
code and a faulty variant of it (a dropped guard, a missing reset, a swapped
order); with the variant in its place TLC finds the property violated in the
same configuration.  A property of the list therefore does depend on the code.

## 4. Fairness

* `EngineProtocol`: weak fairness of `CargoHaxStep` and of `EngineStep`, that is, each
  process, when it is not killed, goes on whenever it can read, write or compute.
  The operating system schedules both, and neither waits for anything but the
  pipes.  Nothing obliges a kill, a crash, an error or a request to happen.
* `CargoHax`: weak fairness of the step of each invocation and of each step of the
  drivers of the build that holds the lock; the lock of cargo is a file lock
  that the operating system frees when its holder ends.  No fairness for failures
  and interrupts.
* The others are sequential programs without waiting; no liveness is stated.

## 5. Proofs

TLC checks the instances above; the following theorems hold for all values of the
constants that satisfy the assumptions.

| Theorem | Module | Statement | Assumptions |
|---|---|---|---|
| `TypeCorrect` | `EngineProtocol_proofs` | `Spec => []TypeOK` | the named ASSUMEs of `EngineProtocol` |
| `RequestsArePaired` | `EngineProtocol_proofs` | `Spec => []RequestOutstanding` | same |
| `ReturnsComplete` | `EngineProtocol_proofs` | `Spec => []ReturnedIsComplete` | same |
| `FilesAreLast` | `EngineProtocol_proofs` | `Spec => []FilesComeLast` | same |
| `ExceptionsAreClean` | `EngineProtocol_proofs` | `Spec => []ExceptionLeavesNothing` | same |
| `CountsStayExact` | `EngineProtocol_proofs` | `Spec => []CountsAreExact` | same |
| `SessionIsImplemented` | `EngineProtocol_proofs` | `Spec => Session!Init /\ [][Session!Next]_(Session!vars)` | same |
| `HintsAreSound` | `ItemDiagnostics_proofs` | `Spec => []HintNamesItem` | the named ASSUMEs of `ItemDiagnostics` |
| `StaleHintsFailed` | `ItemDiagnostics_proofs` | `Spec => []StaleHintIsFailure` | same |
| `ReportsAreNotForeign` | `ItemDiagnostics_proofs` | `Spec => []NoForeignReports` | same |
| `ErrorsAreNotSilent` | `ItemDiagnostics_proofs` | `Spec => []NoSilentError` | same |
| `CacheIsSound` | `CargoHax_proofs` | `Spec => []CacheSound` | the named ASSUMEs of `CargoHax` |
| `TypesHold` | `CargoHax_proofs` | `Spec => []TypeOK` | same |
| `OverlapAloneMisleads` | `CargoHax_proofs` | `Spec => []OnlyOverlapMisleads` | same |
| `ExitZeroMeansDone` | `CargoHax_proofs` | `Spec => []ExitZeroIsClean` | same |
| `TypeCorrect` | `HaxLib_proofs` | `Spec => []TypeOK` | `TypesAssumption` |
| `ProvedProgramsAreSafe` | `HaxLib_proofs` | `Spec => []ProvedIsSafe` | same |
| `ProvedProgramsAreFaithful` | `HaxLib_proofs` | `Spec => []ProvedIsFaithful` | same |
| `ProvedValuesAreInBounds` | `HaxLib_proofs` | `Spec => []ProvedIsInBounds` | same |
| `ReleaseDoesWhatDebugDoes` | `HaxLib_proofs` | `Spec => []ReleaseAgrees` | same |
| `TypesHold` | `Exporter_proofs` | `Spec => []ExportTypes` | the named ASSUMEs of `Exporter` |
| `CallsAreNested` | `Exporter_proofs` | `Spec => []StackShape` | same |
| `BodiesAreLostInOrder` | `Exporter_proofs` | `Spec => []BodiesLostInOrder` | same |
| `TheTableIsSound` | `Exporter_proofs` | `Spec => []TableIsSound` | same |
| `TheFileIsReadBack` | `Exporter_proofs` | `Spec => []FileIsReadBack` | same |
| `TheImplsHaveInfos` | `Exporter_proofs` | `Spec => []ImplsHaveInfos` | same |
| `TheCallsAreOrdered` | `TraitResolution_proofs` | `Spec => []CallsAreOrdered` | the named ASSUMEs of `TraitResolution` |
| `TheAnswersAreProofs` | `TraitResolution_proofs` | `Spec => []AnswersAreProofs` | same |
| `ParamIsAlwaysFound` | `TraitResolution_proofs` | `Spec => []ParamIsFound` | same, and `ParamAssumption` |
| `ItemsAreSound` | `ItemSelection_proofs` | `Spec => []IInv` | `ProgramsAssumption` |
| `CompanionsAreApart` | `ItemSelection_proofs` | `Spec => []CompanionsStayApart` | same |
| `ContractsAreAttached` | `ItemSelection_proofs` | `Spec => []ContractsAttached` | same |
| `FormulasFit` | `ItemSelection_proofs` | `Spec => []FormulaFits` | same, and `NamesAssumption` |
| `SelectionMatchesTheClauses` | `ItemSelection_proofs` | `Spec => []SelectionIsExact` | `ProgramsAssumption`, `NamesAssumption`, `ClausesAssumption` |
| `QuotesGoWithTheirItems` | `ItemSelection_proofs` | `Spec => []QuotesFollow` | same |
| `NothingIsLostInSilence` | `ItemSelection_proofs` | `Spec => []NoSilentLoss` | same, and `FormulasAssumption` |
| `ErrorsHaveTheirReasons` | `ItemSelection_proofs` | `Spec => []ErrorsAreExplained` | same |

`TypeOK` of these modules is in no run: it only serves the proofs.

The arguments.

* *Types of the protocol.*  `TypeInv` adds to `TypeOK` what types the contents of
  the pipes in every control point.  It is split by the process that acts;
  each half has one lemma per action.
* *Pairing.*  Requests carry no identifier, so that an answer is matched to a
  request only by the state of the two programs.  `Pairing` states, for each value of
  `awaiting`, where the request is: in `fromEngine` as its last message, in the
  hands of cargo-hax, or already answered, with the answer as the only message
  of `toEngine` after the options.  `RequestOutstanding` alone is not inductive: it
  does not say that nothing follows the request in the pipe.
* *Delivery.*  That a normal return is complete depends on what is still in the pipe
  at any moment, since either process may be killed there.  `DInv` adds to the types
  `Front` (cargo-hax has acted on the first `Handled` outputs of the engine, in
  order), `Pipe` (the pipe holds messages that are not outputs, then the outputs not
  acted on yet, then at most a line that a kill cut short), `Records` (the error flag,
  the files and the dry-run output agree with what was acted on), `Ends` (what the
  end of each program says about the other) and `Counts`.  There is one lemma per
  action, and a few on sequences: what `Results` is at each index, what reading
  removes from the front of the pipe and writing adds to its end.
* *Refinement.*  The outputs of the abstract session are the list the engine computes
  before it writes the first; they are delivered when cargo-hax acts on them.  The
  first `Emit` maps to the computation, the handlers of diagnostics, files and the
  debug string to a delivery, `Wait` for an engine that exited well to the return, all
  that ends cargo-hax otherwise (a handler that panics, perhaps after its output was
  delivered, a failed write, a kill) to a failure, and the other steps to none.  `DInv`
  gives the guards of the abstract steps.
* *Hints.*  `IInv` is the conjunction of `Backwards` (how `owner_id_list` and the
  items imported so far correspond), `ItemHints` (each AST item has the id of the
  item being imported when it was made) and `References` (what the stack keeps,
  so that a hint that was not put back is one of a failed item).
* *Reports.*  `RInv` adds where the errors are: while an item is imported they are in
  the captured state and about this item (`OwnReports`); they wait with it until the
  selection, so that an error node made before has one (`FailuresWait`); then they are
  in the list to report, which names selected items only (`Reported`).  The list is
  made from sets, so that the proof needs that they are finite.
* *Cache.*  `IInv` is `TargetTypes`, `Recorded` (what cargo has recorded of a
  crate fits the haxmeta file, or the crate is being rebuilt) and `Progress`
  (what a driver has done at each of its steps).  The interesting part is that a
  file may be emptied by a second build while an entry about it stands; such an
  entry is not fresh any more.
* *Invocations.*  `CInv` adds to `IInv`, for each invocation, `Files`, `Loop` and
  `Ended`.  In its build, the files it heard of are its own and have contents once
  the compiler runs (`Named`); afterwards they are its own or those of a build that
  overtook it (`Readied`), and whoever holds the lock has overtaken everyone who
  reads.  The first follows from `Recorded` when a unit is fresh and from `Progress`
  when it is not; the second holds since a file is only rewritten under the lock.
  `Loop` says that without an error the files behind `next` are the crates
  translated, and `Ended` carries that over to the exit status.
* *Library.*  The four properties hold one another up: that a proved program does not
  panic needs that its values are those of the reading, and that its values are in
  bounds needs that those of the reading are.  `IInv` is `TypeOK`, safety of both
  builds, `ProvedIsFaithful`, `ReleaseAgrees` and that the reading is in bounds
  (`ReadingIsInBounds`); each action has one lemma, and the
  lemmas share what an assignment of one register does to the invariant
  (`SetsX`, `SetsN`, `SetsInt`, `SetsP`, `SetsNothing`).  The arithmetic that is
  used is that wrapping, and division or remainder by another number than zero, stay in the
  base type (`WrapType`, `ExactType`).
* *Calls of `sinto`.*  Between the lookup in a cache and the store, any number of other
  values are translated.  `StackShape` says what they can be: each call is of a part of
  the value of the one below it, and a part has a lower rank than the whole, which is
  the assumption that types and definitions are not infinite.  So no call above fills
  the cache a call below found empty, and `CacheIsTable` (a definition of the table
  is in its cache, one that is being translated is not) is kept when the node is
  made.  That the parts of a node come first is not inductive either: `PartsAreKnown`
  says where each part of a value is while it is translated (still to do, on the next
  frame, or among the ids collected), and `IdsExist` that ids are used after their nodes
  are made.
* *Bodies.*  `BodiesInOrder` relates the bodies still to come with those that took
  one: the list is sorted by level, so that a thief is never of a higher level than what
  follows it.  That none is missing when it is asked for (`TasksAreKnown`) needs that
  the two filters agree: a body the list leaves out is one that no item, no body and no
  constant of a definition leads to.
* *The file.*  `FileIsTable`: the pairs are written in the order of their ids, and what
  was read is a prefix of the table; so each reference of the next pair is in it.
* *Implementations.*  The cache they are listed from grows while the listed ones are
  translated.  `ImplsAreListed` has a number `n` that is the next id at the time of the
  listing: every implementation with a smaller id is listed or done, and the items
  refer to smaller ids only.  What is reached from there has smaller ids still.
* *Calls of trait resolution.*  What a call does when the one above it returns depends
  on why it called.  `CallsAreOrdered` says, for each call of the stack, what it looks
  for, what it has found and collected (`IsCall`), and that the target of the next
  one is what it waits for (`IsCallee`); so that a candidate handed down is one for the
  predicate that was asked for, and the answers collected are about the first of the
  predicates required, in their order.
* *Answers.*  `AnswersAreProofs` is about what is in the tables.  `IInv` adds that it
  holds of what is on its way there: the candidates still to insert (`ArePending`),
  whose predicates are not normalised yet, those that calls have found, and the
  answers they have collected.  A new candidate is one in the table with one more
  chunk, and the prefix of a path that leads somewhere still leads there.  Candidates
  are only ever added, and a call keeps the one it was given, so that nothing a nested
  call adds can spoil it.  That numbers name clauses (`IsNumbered`) is an induction
  from the outermost item inwards: `acc_predicates` and the list of clauses in scope
  recur along `Parent`, which ends because `Depth` decreases (`UpwardInduction` and
  `UpwardRecursion` of `DataLemmas`).  Nothing is assumed of `Select` and `NormTy`.
* *What is found.*  `ParamIsFound` says that no answer is missing.  It needs to know what rustc
  means by a source that is a parameter: `ParamAssumption` says that such a
  predicate is implied by the clauses in scope, or by the bounds of an associated type
  whose trait is, through as many types as it takes (`GivenByClauses`); TLC checks it of
  the rules in `TraitSelection`.  The invariant `PInv` calls a predicate
  `Coming` when it is a candidate or still to be inserted.  What is coming only grows;
  the clauses in scope are, after the first use of the searcher, and what a candidate implies is
  (`IsComplete`).  When a call looks something up nothing is being inserted, so that the
  candidates are closed under implication (`ElaboratedFacts`, an induction over the rounds
  of the elaboration).  A call that does not find its predicate at once is thus about
  an associated type (`GivenFacts`); the call for its trait finds a
  candidate, by the same invariant one frame higher (`IsThorough`), and when the bounds it
  brings are in, the predicate is.
* *Companions.*  `IInv` follows an item from the macros to the backend.  While macros
  are expanded, `Sound` holds of the items: `Shape` in any build, `NoTrace` where
  nothing is translated (the attributes are macros still to remove, `refine` or
  comments, and what macros made belongs to a refinement type), `Companions` where a
  package is translated (whatever the user did not write has a uid that was drawn and
  is, attributes included, one of the companions of `IsCompanion`).  Import, selection and phases
  need only the first status among the attributes of an item and of those around it: it is a
  late skip, or an exclusion for the implementations of a refinement type (`Hidden`,
  once per stage).  What selects the items is not looked into: it only removes some.
* *Contracts.*  A macro runs when those of the items around it have run, and `attributes` rewrites
  all the items inside its own, so that a formula changes its place several times.
  `Places` are where the formulas of an item and a role are at the moment: attributes of
  the user, `impl_fn_decoration`, associated uids, and the output of a lemma.
  `Attached` says that they correspond one to one to what was written, and that no
  two of them, on any items, have the same uid.  A step is shown to keep this by giving the
  function that leads from the places after it to those before (`Carried`), the same for
  every macro: positions move by one or two (`Mark`, `Lemma`), or by those that a flattening
  drops (`Attributes`), and uids that are new come from `Order`, which numbers the
  places that draw one.  That a lemma keeps its proof until its macro is expanded is
  part of it, since nothing but the output then holds the formula.
* *Formulas.*  `FormulaFits` compares what a companion takes with what its formula names.
  The formula was written on an item of the source, so that `NamesAssumption`
  bounds its names by the inputs written there.  `Fitting` carries this to the
  macro that uses it: `Sourced` (each attribute with a formula is one the user wrote, or an
  `impl_fn_decoration` made of one), `Framed` (the inputs of an item are those written, and so is
  its output, but for a lemma's).  What is made is then closed, since `RewriteSelf` renames
  `self` alike in inputs, names and futures (`NamesKept`) and keeps which
  inputs are `&mut` (`SameMuts`); it stays so, since no macro changes a
  companion that is a function.  `PostFits` relates the last input of a postcondition to the
  source; when no macro is left, the output of a lemma is gone and it is what the engine
  gives back.
* *Selection.*  The list is what was imported under the clauses given (`Staged`, below); the
  argument is about one step.  Both passes and the
  documentation are followed side by side, clause after clause (`SideBySideHolds`).  The
  graph of a pass is that of the source less what bodies mention: what a clause or `opaque`
  erases, and what the first pass drops, removes edges only (`Graphs`), so that each pass reaches
  no more than the one before.  Nothing is missing since what is documented is kept by the first pass
  (`IncludedIsKept`), which drops no body that the second still has to go
  through (`NotDropped`, `DependenciesAreReached`).  Nothing is extra since the body of what a `+~`
  reaches is dropped for good (`StaysDropped`), so that what the second pass reaches behind it is
  reached by signatures alone (`ShallowReaches`).  That as many rounds as there are items close a
  set is `ReachedIsClosed`.
* *Quotes and formulas.*  `Staged` says what the list is at each stage: what was imported, those
  items that the clauses and the statuses keep, what the phases make of these, and last
  what is found on them.  That no quote or companion is forgotten is about the two passes:
  `Complete` says of an item of the source that is kept that what its attributes
  associate is kept as well, and what those of its parts do unless a `+!` or a `+:` matches the
  item (`Excused`).  It holds since what is associated is among the dependencies, whose
  edges for attributes no pass removes (`PassBrings`), and a companion's own status is never
  an exclusion.  A uid leads back to one item (`Known`, `UidFacts`: only the companion
  has `Uid`, and import adds no such attribute to what it encloses), so that a quote in the list
  has one parent, whose position it takes (`QuotedBy`).  What a site finds is the body of the
  companion as the macros wrote it, which `NeverErased` keeps (`ContractKept`); that of a
  refinement has no such mark, and is dropped only if a `+:` matches a companion, whose
  name no user knows, or if something that encloses it is erased (`RefinementKept`).  The latter
  needs that a companion is enclosed by what encloses the item it was made of (`Beside`,
  `AboveFacts`): the struct would be erased as well, and have no fields to look at.
  That what is written is looked up wherever the backend reads at all is `ReadWhereWritten`: the
  invariant keeps the kinds of items, that contracts are on functions and refinements on fields, and
  that a refinement type is marked `NewtypeAsRefinement` once its macro is gone
  (`NewtypeMarked`, from `Newtyped` in `Framed`).
* *Induction over data.*  The list filters, the chain of parents and `Reached` are
  recursive functions.  The theorems of the library on these take an operator as a
  parameter.  `DataLemmas` has the same with a set in the place of the property
  (`IntervalInduction`) and a function in the place of the step (`RecursionExists`), from
  the well-foundedness of the natural numbers; each of the functions has lemmas by
  these (`AmongDef` and `WithParentsFacts`, for instance).

Only model-checked:

* liveness and the fairness part of `ImplementsSession`, out of the prover's reach;
* what `Constants`, `Mir`, `Thir`, `HaxAst`, `HaxMeaning`,
  `SideEffects`, `LocalMutation`, `ControlFlow` and `FStarPhases` state: their operators
  recur over types, values and expressions and are declared RECURSIVE, which takes the
  SMT backend away from a module; written as recursive functions they could be
  treated through `DataLemmas`.

## 6. Not modelled

The components with status `not_modelled` in `PROJECT.json` give the reason, and the
notes of the others say what of them is left out.  In short:

* printers and their layout, source maps (text);
* concrete identifiers and fresh names, planned (section 7);
* the phases about references and places: rewritings of one expression each,
  typed by OCaml;
* HIR items, the fields of types and of full definitions, and the parts of MIR that
  `Mir` leaves out: copies, field by field, of what rustc has, which mean what it
  means and whose only control is the order in which the caches are asked
  (`Exporter`);
* generated schemas and instances of `ppx`, the debugger's web application, the
  JavaScript build;
* rustc and cargo (external), and the proof libraries (what the output is
  linked with, not part of the translator), examples and tests.

## 7. Plan

In this order, each with its run:

1. `ConcreteIdent`: names that are moved, renamed and made fresh stay distinct;
2. full definitions, with what they ask of the caches, and MIR bodies in `Exporter`: which
   query steals which body;
3. the phases about references and places, and `?`, in front of those of
   `FStarPhases`; closures; `Cf_into_monads` of the other backends;
4. `Bundle_cycles` and `Sort_items`: the order of items and mutual recursion.

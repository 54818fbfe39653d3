------------------------------ MODULE PatchEngine ------------------------------
(***************************************************************************)
(* The governed edits of patch/ and of RunService.propose_patch and         *)
(* apply_patch.  A proposal is a diff computed from the files as they are;  *)
(* an apply computes it again, compares, and only then lets the engine      *)
(* write.  The lock of the repository serialises applies, but nothing that  *)
(* else changes the files (an agent, an editor, git) takes it, so the files  *)
(* and the analyzer's index may change between any two steps.               *)
(*                                                                         *)
(* A file is the sequence of its lines, each with or without a carriage     *)
(* return in front of its line feed; a text is what Python reads of one.    *)
(* A symbol is one line long and the hash of a region is the region.        *)
(* A diff is a set of hunks, one per file.                                  *)
(* The hashes of ids are distinct unless their diffs are equal.             *)
(***************************************************************************)
EXTENDS Integers, SequencesExt

CONSTANTS
    Files,
    Lines,
    Edits,        \* what another program may make of a file
    InitialTree,  \* the files at the start, and at HEAD
    Definitions,  \* the lines that define the symbol
    Requests,     \* what agents ask for: see RequestType
    Scope,        \* related files and tests of the compiled context
    Callers,      \* threads that call propose_patch and apply_patch
    NearLines,    \* lines of context in a diff
    MaxChanges,   \* bound on the edits by other programs
    MaxPatches,   \* bound on the proposals stored and under way
    None

Text == Seq(Lines)
File == Seq([line : Lines, cr : BOOLEAN])
RequestType ==
    [operation : {"replace_symbol"}, expected : Lines \cup {None}, replacement : Text]
        \cup [operation : {"rewrite"}, pattern : Lines, rewrite : Lines]

Places == [file : Files, line : Nat \ {0}]

ASSUME FilesAssumption == Edits \subseteq File /\ InitialTree \in [Files -> File]
ASSUME RequestsAssumption == Requests \subseteq RequestType
ASSUME ScopeAssumption == Scope \subseteq Files
ASSUME BoundsAssumption == {NearLines, MaxChanges, MaxPatches} \subseteq Nat
ASSUME NoneAssumption == None \notin Lines \cup Callers \cup Requests \cup Places

VARIABLES
    tree,      \* the files
    index,     \* where the analyzer last saw the symbol: a file and a line, or None
    patches,   \* telemetry.patches
    modified,  \* files_modified of the run
    acked,     \* paths whose scope expansion is acknowledged
    lock,      \* the caller that holds the lock, or None
    call,      \* what each caller is doing
    changes    \* edits by other programs so far

vars == <<tree, index, patches, modified, acked, lock, call, changes>>

-----------------------------------------------------------------------------
\* Texts and diffs.

\* read_text translates newlines to line feeds, and so does the pipe from ast-grep;
\* write_text leaves line feeds as they are (fcntl: this is no Windows).
Read(file) == [i \in DOMAIN file |-> file[i].line]
Written(text) == [i \in DOMAIN text |-> [line |-> text[i], cr |-> FALSE]]

Least(a, b) == IF a <= b THEN a ELSE b

\* lines[:start - 1] + replacement + lines[end:], with Python's clamping.
Spliced(text, line, replacement) ==
    SubSeq(text, 1, Least(line - 1, Len(text))) \o replacement
        \o SubSeq(text, line + 1, Len(text))

\* ast-grep replaces what matches and leaves the newlines alone.
Rewritten(file, request) ==
    [i \in DOMAIN file |->
        [file[i] EXCEPT !.line = IF @ = request.pattern THEN request.rewrite ELSE @]]

\* How many lines two texts have in common at their start.
Common(old, new) ==
    Cardinality({n \in 1..Least(Len(old), Len(new)) : SubSeq(old, 1, n) = SubSeq(new, 1, n)})

\* unified_diff: the lines that differ and the lines near them, with the number
\* of the first.
Hunk(f, old, new) ==
    LET before == Common(old, new)
        rest == Common(Reverse(SubSeq(old, before + 1, Len(old))),
                       Reverse(SubSeq(new, before + 1, Len(new))))
        from == IF before > NearLines THEN before - NearLines ELSE 0
        after == IF rest > NearLines THEN rest - NearLines ELSE 0
    IN  [file |-> f, at |-> from,
         old |-> SubSeq(old, from + 1, Len(old) - after),
         new |-> SubSeq(new, from + 1, Len(new) - after)]

Diff(f, old, new) == IF old = new THEN {} ELSE {Hunk(f, old, new)}
FilesOf(diff) == {h.file : h \in diff}

\* What ast-grep shows for a rewrite of one file, and of every file.  It looks at
\* the working directory of the process, which is taken to be the repository.
Shows(f, file, request) == Diff(f, Read(file), Read(Rewritten(file, request)))
Preview(request) == UNION {Shows(f, tree[f], request) : f \in Files}

\* capture_fingerprint answers for the worktree, or not at all; where a diff fails,
\* the worktree looks like HEAD, which nobody moves here.
Fingerprints == {tree, InitialTree, None}

\* _patch_id: the hash of the diff, hashed again as long as it is taken: once for
\* every id there is of the same diff.
TakenIds == {p.id : p \in ToSet(patches)}
PatchId(diff) == [of |-> diff, again |-> Cardinality({id \in TakenIds : id.of = diff})]

\* _patch: an id means the first record that has it.
IsTarget(i) == \A j \in 1..(i - 1) : patches[j].id # patches[i].id

-----------------------------------------------------------------------------
\* moved: whether files or index changed under an apply: "no", "before" the
\* engine looked for its target, or "within" the steps from there to the write.
Idle == [pc |-> "idle", mode |-> "none", request |-> None, slot |-> 0,
         at |-> None, text |-> << >>, diff |-> {}, print |-> None, id |-> None,
         todo |-> {}, wrote |-> {}, moved |-> "no"]

Init ==
    /\ tree = InitialTree
    /\ index = None
    /\ patches = << >>
    /\ modified = {}
    /\ acked = {}
    /\ lock = None
    /\ call = [c \in Callers |-> Idle]
    /\ changes = 0

\* The next step of a call, and its end, which releases the lock.
Goes(c, next) == call' = [call EXCEPT ![c] = next]
Ends(c) ==
    /\ call' = [call EXCEPT ![c] = Idle]
    /\ lock' = IF lock = c THEN None ELSE lock

Proposing == {c \in Callers : call[c].mode = "propose"}

\* propose_patch: no lock is held until the proposal is stored.
ProposePatch(c, request) ==
    /\ call[c].pc = "idle"
    /\ Len(patches) + Cardinality(Proposing) < MaxPatches
    /\ Goes(c, [Idle EXCEPT !.pc = "locate", !.mode = "propose", !.request = request])
    /\ UNCHANGED <<tree, index, patches, modified, acked, lock, changes>>

\* The patch a call applies: the record it loaded, which the lock keeps as it is.
Patch(c) == patches[call[c].slot]

\* Mutant: the record is read before the lock is asked for.
ApplyPatchUnlocked(c, i) ==
    /\ call[c].pc = "idle"
    /\ IsTarget(i)
    /\ patches[i].status = "proposed"
    /\ lock' = c
    /\ Goes(c, [Idle EXCEPT !.pc = "locate", !.mode = "check", !.slot = i,
                            !.request = patches[i].request])
    /\ UNCHANGED <<tree, index, patches, modified, acked, changes>>

\* apply_patch, up to the check that the patch is still proposed.
ApplyPatch(c, i) ==
    /\ call[c].pc = "idle"
    /\ lock = None
    /\ IsTarget(i)
    /\ patches[i].status = "proposed"
    /\ lock' = c
    /\ Goes(c, [Idle EXCEPT !.pc = "locate", !.mode = "check", !.slot = i,
                            !.request = patches[i].request])
    /\ UNCHANGED <<tree, index, patches, modified, acked, changes>>

\* The engine's dry run starts over when it applies: whatever moved is before it.
Looked(c) == IF call[c].mode = "write" /\ call[c].moved # "no" THEN "before" ELSE call[c].moved

\* Mutant: the expected hash is recorded and not compared.
FoundAnyText(request) == index # None /\ index.line <= Len(tree[index.file])

\* _validated_target: the analyzer names a place, and the text found there has to
\* be the expected one if the request says which.
Found(request) ==
    /\ index # None
    /\ index.line <= Len(tree[index.file])
    /\ request.expected # None => tree[index.file][index.line].line = request.expected

LocateTarget(c) ==
    /\ call[c].pc = "locate"
    /\ call[c].request.operation = "replace_symbol"
    /\ IF Found(call[c].request)
       THEN /\ Goes(c, [call[c] EXCEPT !.pc = "splice", !.at = index, !.moved = Looked(c)])
            /\ UNCHANGED lock
       ELSE Ends(c)
    /\ UNCHANGED <<tree, index, patches, modified, acked, changes>>

\* _spliced_text reads the file anew.  The dry run within the engine's apply ends
\* in a diff that nobody reads; the splice that follows it is the one written.
SpliceText(c) ==
    /\ call[c].pc = "splice"
    /\ Goes(c, [call[c] EXCEPT
            !.pc = IF call[c].mode = "write" THEN "truncate" ELSE "diff",
            !.text = Spliced(Read(tree[call[c].at.file]), call[c].at.line,
                             call[c].request.replacement)])
    /\ UNCHANGED <<tree, index, patches, modified, acked, lock, changes>>

\* The dry run ends: a proposal has to change something.
Derived(c, diff) ==
    IF call[c].mode = "propose" /\ diff = {}
    THEN Ends(c)
    ELSE /\ Goes(c, [call[c] EXCEPT !.diff = diff, !.at = None, !.text = << >>,
                 !.pc = IF call[c].request.operation = "rewrite" THEN "fingerprint"
                        ELSE IF call[c].mode = "propose" THEN "draw" ELSE "compare"])
         /\ UNCHANGED lock

\* _diff_for: the third read of the file.
DiffText(c) ==
    /\ call[c].pc = "diff"
    /\ LET f == call[c].at.file IN Derived(c, Diff(f, Read(tree[f]), call[c].text))
    /\ UNCHANGED <<tree, index, patches, modified, acked, changes>>

\* The dry run of a rewrite.  In the engine's apply its result is not used.
PreviewRewrite(c) ==
    /\ call[c].pc = "locate"
    /\ call[c].request.operation = "rewrite"
    /\ IF call[c].mode = "write"
       THEN /\ Goes(c, [call[c] EXCEPT !.pc = "rewrite", !.todo = Files, !.moved = Looked(c)])
            /\ UNCHANGED lock
       ELSE Derived(c, Preview(call[c].request))
    /\ UNCHANGED <<tree, index, patches, modified, acked, changes>>

\* Taken after the dry run; compared, when both are there, before the diffs are.
CaptureFingerprint(c, print) ==
    /\ call[c].pc = "fingerprint"
    /\ print \in Fingerprints
    /\ IF call[c].mode = "propose"
       THEN Goes(c, [call[c] EXCEPT !.pc = "draw", !.print = print]) /\ UNCHANGED lock
       ELSE IF None \notin {print, Patch(c).print} /\ print # Patch(c).print
       THEN Ends(c)
       ELSE Goes(c, [call[c] EXCEPT !.pc = "compare"]) /\ UNCHANGED lock
    /\ UNCHANGED <<tree, index, patches, modified, acked, changes>>

\* The id is drawn from a record read without the lock, then the proposal stored.
DrawId(c) ==
    /\ call[c].pc = "draw"
    /\ Goes(c, [call[c] EXCEPT !.pc = "store", !.id = PatchId(call[c].diff)])
    /\ UNCHANGED <<tree, index, patches, modified, acked, lock, changes>>

StoreProposal(c) ==
    /\ call[c].pc = "store"
    /\ lock = None
    /\ patches' = Append(patches, [id |-> call[c].id, request |-> call[c].request,
                                   diff |-> call[c].diff, print |-> call[c].print,
                                   status |-> "proposed"])
    /\ Goes(c, Idle)
    /\ UNCHANGED <<tree, index, modified, acked, lock, changes>>

\* Mutant: one file in scope is enough.
UnacknowledgedUnlessSome(files) == IF files \cap Scope # {} THEN {} ELSE files \ acked

\* _scope_violations, less what was acknowledged.
Unacknowledged(files) == (files \ Scope) \ acked

\* Mutant: only the files of the two diffs are compared.
CompareFiles(c) ==
    /\ call[c].pc = "compare"
    /\ IF FilesOf(call[c].diff) = FilesOf(Patch(c).diff)
          /\ Unacknowledged(FilesOf(call[c].diff)) = {}
       THEN /\ Goes(c, [call[c] EXCEPT !.pc = "locate", !.mode = "write"])
            /\ UNCHANGED lock
       ELSE Ends(c)
    /\ UNCHANGED <<tree, index, patches, modified, acked, changes>>

\* The diff must be the proposed one, its files in scope or acknowledged.
Compare(c) ==
    /\ call[c].pc = "compare"
    /\ IF call[c].diff = Patch(c).diff /\ Unacknowledged(FilesOf(call[c].diff)) = {}
       THEN /\ Goes(c, [call[c] EXCEPT !.pc = "locate", !.mode = "write"])
            /\ UNCHANGED lock
       ELSE Ends(c)
    /\ UNCHANGED <<tree, index, patches, modified, acked, changes>>

\* write_text opens the file, which empties it, and then writes.
TruncateFile(c) ==
    /\ call[c].pc = "truncate"
    /\ tree' = [tree EXCEPT ![call[c].at.file] = << >>]
    /\ Goes(c, [call[c] EXCEPT !.pc = "fill"])
    /\ UNCHANGED <<index, patches, modified, acked, lock, changes>>

FillFile(c) ==
    /\ call[c].pc = "fill"
    /\ tree' = [tree EXCEPT ![call[c].at.file] = Written(call[c].text)]
    /\ Goes(c, [call[c] EXCEPT !.pc = "save", !.wrote = {call[c].at.file}])
    /\ UNCHANGED <<index, patches, modified, acked, lock, changes>>

\* Mutant: the exit status is ignored, so the run may have stopped after any file.
RewriteFileOrStop(c, f) ==
    /\ call[c].pc = "rewrite"
    /\ f \in call[c].todo
    /\ LET new == Rewritten(tree[f], call[c].request)
       IN  /\ tree' = [tree EXCEPT ![f] = new]
           /\ \E pc \in {"save", "rewrite"} :
                  Goes(c, [call[c] EXCEPT
                      !.todo = @ \ {f},
                      !.pc = IF call[c].todo = {f} THEN "save" ELSE pc,
                      !.wrote = IF new = tree[f] THEN @ ELSE @ \cup {f}])
    /\ UNCHANGED <<index, patches, modified, acked, lock, changes>>

\* ast-grep -U rewrites one file after the other, as it finds them.
RewriteFile(c, f) ==
    /\ call[c].pc = "rewrite"
    /\ f \in call[c].todo
    /\ LET new == Rewritten(tree[f], call[c].request)
       IN  /\ tree' = [tree EXCEPT ![f] = new]
           /\ Goes(c, [call[c] EXCEPT
                   !.todo = @ \ {f},
                   !.pc = IF call[c].todo = {f} THEN "save" ELSE "rewrite",
                   !.wrote = IF new = tree[f] THEN @ ELSE @ \cup {f}])
    /\ UNCHANGED <<index, patches, modified, acked, lock, changes>>

\* The patch and the files of the diff compared go on record, and the lock is released.
SavePatch(c) ==
    /\ call[c].pc = "save"
    /\ patches' = Append(RemoveAt(patches, call[c].slot), [Patch(c) EXCEPT !.status = "applied"])
    /\ modified' = modified \cup FilesOf(call[c].diff)
    /\ Ends(c)
    /\ UNCHANGED <<tree, index, acked, changes>>

\* The process dies, or git, the analyzer, ast-grep, the disk or the store fails
\* and the error leaves the call: the lock is released, what was written stays.
Stop(c) ==
    /\ call[c].pc # "idle"
    /\ Ends(c)
    /\ UNCHANGED <<tree, index, patches, modified, acked, changes>>

Acknowledge(f) ==
    /\ lock = None
    /\ acked' = acked \cup {f}
    /\ UNCHANGED <<tree, index, patches, modified, lock, call, changes>>

-----------------------------------------------------------------------------
\* What nobody asks the lock for.
Moved == [c \in Callers |->
             IF lock = c THEN [call[c] EXCEPT !.moved = "within"] ELSE call[c]]

Edit(f, file) ==
    /\ changes < MaxChanges
    /\ changes' = changes + 1
    /\ tree' = [tree EXCEPT ![f] = file]
    /\ call' = Moved
    /\ UNCHANGED <<index, patches, modified, acked, lock>>

\* The analyzer indexes the files; a symbol with several definitions is any of them.
Sightings == {[file |-> f, line |-> i] : f \in Files, i \in UNION {DOMAIN tree[g] : g \in Files}}
Defined == {s \in Sightings : s.line \in DOMAIN tree[s.file] /\ tree[s.file][s.line].line \in Definitions}

Reindex(place) ==
    /\ place \in Defined \/ (Defined = {} /\ place = None)
    /\ place # index
    /\ index' = place
    /\ call' = Moved
    /\ UNCHANGED <<tree, patches, modified, acked, lock, changes>>

Step(c) ==
    \/ \E request \in Requests : ProposePatch(c, request)
    \/ \E i \in DOMAIN patches : ApplyPatch(c, i)
    \/ LocateTarget(c)
    \/ SpliceText(c)
    \/ DiffText(c)
    \/ PreviewRewrite(c)
    \/ \E print \in Fingerprints : CaptureFingerprint(c, print)
    \/ DrawId(c)
    \/ StoreProposal(c)
    \/ Compare(c)
    \/ TruncateFile(c)
    \/ FillFile(c)
    \/ \E f \in Files : RewriteFile(c, f)
    \/ SavePatch(c)
    \/ Stop(c)

Next ==
    \/ \E c \in Callers : Step(c)
    \/ \E f \in Files \ Scope : Acknowledge(f)
    \/ \E f \in Files, file \in Edits : Edit(f, file)
    \/ \E place \in Defined \cup {None} : Reindex(place)

Spec == Init /\ [][Next]_vars

-----------------------------------------------------------------------------
Hunks == [file : Files, at : Nat, old : Text, new : Text]
Ids == [of : SUBSET Hunks, again : Nat]
Trees == [Files -> File]
Patches == [id : Ids, request : Requests, diff : SUBSET Hunks, print : Trees \cup {None},
            status : {"proposed", "applied"}]
Calls ==
    [pc : {"idle", "locate", "splice", "diff", "fingerprint", "draw", "store", "compare",
           "truncate", "fill", "rewrite", "save"},
     mode : {"none", "propose", "check", "write"},
     request : Requests \cup {None}, slot : Nat, at : Places \cup {None},
     text : Text, diff : SUBSET Hunks, print : Trees \cup {None}, id : Ids \cup {None},
     todo : SUBSET Files, wrote : SUBSET Files, moved : {"no", "before", "within"}]

\* Types.  A call works from its patch, and writes, only while it holds the lock.
TypeOK ==
    /\ tree \in Trees
    /\ index \in Places \cup {None}
    /\ patches \in Seq(Patches)
    /\ modified \subseteq Files
    /\ acked \subseteq Files
    /\ lock \in Callers \cup {None}
    /\ call \in [Callers -> Calls]
    /\ changes \in Nat
    /\ \A c \in Callers :
           /\ lock = c <=> call[c].mode \in {"check", "write"}
           /\ lock = c => call[c].slot \in DOMAIN patches
           /\ call[c].pc \in {"truncate", "fill", "rewrite", "save"} => call[c].mode = "write"

\* What the step of c makes of the files: each with what it holds at that moment
\* and what it is to hold.
Writes(c) ==
    IF call[c].pc = "truncate" /\ call'[c].pc = "fill"
    THEN LET f == call[c].at.file
         IN  {[file |-> f, old |-> tree[f], new |-> Written(call[c].text)]}
    ELSE IF call[c].pc = "rewrite" /\ call'[c].todo # call[c].todo /\ call'[c].pc # "idle"
    THEN {[file |-> f, old |-> tree[f], new |-> tree'[f]] : f \in Files}
    ELSE {}

HasReturns(file) == \E i \in DOMAIN file : file[i].cr

\* A hunk of files, as a diff of their texts has it.
Shown(h) == [h EXCEPT !.old = Read(@), !.new = Read(@)]

\* apply_patch: "so apply can guarantee it applies exactly what was previewed".  It
\* does if nothing moves while the patch is applied, whatever happened between the
\* proposal and the apply: edits, stale locations, other patches, an apply that
\* stopped half-way.  The files are read again after the comparison, so an edit
\* in those steps is overwritten, or rewritten, unseen.  Of a file with carriage
\* returns it holds for the text only: a splice takes all of them away, and the
\* diff, which is one of texts, shows none of that.  Any other byte that changes
\* is in a hunk of the diff.
ExactUnlessMoved ==
    [][\A c \in Callers : call[c].moved = "no" =>
           \A w \in Writes(c) :
               /\ Diff(w.file, Read(w.old), Read(w.new)) \subseteq Patch(c).diff
               /\ \/ call[c].pc = "truncate" /\ HasReturns(w.old)
                  \/ {Shown(h) : h \in Diff(w.file, w.old, w.new)} \subseteq Patch(c).diff]_vars

\* Then no byte changes of a file that is neither in scope nor acknowledged.
ScopeUnlessMoved ==
    [][\A c \in Callers : call[c].moved = "no" =>
           \A w \in Writes(c) : w.new # w.old => w.file \in Scope \cup acked]_vars

\* And the files that go on record are those the engine changed.
RecordedUnlessMoved ==
    [][\A c \in Callers :
           call[c].moved = "no" /\ call[c].pc = "save" /\ patches' # patches =>
               /\ call[c].wrote = {h.file : h \in Patch(c).diff}
               /\ call[c].wrote \subseteq modified']_vars

\* The line an agent inspected is the line that is replaced, also when files
\* changed up to the moment the engine looked for it the last time.
HashGuards ==
    [][\A c \in Callers :
           /\ call[c].pc = "truncate" /\ call'[c].pc = "fill"
           /\ call[c].moved # "within"
           /\ call[c].request.expected # None
           => LET place == call[c].at
              IN  tree[place.file][place.line].line = call[c].request.expected]_vars
=============================================================================

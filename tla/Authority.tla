-------------------------------- MODULE Authority --------------------------------
(****************************************************************************)
(* `xtask vendor` and `xtask amendment`: the vendored authority, its digest    *)
(* manifests, the Lean literals that stand for it and an amendment recorded    *)
(* against it.  A command reads the files of the repository one after another, *)
(* and a developer may change any of them in between.  A digest is the thing   *)
(* it is the digest of: two texts never have the same.                        *)
(****************************************************************************)
EXTENDS PatchText, LeanNames

CONSTANTS
    Paths,        \* files a vendored tree can have, the two manifests apart
    Documents,    \* those under document/
    Labels,       \* lines that define a reStructuredText label
    Source,       \* the file the amendment is recorded against
    Commits,      \* commit names
    Modules,      \* Lean files
    Decl,         \* the declaration the amendment names
    Files0,       \* the vendored tree, the patch and the Lean files that are
    Patch0,       \*   committed
    Lean0,
    PatchEdits,   \* patches a developer may record instead
    MarkEdits,    \* lines a developer may add to a Lean file
    MaxEdits      \* bound on the changes a developer makes

Missing    == <<"missing">>
Unparsable == [path |-> "?", text |-> Missing]
NoLiterals == [manifest |-> <<>>, blobs |-> <<>>, count |-> 0, commit |-> "missing"]

Listing(path, text) == [path |-> path, text |-> text]
Readable(listings) == \A i \in DOMAIN listings : listings[i] # Unparsable

Texts == Seq(Lines)
RecordedPatches ==
    [effect : Effects, before : Texts, after : Texts, removed : Texts, inserted : Texts]

ASSUME AuthorityAssumption ==
    /\ IsFiniteSet(Paths) /\ "?" \notin Paths
    /\ Source \in Paths /\ Documents \subseteq Paths
    /\ Labels \subseteq Lines /\ "missing" \notin Lines
    /\ "missing" \notin Commits
    /\ Files0 \in [Paths -> Texts \cup {Missing}]
    /\ Patch0 \in RecordedPatches /\ PatchEdits \subseteq RecordedPatches
    /\ Lean0 \in [Modules -> Seq(LeanLines)] /\ MarkEdits \subseteq LeanLines
    /\ MaxEdits \in Nat

VARIABLES
    files,       \* Paths -> the text of the file, or Missing
    sums,        \* the lines of SHA256SUMS
    blobs,       \* the lines of BLOBS
    pinned,      \* PINNED-COMMIT
    literals,    \* Wasm/Revision.lean
    anchors,     \* the labels Wasm/Adequacy.lean cites
    amendment,   \* Wasm/AuthorityAmendments.lean
    registered,  \* spec-deviations.json: the two rows of the amendment or not
    lean,        \* Modules -> their lines
    edits,
    command,     \* the command that runs or ran last
    pc,          \* what it does next
    saw,         \* what it has read
    exit,
    quiet,       \* nothing has changed since it began
    certified,   \* what quiet passes of `vendor` have seen
    bound        \* what quiet passes of `amendment` have seen

vendored == <<files, sums, blobs, pinned>>
leanSide == <<literals, anchors, amendment, registered, lean>>
run      == <<command, pc, saw, exit>>
history  == <<certified, bound>>
vars     == <<vendored, leanSide, edits, run, quiet, history>>

Nothing == [sums |-> <<>>, hashed |-> <<>>, present |-> {}, literals |-> NoLiterals,
            blobs |-> <<>>, blobbed |-> <<>>, commit |-> "missing", anchors |-> {},
            amendment |-> [form |-> "unreadable"], registered |-> "unreadable",
            declaring |-> {}, source |-> Missing]

(* Every file of the tree, as SHA256SUMS and BLOBS are written.  BLOBS of the   *)
(* repository leaves PINNED-COMMIT out; here both list the same files.         *)
Manifest(tree) ==
    CHOOSE listings \in [1 .. Cardinality({p \in Paths : tree[p] # Missing}) ->
                            {Listing(p, tree[p]) : p \in {q \in Paths : tree[q] # Missing}}] :
        \A i, j \in DOMAIN listings : listings[i] = listings[j] => i = j

Literals(manifest, commit) ==
    [manifest |-> manifest, blobs |-> manifest, count |-> Len(manifest), commit |-> commit]

(* A committed tree, on which both commands pass.                             *)
Init ==
    /\ files = Files0
    /\ sums = Manifest(Files0)
    /\ blobs = Manifest(Files0)
    /\ pinned \in Commits
    /\ literals = Literals(Manifest(Files0), pinned)
    /\ anchors = Labels
    /\ amendment = [form |-> "canonical", patch |-> Patch0, digest |-> Files0[Source]]
    /\ registered = "rows"
    /\ lean = Lean0
    /\ edits = 0
    /\ command = "none"
    /\ pc = "done"
    /\ saw = Nothing
    /\ exit = "none"
    /\ quiet = FALSE
    /\ certified = {}
    /\ bound = {}

--------------------------------------------------------------------------------
(* The developer. *)

Disturb ==
    /\ edits < MaxEdits
    /\ edits' = edits + 1
    /\ quiet' = FALSE
    /\ UNCHANGED <<run, history>>

WithoutItem(s, i) == SubSeq(s, 1, i - 1) \o SubSeq(s, i + 1, Len(s))
WithItem(s, i, x) == SubSeq(s, 1, i - 1) \o <<x>> \o SubSeq(s, i, Len(s))

LineEdits(text, lines) ==
    {WithoutItem(text, i) : i \in 1 .. Len(text)}
        \cup {WithItem(text, i, x) : i \in 1 .. Len(text) + 1, x \in lines}

EditVendored ==
    /\ Disturb
    /\ \E p \in Paths :
           \E text \in IF files[p] = Missing THEN {<<>>}
                       ELSE LineEdits(files[p], Lines) \cup {Missing} :
               files' = [files EXCEPT ![p] = text]
    /\ UNCHANGED <<sums, blobs, pinned, leanSide>>

(* A manifest loses a line, has one twice, or ends in one that does not parse.  *)
ManifestEdits(listings) ==
    {WithoutItem(listings, i) : i \in 1 .. Len(listings)}
        \cup {Append(listings, listings[i]) : i \in 1 .. Len(listings)}
        \cup {Append(listings, Unparsable)}

EditManifest ==
    /\ Disturb
    /\ \/ sums' \in ManifestEdits(sums) /\ UNCHANGED blobs
       \/ blobs' \in ManifestEdits(blobs) /\ UNCHANGED sums
    /\ UNCHANGED <<files, pinned, leanSide>>

EditPin ==
    /\ Disturb
    /\ \/ pinned' \in Commits \cup {"missing"} /\ UNCHANGED literals
       \/ /\ \/ literals' = NoLiterals
             \/ literals' = [literals EXCEPT !.count = @ + 1]
             \/ \E c \in Commits : literals' = [literals EXCEPT !.commit = c]
          /\ UNCHANGED pinned
    /\ UNCHANGED <<files, sums, blobs, anchors, amendment, registered, lean>>

(* The authority is vendored anew: manifests and Lean literals from the files.  *)
Repin ==
    /\ Disturb
    /\ sums' = Manifest(files)
    /\ blobs' = Manifest(files)
    /\ literals' = Literals(Manifest(files), pinned)
    /\ amendment' = [amendment EXCEPT !.digest = files[Source]]
    /\ UNCHANGED <<files, pinned, anchors, registered, lean>>

EditAnchors ==
    /\ Disturb
    /\ anchors' \in {{}, anchors \cup (Lines \ Labels)}
    /\ UNCHANGED <<vendored, literals, amendment, registered, lean>>

EditAmendment ==
    /\ Disturb
    /\ \/ \E p \in PatchEdits : amendment' = [amendment EXCEPT !.patch = p]
       \/ \E f \in {"wrong", "unreadable"} : amendment' = [amendment EXCEPT !.form = f]
    /\ UNCHANGED <<vendored, literals, anchors, registered, lean>>

EditRegister ==
    /\ Disturb
    /\ registered' \in {"rows", "no rows", "unreadable"} \ {registered}
    /\ UNCHANGED <<vendored, literals, anchors, amendment, lean>>

EditLean ==
    /\ Disturb
    /\ \E m \in Modules : \E text \in LineEdits(lean[m], MarkEdits) :
           lean' = [lean EXCEPT ![m] = text]
    /\ UNCHANGED <<vendored, literals, anchors, amendment, registered>>

Edit == EditVendored \/ EditManifest \/ EditPin \/ Repin
            \/ EditAnchors \/ EditAmendment \/ EditRegister \/ EditLean

--------------------------------------------------------------------------------
(* One step of a command: it has read `seen` and goes on at `next`, or stops.   *)

Goes(next, seen) ==
    /\ pc' = next
    /\ saw' = seen
    /\ UNCHANGED <<vendored, leanSide, edits, command, exit, quiet, history>>

Stops(outcome, seen) ==
    /\ pc' = "done"
    /\ saw' = seen
    /\ exit' = outcome
    /\ UNCHANGED <<vendored, leanSide, edits, command, quiet>>

Breaks == Stops("error", saw) /\ UNCHANGED history

GoesIf(ok, next, seen) == IF ok THEN Goes(next, seen) ELSE Breaks

Start(c) ==
    /\ pc = "done"
    /\ command' = c
    /\ pc' = IF c = "vendor" THEN "sums" ELSE "records"
    /\ saw' = Nothing
    /\ exit' = "none"
    /\ quiet' = TRUE
    /\ UNCHANGED <<vendored, leanSide, edits, history>>

(* `xtask vendor`. *)

ReadSums == pc = "sums" /\ GoesIf(Readable(sums), "hash", [saw EXCEPT !.sums = sums])

HashListed ==
    LET next == Len(saw.hashed) + 1
    IN  /\ pc = "hash"
        /\ IF next > Len(saw.sums) THEN Goes("tree", saw)
           ELSE Goes("hash", [saw EXCEPT !.hashed = Append(@, files[saw.sums[next].path])])

(* Fault: the two manifests are not left out.                                 *)
EnumerateAll ==
    /\ pc = "tree"
    /\ GoesIf(saw.sums # <<>>, "revision",
              [saw EXCEPT !.present = {p \in Paths : files[p] # Missing} \cup {"SHA256SUMS", "BLOBS"}])

(* The directory; a manifest that lists nothing is an error.                   *)
Enumerate ==
    /\ pc = "tree"
    /\ GoesIf(saw.sums # <<>>, "revision",
              [saw EXCEPT !.present = {p \in Paths : files[p] # Missing}])

ReadRevision ==
    /\ pc = "revision"
    /\ GoesIf(literals # NoLiterals, "blobs", [saw EXCEPT !.literals = literals])

ReadBlobs ==
    /\ pc = "blobs"
    /\ GoesIf(Readable(blobs) /\ blobs # <<>>, "blob", [saw EXCEPT !.blobs = blobs])

HashBlob ==
    LET next == Len(saw.blobbed) + 1
    IN  /\ pc = "blob"
        /\ IF next > Len(saw.blobs) THEN Goes("commit", saw)
           ELSE Goes("blob", [saw EXCEPT !.blobbed = Append(@, files[saw.blobs[next].path])])

ReadCommit ==
    /\ pc = "commit"
    /\ GoesIf(pinned # "missing", "anchors", [saw EXCEPT !.commit = pinned])

ReadAnchors ==
    /\ pc = "anchors"
    /\ GoesIf(anchors # {}, "labels", [saw EXCEPT !.anchors = anchors])

Holds(listings, texts) == \A i \in DOMAIN listings : texts[i] = listings[i].text
Listed(listings) == {listings[i].path : i \in DOMAIN listings}

(* Fault: the manifest is checked against the tree, and not the tree against    *)
(* the manifest.                                                             *)
VendorCleanOneWay(s, labels) ==
    /\ Holds(s.sums, s.hashed)
    /\ Listed(s.sums) \subseteq s.present
    /\ s.literals.manifest = s.sums
    /\ s.literals.count = Len(s.sums)
    /\ Holds(s.blobs, s.blobbed)
    /\ s.literals.blobs = s.blobs
    /\ s.literals.commit = s.commit
    /\ s.anchors \subseteq labels

(* vendor::binding has no finding.                                           *)
VendorClean(s, labels) ==
    /\ Holds(s.sums, s.hashed)
    /\ Listed(s.sums) = s.present
    /\ s.literals.manifest = s.sums
    /\ s.literals.count = Len(s.sums)
    /\ Holds(s.blobs, s.blobbed)
    /\ s.literals.blobs = s.blobs
    /\ s.literals.commit = s.commit
    /\ s.anchors \subseteq labels

(* The labels the documents define, and the verdict.                          *)
ReadLabels ==
    LET labels == Labels \cap UNION {LinesOf(files[p]) : p \in Documents}
    IN  /\ pc = "labels"
        /\ Stops(IF VendorClean(saw, labels) THEN "pass" ELSE "fail", saw)
        /\ certified' = IF VendorClean(saw, labels) /\ quiet
                        THEN certified \cup {[literals |-> literals, files |-> files]}
                        ELSE certified
        /\ UNCHANGED bound

(* `xtask amendment`. *)

ReadRecords ==
    /\ pc = "records"
    /\ GoesIf(amendment.form # "unreadable", "pin", [saw EXCEPT !.amendment = amendment])

ReadPin ==
    /\ pc = "pin"
    /\ GoesIf(literals # NoLiterals, "pinned", [saw EXCEPT !.literals = literals])

ReadPinned ==
    /\ pc = "pinned"
    /\ GoesIf(pinned # "missing", "manifest", [saw EXCEPT !.commit = pinned])

ReadManifest == pc = "manifest" /\ Goes("register", [saw EXCEPT !.sums = sums])

ReadRegister ==
    /\ pc = "register"
    /\ GoesIf(registered # "unreadable", "names", [saw EXCEPT !.registered = registered])

ReadNames ==
    /\ pc = "names"
    /\ Goes("source", [saw EXCEPT !.declaring =
           UNION {{m} \X DeclaredAt(lean[m], Decl) : m \in Modules}])

ReadSource == pc = "source" /\ Goes("markers", [saw EXCEPT !.source = files[Source]])

(* The first line of SHA256SUMS for the source; lines that do not parse are     *)
(* passed over.                                                              *)
ManifestDigest(listings) ==
    LET found == {i \in DOMAIN listings : listings[i].path = Source}
    IN  IF found = {} THEN Missing
        ELSE listings[CHOOSE i \in found : \A j \in found : i <= j].text

(* Fault: the word of the manifest is taken for the digest of the file.        *)
SourcePinnedByManifest(s) ==
    /\ s.source # Missing
    /\ ManifestDigest(s.sums) = s.amendment.digest

(* The digest of an empty file is not compared.                               *)
SourcePinned(s) ==
    /\ s.source # Missing
    /\ s.source = <<>> \/ s.source = s.amendment.digest
    /\ ManifestDigest(s.sums) = s.amendment.digest

(* amendment::binding has no finding; the declaring file is read once more.     *)
AmendmentClean(s) ==
    /\ s.amendment.form = "canonical"
    /\ s.literals.commit = s.commit
    /\ s.registered = "rows"
    /\ SourcePinned(s)
    /\ Accepts(s.amendment.patch, s.source)
    /\ Cardinality(s.declaring) = 1
    /\ \A d \in s.declaring : Markers(lean[d[1]]) = 0

CountMarkers ==
    /\ pc = "markers"
    /\ Stops(IF AmendmentClean(saw) THEN "pass" ELSE "fail", saw)
    /\ bound' = IF AmendmentClean(saw) /\ quiet
                THEN bound \cup {[amendment |-> amendment, source |-> files[Source]]}
                ELSE bound
    /\ UNCHANGED certified

Vendor == ReadSums \/ HashListed \/ Enumerate \/ ReadRevision \/ ReadBlobs
              \/ HashBlob \/ ReadCommit \/ ReadAnchors \/ ReadLabels
Amendment == ReadRecords \/ ReadPin \/ ReadPinned \/ ReadManifest \/ ReadRegister
                 \/ ReadNames \/ ReadSource \/ CountMarkers

Next == Edit \/ (\E c \in {"vendor", "amendment"} : Start(c)) \/ Vendor \/ Amendment

Spec == Init /\ [][Next]_vars

--------------------------------------------------------------------------------
Listings == Seq([path : Paths, text : Texts] \cup {Unparsable})
Records == [form : {"canonical", "wrong", "unreadable"}, patch : RecordedPatches,
            digest : Texts \cup {Missing}]
Commits0 == Commits \cup {"missing"}

(* What is on disk, and what a command has read of it, has its form; a command  *)
(* has hashed no more files than its manifest lists.                          *)
TypeOK ==
    /\ files \in [Paths -> Texts \cup {Missing}]
    /\ sums \in Listings /\ blobs \in Listings
    /\ pinned \in Commits0
    /\ literals \in [manifest : Listings, blobs : Listings, count : Nat, commit : Commits0]
    /\ anchors \subseteq Lines
    /\ amendment \in Records
    /\ registered \in {"rows", "no rows", "unreadable"}
    /\ lean \in [Modules -> Seq(LeanLines)]
    /\ edits \in 0 .. MaxEdits
    /\ command \in {"none", "vendor", "amendment"}
    /\ pc \in {"done", "sums", "hash", "tree", "revision", "blobs", "blob", "commit", "anchors",
               "labels", "records", "pin", "pinned", "manifest", "register", "names",
               "source", "markers"}
    /\ saw.sums \in Listings /\ saw.blobs \in Listings
    /\ Len(saw.hashed) <= Len(saw.sums) /\ Len(saw.blobbed) <= Len(saw.blobs)
    /\ saw.present \subseteq Paths
    /\ exit \in {"none", "pass", "fail", "error"}
    /\ exit = "none" <=> command = "none" \/ pc # "done"
    /\ quiet \in BOOLEAN

(* The Lean literals stand for one tree: two passes of `vendor` that nothing    *)
(* disturbed and that found the same literals found the same files, those that *)
(* no manifest lists included.  Any change of a vendored byte, file or name    *)
(* makes the command fail until the literals are changed as well               *)
(* (vendor.rs:293, 366; Revision.lean).                                      *)
LiteralsPinTheTree ==
    \A c, d \in certified : c.literals = d.literals => c.files = d.files

(* The amendment stands for one source text: two passes of `amendment` that     *)
(* nothing disturbed and that found the same record read the same source, an   *)
(* empty one, whose digest the code does not compare, included                 *)
(* (amendment.rs:268, 291).                                                  *)
AmendedSourceIsPinned ==
    \A c, d \in bound : c.amendment = d.amendment => c.source = d.source

Undisturbed(c) == pc = "done" /\ exit = "pass" /\ command = c /\ quiet

Attached == UNION {Claims(lean[m]) : m \in Modules}

(* Once `amendment` has passed undisturbed, `core` counts no rule for the       *)
(* amended declaration by a marker written as both commands write it above a   *)
(* line that both read as a declaration (amendment.rs:349, core.rs:614).       *)
PinnedMarkersStayOut ==
    Undisturbed("amendment") =>
        \A c \in Attached : c.kind = "rule" /\ c.own /\ c.plain => c.to # Decl

(* What SPEC.md:802 and SPEC.md:839 say of it: no coverage marker at all is     *)
(* attached to an amended declaration once the check has passed                *)
(* (amendment.rs:541).                                                       *)
NoMarkerOnAmended ==
    Undisturbed("amendment") => \A c \in Attached : c.own /\ c.plain => c.to # Decl

Fresh == command = "none" /\ edits = 0

(* An amendment is never accepted on a source it has been applied to, wherever *)
(* its lines went, unless it inserts an anchor: the tool notices that the      *)
(* pinned tree is no longer the one the amendment amends.  It takes the        *)
(* selection of the region, in the text before and in the text after, and the  *)
(* two searches in it together (amendment.rs:385, 431, 445).  It is about all   *)
(* patches and sources of the instance, so one state is enough to look at.     *)
AppliedPatchIsRefused == Fresh => ~SomePatchAppliesTwice

(* The two readers follow namespaces alike: where both see a declaration, and   *)
(* the lines that open and close namespaces above it, alike, and no `end B`     *)
(* closes A.B for one of them only, what core.rs attaches a marker to           *)
(* amendment.rs finds declared in that file (amendment.rs:594, core.rs:629).   *)
ReadersAgree == Fresh => ReadersAgreeUpTo(MaxLeanLines)
================================================================================

---------------------------- MODULE Authority_proofs ----------------------------
(****************************************************************************)
(* Proofs about the two commands that check the vendored authority, for every  *)
(* set of paths, lines and Lean files and any number of changes a developer    *)
(* makes while they read.                                                    *)
(****************************************************************************)
EXTENDS Authority, FiniteSetTheorems, SequenceTheorems, WellFoundedInduction, TLAPS

Parsed == [path : Paths, text : Texts]

(* What the commands have read when they come to a step.                      *)
WithSums      == {"hash", "tree", "revision", "blobs", "blob", "commit", "anchors", "labels"}
WithHashes    == WithSums \ {"hash"}
WithTree      == WithHashes \ {"tree"}
WithLiterals  == WithTree \ {"revision"}
WithBlobs     == {"blob", "commit", "anchors", "labels"}
WithAmendment == {"pin", "pinned", "manifest", "register", "names", "source", "markers"}
NotHashed     == {"sums", "records"} \cup WithAmendment
NotBlobbed    == NotHashed \cup (WithSums \ WithBlobs)

SawFields == {"sums", "hashed", "present", "literals", "blobs", "blobbed", "commit", "anchors",
              "amendment", "registered", "declaring", "source"}

(* What a step relies on beyond the types: the listings it goes through parse.  *)
SawOK(at, seen) ==
    /\ seen = [f \in SawFields |-> seen[f]]
    /\ seen.sums \in Listings /\ seen.blobs \in Listings
    /\ seen.hashed \in Seq(Texts \cup {Missing}) /\ Len(seen.hashed) <= Len(seen.sums)
    /\ seen.blobbed \in Seq(Texts \cup {Missing}) /\ Len(seen.blobbed) <= Len(seen.blobs)
    /\ seen.present \subseteq Paths
    /\ at \in WithSums => Readable(seen.sums)
    /\ at \in WithBlobs => Readable(seen.blobs)
    /\ at \in NotHashed => seen.hashed = <<>>
    /\ at \in NotBlobbed => seen.blobbed = <<>>

RunOK == SawOK(pc, saw) /\ (command = "none" => pc = "done")

TypeInv == TypeOK /\ RunOK

--------------------------------------------------------------------------------
(* The data.                                                                  *)

(* A manifest lists files of the tree, with their texts.                      *)
LEMMA ManifestType ==
    ASSUME NEW tree \in [Paths -> Texts \cup {Missing}]
    PROVE  Manifest(tree) \in Seq(Parsed)
<1> DEFINE S == {p \in Paths : tree[p] # Missing}
           T == {Listing(p, tree[p]) : p \in S}
           n == Cardinality(S)
           Manifests == [1 .. n -> T]
<1>1. IsFiniteSet(S)
  BY FS_Subset, AuthorityAssumption
<1>2. n \in Nat /\ ExistsBijection(1 .. n, S)
  BY <1>1, FS_CardinalityType
<1>3. PICK f : f \in Bijection(1 .. n, S)
  BY <1>2 DEF ExistsBijection
<1> DEFINE g == [i \in 1 .. n |-> Listing(f[i], tree[f[i]])]
<1>4. /\ f \in [1 .. n -> S]
      /\ \A i, j \in 1 .. n : f[i] = f[j] => i = j
  BY <1>3 DEF Bijection, Injection, IsInjective
<1>5. g \in Manifests
  BY <1>4
<1>6. \A i, j \in DOMAIN g : g[i] = g[j] => i = j
  <2> SUFFICES ASSUME NEW i \in 1 .. n, NEW j \in 1 .. n, g[i] = g[j]
               PROVE  i = j
    OBVIOUS
  <2>1. g[i].path = f[i] /\ g[j].path = f[j]
    BY DEF Listing
  <2> QED
    BY <1>4, <2>1
<1>7. Manifest(tree) \in Manifests
  BY <1>5, <1>6 DEF Manifest
<1>8. T \subseteq Parsed
  BY DEF Parsed, Listing
<1>9. Manifest(tree) \in [1 .. n -> Parsed]
  BY <1>7, <1>8
<1> HIDE DEF n
<1> QED
  BY <1>2, <1>9, SeqDef

LEMMA ManifestListings ==
    ASSUME NEW tree \in [Paths -> Texts \cup {Missing}]
    PROVE  Manifest(tree) \in Listings /\ Len(Manifest(tree)) \in Nat
<1>1. Manifest(tree) \in Seq(Parsed)
  BY ManifestType
<1> QED
  BY <1>1, SeqMonotonic, LenProperties DEF Listings, Parsed

LEMMA ItemType ==
    ASSUME NEW S, NEW s \in Seq(S), NEW i \in 1 .. Len(s) + 1, NEW x \in S
    PROVE  /\ WithItem(s, i, x) \in Seq(S)
           /\ i \in 1 .. Len(s) => WithoutItem(s, i) \in Seq(S)
<1>1. Len(s) \in Nat /\ \A j \in 1 .. Len(s) : s[j] \in S
  OBVIOUS
<1>2. SubSeq(s, 1, i - 1) \in Seq(S) /\ SubSeq(s, i, Len(s)) \in Seq(S)
  BY <1>1, SubSeqProperties
<1>3. i \in 1 .. Len(s) => SubSeq(s, i + 1, Len(s)) \in Seq(S)
  BY <1>1, SubSeqProperties
<1>4. <<x>> \in Seq(S)
  OBVIOUS
<1> QED
  BY <1>2, <1>3, <1>4, ConcatProperties DEF WithItem, WithoutItem

LEMMA LineEditsType ==
    ASSUME NEW S, NEW text \in Seq(S), NEW lines \in SUBSET S
    PROVE  LineEdits(text, lines) \subseteq Seq(S)
<1>1. \A i \in 1 .. Len(text) : WithoutItem(text, i) \in Seq(S)
  <2> TAKE i \in 1 .. Len(text)
  <2>1. text[i] \in S /\ i \in 1 .. Len(text) + 1
    OBVIOUS
  <2> QED
    BY <2>1, ItemType
<1>2. \A i \in 1 .. Len(text) + 1, x \in lines : WithItem(text, i, x) \in Seq(S)
  BY ItemType
<1> QED
  BY <1>1, <1>2 DEF LineEdits

LEMMA ManifestEditsType ==
    ASSUME NEW listings \in Listings
    PROVE  ManifestEdits(listings) \subseteq Listings
<1> DEFINE S == Parsed \cup {Unparsable}
<1>1. listings \in Seq(S) /\ Listings = Seq(S)
  BY DEF Listings, Parsed
<1>2. \A i \in 1 .. Len(listings) : listings[i] \in S
  BY <1>1
<1>3. \A i \in 1 .. Len(listings) : WithoutItem(listings, i) \in Seq(S)
  <2> TAKE i \in 1 .. Len(listings)
  <2>1. i \in 1 .. Len(listings) + 1
    OBVIOUS
  <2> QED
    BY <1>1, <1>2, <2>1, ItemType
<1>4. \A i \in 1 .. Len(listings) : Append(listings, listings[i]) \in Seq(S)
  BY <1>1, <1>2, AppendProperties
<1>5. Append(listings, Unparsable) \in Seq(S)
  BY <1>1, AppendProperties
<1> QED
  BY <1>1, <1>3, <1>4, <1>5 DEF ManifestEdits

--------------------------------------------------------------------------------
(* Types. *)

LEMMA GoesType ==
    ASSUME TypeInv, pc # "done", NEW next \in WithSums \cup WithAmendment, NEW seen,
           SawOK(next, seen), Goes(next, seen)
    PROVE  TypeInv'
<1>1. /\ pc' = next /\ saw' = seen /\ next # "done"
      /\ UNCHANGED <<vendored, leanSide, edits, command, exit, quiet>>
  BY DEF Goes, WithSums, WithAmendment
<1>2. exit = "none" /\ command # "none"
  BY DEF TypeInv, TypeOK, RunOK
<1>3. SawOK(pc', saw')
  BY <1>1
<1>4. RunOK'
  BY <1>1, <1>2, <1>3 DEF RunOK, SawOK, Readable
<1>5. TypeOK'
  BY <1>1, <1>2, <1>3 DEF TypeInv, TypeOK, SawOK, vendored, leanSide, WithSums, WithAmendment
<1> QED
  BY <1>4, <1>5 DEF TypeInv

LEMMA StopsType ==
    ASSUME TypeInv, pc # "done", NEW outcome \in {"pass", "fail", "error"}, Stops(outcome, saw)
    PROVE  TypeInv'
<1>1. /\ pc' = "done" /\ saw' = saw /\ exit' = outcome
      /\ UNCHANGED <<vendored, leanSide, edits, command, quiet>>
  BY DEF Stops
<1>2. command # "none"
  BY DEF TypeInv, RunOK
<1>3. SawOK(pc', saw')
  BY <1>1 DEF TypeInv, RunOK, SawOK, WithSums, WithBlobs, WithAmendment, NotHashed, NotBlobbed
<1>4. RunOK'
  BY <1>1, <1>3 DEF RunOK, SawOK, Readable
<1>5. TypeOK'
  BY <1>1, <1>2 DEF TypeInv, TypeOK, vendored, leanSide
<1> QED
  BY <1>4, <1>5 DEF TypeInv

(* A step that reads one thing.                                               *)
LEMMA ReadsType ==
    ASSUME TypeInv, pc # "done", NEW next \in WithSums \cup WithAmendment,
           NEW seen, NEW ok, ok => SawOK(next, seen), GoesIf(ok, next, seen)
    PROVE  TypeInv'
<1>1. CASE ok
  BY <1>1, GoesType DEF GoesIf
<1>2. CASE ~ok
  BY <1>2, StopsType DEF GoesIf, Breaks
<1> QED
  BY <1>1, <1>2

(* A field that no step counts on is set.                                     *)
LEMMA SawSets ==
    ASSUME SawOK(pc, saw), NEW k \in SawFields \ {"sums", "hashed", "blobs", "blobbed", "present"},
           NEW v, NEW next \in (WithSums \cup WithAmendment) \ {"hash"},
           next \in WithSums => pc \in WithSums,
           next \in WithBlobs => pc \in WithBlobs,
           next \in NotHashed => pc \in NotHashed,
           next \in NotBlobbed => pc \in NotBlobbed
    PROVE  SawOK(next, [saw EXCEPT ![k] = v])
<1> DEFINE seen == [saw EXCEPT ![k] = v]
<1>1. /\ seen = [f \in SawFields |-> seen[f]]
      /\ \A f \in SawFields \ {k} : seen[f] = saw[f]
  BY DEF SawOK
<1>2. /\ seen.sums = saw.sums /\ seen.hashed = saw.hashed /\ seen.blobs = saw.blobs
      /\ seen.blobbed = saw.blobbed /\ seen.present = saw.present
  BY <1>1 DEF SawFields
<1> HIDE DEF seen
<1>3. SawOK(next, seen)
  BY <1>1, <1>2 DEF SawOK
<1> QED
  BY <1>3 DEF seen

LEMMA SetsSums ==
    ASSUME TypeInv, pc = "sums", Readable(sums)
    PROVE  SawOK("hash", [saw EXCEPT !.sums = sums])
<1> DEFINE seen == [saw EXCEPT !.sums = sums]
<1>1. SawOK(pc, saw) /\ sums \in Listings /\ Len(sums) \in Nat
  BY LenProperties DEF TypeInv, RunOK, TypeOK, Listings
<1>2. /\ seen = [f \in SawFields |-> seen[f]]
      /\ seen.sums = sums
      /\ \A f \in SawFields \ {"sums"} : seen[f] = saw[f]
  BY <1>1 DEF SawOK, SawFields
<1>3. /\ seen.hashed = saw.hashed /\ seen.blobs = saw.blobs
      /\ seen.blobbed = saw.blobbed /\ seen.present = saw.present
  BY <1>2 DEF SawFields
<1> HIDE DEF seen
<1>4. seen.hashed = <<>> /\ Len(seen.hashed) = 0 /\ seen.blobbed = <<>>
  BY <1>1, <1>3 DEF SawOK, NotHashed, NotBlobbed
<1>5. seen.hashed \in Seq(Texts \cup {Missing}) /\ Len(seen.hashed) <= Len(seen.sums)
  BY <1>1, <1>2, <1>3, <1>4 DEF SawOK
<1>6. seen.blobbed \in Seq(Texts \cup {Missing}) /\ Len(seen.blobbed) <= Len(seen.blobs)
  BY <1>1, <1>3 DEF SawOK
<1>7. SawOK("hash", seen)
  BY <1>1, <1>2, <1>3, <1>4, <1>5, <1>6 DEF SawOK, WithBlobs
<1> QED
  BY <1>7 DEF seen

(* The amendment reads the manifest without going through it.                 *)
LEMMA RereadsSums ==
    ASSUME TypeInv, pc = "manifest"
    PROVE  SawOK("register", [saw EXCEPT !.sums = sums])
<1> DEFINE seen == [saw EXCEPT !.sums = sums]
<1>1. SawOK(pc, saw) /\ sums \in Listings /\ Len(sums) \in Nat
  BY LenProperties DEF TypeInv, RunOK, TypeOK, Listings
<1>2. /\ seen = [f \in SawFields |-> seen[f]]
      /\ seen.sums = sums
      /\ \A f \in SawFields \ {"sums"} : seen[f] = saw[f]
  BY <1>1 DEF SawOK, SawFields
<1>3. /\ seen.hashed = saw.hashed /\ seen.blobs = saw.blobs
      /\ seen.blobbed = saw.blobbed /\ seen.present = saw.present
  BY <1>2 DEF SawFields
<1> HIDE DEF seen
<1>4. /\ {"manifest", "register"} \subseteq NotHashed \cap NotBlobbed
      /\ "register" \notin WithSums \cup WithBlobs
  BY DEF WithSums, WithBlobs, WithAmendment, NotHashed, NotBlobbed
<1>5. seen.hashed = <<>> /\ Len(seen.hashed) = 0 /\ seen.blobbed = <<>>
  BY <1>1, <1>3, <1>4 DEF SawOK
<1>6. seen.hashed \in Seq(Texts \cup {Missing}) /\ Len(seen.hashed) <= Len(seen.sums)
  BY <1>1, <1>2, <1>3, <1>5 DEF SawOK
<1>7. seen.blobbed \in Seq(Texts \cup {Missing}) /\ Len(seen.blobbed) <= Len(seen.blobs)
  BY <1>1, <1>3 DEF SawOK
<1>8. SawOK("register", seen)
  BY <1>1, <1>2, <1>3, <1>4, <1>5, <1>6, <1>7 DEF SawOK
<1> QED
  BY <1>8 DEF seen

LEMMA SetsBlobs ==
    ASSUME TypeInv, pc = "blobs", Readable(blobs)
    PROVE  SawOK("blob", [saw EXCEPT !.blobs = blobs])
<1> DEFINE seen == [saw EXCEPT !.blobs = blobs]
<1>1. SawOK(pc, saw) /\ blobs \in Listings /\ Len(blobs) \in Nat
  BY LenProperties DEF TypeInv, RunOK, TypeOK, Listings
<1>2. /\ seen = [f \in SawFields |-> seen[f]]
      /\ seen.blobs = blobs
      /\ \A f \in SawFields \ {"blobs"} : seen[f] = saw[f]
  BY <1>1 DEF SawOK, SawFields
<1>3. /\ seen.hashed = saw.hashed /\ seen.sums = saw.sums
      /\ seen.blobbed = saw.blobbed /\ seen.present = saw.present
  BY <1>2 DEF SawFields
<1> HIDE DEF seen
<1>4. pc \in NotBlobbed /\ pc \in WithSums /\ "blob" \notin NotHashed \cup NotBlobbed
  BY DEF WithSums, WithBlobs, WithAmendment, NotHashed, NotBlobbed
<1>5. seen.blobbed = <<>> /\ Len(seen.blobbed) = 0
  BY <1>1, <1>3, <1>4 DEF SawOK
<1>6. seen.hashed \in Seq(Texts \cup {Missing}) /\ Len(seen.hashed) <= Len(seen.sums)
  BY <1>1, <1>3 DEF SawOK
<1>7. seen.blobbed \in Seq(Texts \cup {Missing}) /\ Len(seen.blobbed) <= Len(seen.blobs)
  BY <1>1, <1>2, <1>3, <1>5 DEF SawOK
<1>8. SawOK("blob", seen)
  BY <1>1, <1>2, <1>3, <1>4, <1>5, <1>6, <1>7 DEF SawOK
<1> QED
  BY <1>8 DEF seen

LEMMA SetsPresent ==
    ASSUME SawOK(pc, saw), pc = "tree", NEW present \in SUBSET Paths
    PROVE  SawOK("revision", [saw EXCEPT !.present = present])
<1> DEFINE seen == [saw EXCEPT !.present = present]
<1>1. /\ seen = [f \in SawFields |-> seen[f]]
      /\ seen.present = present
      /\ \A f \in SawFields \ {"present"} : seen[f] = saw[f]
  BY DEF SawOK, SawFields
<1>2. /\ seen.hashed = saw.hashed /\ seen.sums = saw.sums
      /\ seen.blobbed = saw.blobbed /\ seen.blobs = saw.blobs
  BY <1>1 DEF SawFields
<1> HIDE DEF seen
<1>3. {"tree", "revision"} \subseteq (WithSums \cap NotBlobbed) \ (WithBlobs \cup NotHashed)
  BY DEF WithSums, WithBlobs, WithAmendment, NotHashed, NotBlobbed
<1>4. SawOK("revision", seen)
  BY <1>1, <1>2, <1>3 DEF SawOK
<1> QED
  BY <1>4 DEF seen

LEMMA ListedText ==
    ASSUME TypeInv, NEW listings \in Listings, Readable(listings), NEW i \in 1 .. Len(listings)
    PROVE  files[listings[i].path] \in Texts \cup {Missing}
<1>1. listings[i] \in Parsed \cup {Unparsable}
  BY DEF Listings, Parsed
<1>2. listings[i] \in Parsed
  BY <1>1, LenProperties DEF Readable, Listings
<1> QED
  BY <1>2 DEF TypeInv, TypeOK, Parsed

LEMMA SetsHashed ==
    ASSUME SawOK(pc, saw), pc = "hash", NEW text \in Texts \cup {Missing},
           Len(saw.hashed) + 1 <= Len(saw.sums)
    PROVE  SawOK("hash", [saw EXCEPT !.hashed = Append(@, text)])
<1> DEFINE seen == [saw EXCEPT !.hashed = Append(@, text)]
<1>1. /\ seen = [f \in SawFields |-> seen[f]]
      /\ seen.hashed = Append(saw.hashed, text)
      /\ \A f \in SawFields \ {"hashed"} : seen[f] = saw[f]
  BY DEF SawOK, SawFields
<1>2. /\ seen.present = saw.present /\ seen.sums = saw.sums
      /\ seen.blobbed = saw.blobbed /\ seen.blobs = saw.blobs
  BY <1>1 DEF SawFields
<1> HIDE DEF seen
<1>3. seen.hashed \in Seq(Texts \cup {Missing}) /\ Len(seen.hashed) = Len(saw.hashed) + 1
  <2> DEFINE S == Texts \cup {Missing}
  <2>1. saw.hashed \in Seq(S) /\ text \in S
    BY DEF SawOK
  <2> HIDE DEF S
  <2>2. Append(saw.hashed, text) \in Seq(S) /\ Len(Append(saw.hashed, text)) = Len(saw.hashed) + 1
    BY <2>1, AppendProperties
  <2> QED
    BY <1>1, <2>2 DEF S
<1>4. "hash" \in WithSums \ (WithBlobs \cup NotHashed) /\ "hash" \in NotBlobbed
  BY DEF WithSums, WithBlobs, WithAmendment, NotHashed, NotBlobbed
<1>5. SawOK("hash", seen)
  BY <1>1, <1>2, <1>3, <1>4 DEF SawOK
<1> QED
  BY <1>5 DEF seen

LEMMA SetsBlobbed ==
    ASSUME SawOK(pc, saw), pc = "blob", NEW text \in Texts \cup {Missing},
           Len(saw.blobbed) + 1 <= Len(saw.blobs)
    PROVE  SawOK("blob", [saw EXCEPT !.blobbed = Append(@, text)])
<1> DEFINE seen == [saw EXCEPT !.blobbed = Append(@, text)]
<1>1. /\ seen = [f \in SawFields |-> seen[f]]
      /\ seen.blobbed = Append(saw.blobbed, text)
      /\ \A f \in SawFields \ {"blobbed"} : seen[f] = saw[f]
  BY DEF SawOK, SawFields
<1>2. /\ seen.present = saw.present /\ seen.sums = saw.sums
      /\ seen.hashed = saw.hashed /\ seen.blobs = saw.blobs
  BY <1>1 DEF SawFields
<1> HIDE DEF seen
<1>3. seen.blobbed \in Seq(Texts \cup {Missing}) /\ Len(seen.blobbed) = Len(saw.blobbed) + 1
  <2> DEFINE S == Texts \cup {Missing}
  <2>1. saw.blobbed \in Seq(S) /\ text \in S
    BY DEF SawOK
  <2> HIDE DEF S
  <2>2. Append(saw.blobbed, text) \in Seq(S) /\ Len(Append(saw.blobbed, text)) = Len(saw.blobbed) + 1
    BY <2>1, AppendProperties
  <2> QED
    BY <1>1, <2>2 DEF S
<1>4. "blob" \in WithBlobs /\ "blob" \in WithSums /\ "blob" \notin NotHashed \cup NotBlobbed
  BY DEF WithSums, WithBlobs, WithAmendment, NotHashed, NotBlobbed
<1>5. SawOK("blob", seen)
  BY <1>1, <1>2, <1>3, <1>4 DEF SawOK
<1> QED
  BY <1>5 DEF seen

LEMMA VendorType ==
    ASSUME TypeInv, Vendor
    PROVE  TypeInv'
<1>1. SawOK(pc, saw) /\ saw.sums \in Listings /\ saw.blobs \in Listings
  BY DEF TypeInv, RunOK, SawOK
<1>2. CASE ReadSums
  BY <1>2, SetsSums, ReadsType DEF ReadSums, WithSums
<1>3. CASE HashListed
  <2>1. /\ pc = "hash"
        /\ {"hash", "tree"} \subseteq (WithSums \cap NotBlobbed) \ (WithBlobs \cup NotHashed)
    BY <1>3 DEF HashListed, WithSums, WithBlobs, WithAmendment, NotHashed, NotBlobbed
  <2> DEFINE next == Len(saw.hashed) + 1
  <2>2. next \in Nat /\ 1 <= next /\ Len(saw.sums) \in Nat /\ Readable(saw.sums)
    BY <1>1, <2>1, LenProperties DEF SawOK, Listings
  <2>3. CASE next > Len(saw.sums)
    <3>1. Goes("tree", saw)
      BY <1>3, <2>3 DEF HashListed
    <3>2. SawOK("tree", saw)
      BY <1>1, <2>1 DEF SawOK
    <3> QED
      BY <2>1, <3>1, <3>2, GoesType
  <2>4. CASE ~(next > Len(saw.sums))
    <3> DEFINE text == files[saw.sums[next].path]
    <3>1. Goes("hash", [saw EXCEPT !.hashed = Append(@, text)])
      BY <1>3, <2>4 DEF HashListed
    <3>2. text \in Texts \cup {Missing}
      BY <1>1, <2>2, <2>4, ListedText
    <3> HIDE DEF text
    <3>3. Len(saw.hashed) + 1 <= Len(saw.sums)
      BY <2>2, <2>4
    <3>4. SawOK("hash", [saw EXCEPT !.hashed = Append(@, text)])
      BY <1>1, <2>1, <3>2, <3>3, SetsHashed
    <3> QED
      BY <2>1, <3>1, <3>4, GoesType
  <2> QED
    BY <2>3, <2>4
<1>4. CASE Enumerate
  BY <1>1, <1>4, SetsPresent, ReadsType DEF Enumerate, WithSums
<1>5. CASE ReadRevision
  <2>1. SawOK("blobs", [saw EXCEPT !.literals = literals])
    BY <1>1, <1>5, SawSets DEF ReadRevision, SawFields, WithSums, WithBlobs, WithAmendment,
                                    NotHashed, NotBlobbed
  <2> QED
    BY <1>5, <2>1, ReadsType DEF ReadRevision, WithSums
<1>6. CASE ReadBlobs
  BY <1>6, SetsBlobs, ReadsType DEF ReadBlobs, WithSums
<1>7. CASE HashBlob
  <2>1. /\ pc = "blob"
        /\ {"blob", "commit"} \subseteq (WithSums \cap WithBlobs) \ (NotBlobbed \cup NotHashed)
    BY <1>7 DEF HashBlob, WithSums, WithBlobs, WithAmendment, NotHashed, NotBlobbed
  <2> DEFINE next == Len(saw.blobbed) + 1
  <2>2. next \in Nat /\ 1 <= next /\ Len(saw.blobs) \in Nat /\ Readable(saw.blobs)
    BY <1>1, <2>1, LenProperties DEF SawOK, Listings
  <2>3. CASE next > Len(saw.blobs)
    <3>1. Goes("commit", saw)
      BY <1>7, <2>3 DEF HashBlob
    <3>2. SawOK("commit", saw)
      BY <1>1, <2>1 DEF SawOK
    <3> QED
      BY <2>1, <3>1, <3>2, GoesType
  <2>4. CASE ~(next > Len(saw.blobs))
    <3> DEFINE text == files[saw.blobs[next].path]
    <3>1. Goes("blob", [saw EXCEPT !.blobbed = Append(@, text)])
      BY <1>7, <2>4 DEF HashBlob
    <3>2. text \in Texts \cup {Missing}
      BY <1>1, <2>2, <2>4, ListedText
    <3> HIDE DEF text
    <3>3. Len(saw.blobbed) + 1 <= Len(saw.blobs)
      BY <2>2, <2>4
    <3>4. SawOK("blob", [saw EXCEPT !.blobbed = Append(@, text)])
      BY <1>1, <2>1, <3>2, <3>3, SetsBlobbed
    <3> QED
      BY <2>1, <3>1, <3>4, GoesType
  <2> QED
    BY <2>3, <2>4
<1>8. CASE ReadCommit
  <2>1. SawOK("anchors", [saw EXCEPT !.commit = pinned])
    BY <1>1, <1>8, SawSets DEF ReadCommit, SawFields, WithSums, WithBlobs, WithAmendment,
                                    NotHashed, NotBlobbed
  <2> QED
    BY <1>8, <2>1, ReadsType DEF ReadCommit, WithSums
<1>9. CASE ReadAnchors
  <2>1. SawOK("labels", [saw EXCEPT !.anchors = anchors])
    BY <1>1, <1>9, SawSets DEF ReadAnchors, SawFields, WithSums, WithBlobs, WithAmendment,
                                    NotHashed, NotBlobbed
  <2> QED
    BY <1>9, <2>1, ReadsType DEF ReadAnchors, WithSums
<1>10. CASE ReadLabels
  <2>1. PICK outcome \in {"pass", "fail", "error"} : Stops(outcome, saw)
    BY <1>10 DEF ReadLabels
  <2> QED
    BY <1>10, <2>1, StopsType DEF ReadLabels
<1> QED
  BY <1>2, <1>3, <1>4, <1>5, <1>6, <1>7, <1>8, <1>9, <1>10 DEF Vendor

LEMMA AmendmentType ==
    ASSUME TypeInv, Amendment
    PROVE  TypeInv'
<1> USE DEF SawFields, WithSums, WithBlobs, WithAmendment, NotHashed, NotBlobbed
<1>1. SawOK(pc, saw)
  BY DEF TypeInv, RunOK
<1>2. CASE ReadRecords
  <2>1. SawOK("pin", [saw EXCEPT !.amendment = amendment])
    BY <1>1, <1>2, SawSets DEF ReadRecords
  <2> QED
    BY <1>2, <2>1, ReadsType DEF ReadRecords
<1>3. CASE ReadPin
  <2>1. SawOK("pinned", [saw EXCEPT !.literals = literals])
    BY <1>1, <1>3, SawSets DEF ReadPin
  <2> QED
    BY <1>3, <2>1, ReadsType DEF ReadPin
<1>4. CASE ReadPinned
  <2>1. SawOK("manifest", [saw EXCEPT !.commit = pinned])
    BY <1>1, <1>4, SawSets DEF ReadPinned
  <2> QED
    BY <1>4, <2>1, ReadsType DEF ReadPinned
<1>5. CASE ReadManifest
  <2>1. Goes("register", [saw EXCEPT !.sums = sums]) /\ pc = "manifest"
    BY <1>5 DEF ReadManifest
  <2>2. SawOK("register", [saw EXCEPT !.sums = sums])
    BY <2>1, RereadsSums
  <2> QED
    BY <2>1, <2>2, GoesType
<1>6. CASE ReadRegister
  <2>1. SawOK("names", [saw EXCEPT !.registered = registered])
    BY <1>1, <1>6, SawSets DEF ReadRegister
  <2> QED
    BY <1>6, <2>1, ReadsType DEF ReadRegister
<1>7. CASE ReadNames
  <2> DEFINE declaring == UNION {{m} \X DeclaredAt(lean[m], Decl) : m \in Modules}
  <2>1. Goes("source", [saw EXCEPT !.declaring = declaring])
    BY <1>7 DEF ReadNames
  <2> HIDE DEF declaring
  <2>2. SawOK("source", [saw EXCEPT !.declaring = declaring])
    BY <1>1, <1>7, SawSets DEF ReadNames
  <2> QED
    BY <1>7, <2>1, <2>2, GoesType DEF ReadNames
<1>8. CASE ReadSource
  <2>1. SawOK("markers", [saw EXCEPT !.source = files[Source]])
    BY <1>1, <1>8, SawSets DEF ReadSource
  <2> QED
    BY <1>8, <2>1, GoesType DEF ReadSource
<1>9. CASE CountMarkers
  <2>1. PICK outcome \in {"pass", "fail", "error"} : Stops(outcome, saw)
    BY <1>9 DEF CountMarkers
  <2> QED
    BY <1>9, <2>1, StopsType DEF CountMarkers
<1> QED
  BY <1>2, <1>3, <1>4, <1>5, <1>6, <1>7, <1>8, <1>9 DEF Amendment

LEMMA EditType ==
    ASSUME TypeInv, Edit
    PROVE  TypeInv'
<1>1. /\ edits' \in 0 .. MaxEdits /\ quiet' = FALSE
      /\ UNCHANGED <<command, pc, saw, exit>>
  <2>1. Disturb
    BY DEF Edit, EditVendored, EditManifest, EditPin, Repin, EditAnchors, EditAmendment,
           EditRegister, EditLean
  <2>2. edits \in 0 .. MaxEdits /\ MaxEdits \in Nat
    BY AuthorityAssumption DEF TypeInv, TypeOK
  <2> QED
    BY <2>1, <2>2 DEF Disturb, run
<1>2. RunOK'
  BY <1>1 DEF TypeInv, RunOK, SawOK, Readable
<1> DEFINE Vendored ==
               /\ files' \in [Paths -> Texts \cup {Missing}]
               /\ sums' \in Listings /\ blobs' \in Listings
               /\ pinned' \in Commits0
           LeanSide ==
               /\ literals' \in [manifest : Listings, blobs : Listings, count : Nat,
                                 commit : Commits0]
               /\ anchors' \subseteq Lines
               /\ amendment' \in Records
               /\ registered' \in {"rows", "no rows", "unreadable"}
               /\ lean' \in [Modules -> Seq(LeanLines)]
<1>3. UNCHANGED vendored => Vendored
  BY DEF vendored, TypeInv, TypeOK
<1>4. UNCHANGED leanSide => LeanSide
  BY DEF leanSide, TypeInv, TypeOK
<1>5. Vendored /\ LeanSide => TypeOK'
  BY <1>1 DEF TypeInv, TypeOK
<1>6. CASE EditVendored
  <2>0. PICK p \in Paths :
            \E text \in IF files[p] = Missing THEN {<<>>}
                        ELSE LineEdits(files[p], Lines) \cup {Missing} :
                files' = [files EXCEPT ![p] = text]
    BY <1>6 DEF EditVendored
  <2>1. PICK text \in IF files[p] = Missing THEN {<<>>}
                      ELSE LineEdits(files[p], Lines) \cup {Missing} :
            files' = [files EXCEPT ![p] = text]
    BY <2>0
  <2>2. files[p] \in Texts \cup {Missing} /\ <<>> \in Texts
    <3>1. files \in [Paths -> Texts \cup {Missing}]
      BY DEF TypeInv, TypeOK
    <3>2. <<>> \in Texts
      BY DEF Texts
    <3> QED
      BY <3>1, <3>2
  <2>3. files[p] # Missing => LineEdits(files[p], Lines) \subseteq Texts
    BY <2>2, LineEditsType DEF Texts
  <2>4. text \in Texts \cup {Missing}
    BY <2>1, <2>2, <2>3
  <2>5. Vendored
    BY <1>6, <2>1, <2>4 DEF EditVendored, TypeInv, TypeOK
  <2> QED
    BY <1>4, <1>5, <1>6, <2>5, <1>2 DEF EditVendored, TypeInv
<1>7. CASE EditManifest
  <2>1. Vendored
    BY <1>7, ManifestEditsType DEF EditManifest, TypeInv, TypeOK
  <2> QED
    BY <1>4, <1>5, <1>7, <2>1, <1>2 DEF EditManifest, TypeInv
<1>8. CASE EditPin
  <2>1. Vendored
    BY <1>8 DEF EditPin, TypeInv, TypeOK, Commits0
  <2>2. NoLiterals \in [manifest : Listings, blobs : Listings, count : Nat, commit : Commits0]
    BY DEF NoLiterals, Listings, Commits0
  <2>3. \/ literals' = literals \/ literals' = NoLiterals
        \/ literals' = [literals EXCEPT !.count = @ + 1]
        \/ \E c \in Commits : literals' = [literals EXCEPT !.commit = c]
    BY <1>8 DEF EditPin
  <2>4. literals' \in [manifest : Listings, blobs : Listings, count : Nat, commit : Commits0]
    <3>1. literals \in [manifest : Listings, blobs : Listings, count : Nat, commit : Commits0]
      BY DEF TypeInv, TypeOK
    <3>2. \A c \in Commits : c \in Commits0
      BY DEF Commits0
    <3> QED
      BY <2>2, <2>3, <3>1, <3>2
  <2>5. LeanSide
    BY <1>8, <2>4 DEF EditPin, TypeInv, TypeOK
  <2> QED
    BY <1>5, <2>1, <2>5, <1>2 DEF TypeInv
<1>9. CASE Repin
  <2>1. Manifest(files) \in Listings /\ Len(Manifest(files)) \in Nat
    BY ManifestListings DEF TypeInv, TypeOK
  <2>2. Vendored
    BY <1>9, <2>1 DEF Repin, TypeInv, TypeOK
  <2>3. files[Source] \in Texts \cup {Missing}
    BY AuthorityAssumption DEF TypeInv, TypeOK
  <2>4. LeanSide
    BY <1>9, <2>1, <2>3 DEF Repin, Literals, TypeInv, TypeOK, Records
  <2> QED
    BY <1>5, <2>2, <2>4, <1>2 DEF TypeInv
<1>10. CASE EditAnchors
  <2>1. LeanSide
    BY <1>10 DEF EditAnchors, TypeInv, TypeOK
  <2> QED
    BY <1>3, <1>5, <1>10, <2>1, <1>2 DEF EditAnchors, TypeInv
<1>11. CASE EditAmendment
  <2>1. amendment' \in Records
    BY <1>11, AuthorityAssumption DEF EditAmendment, TypeInv, TypeOK, Records
  <2>2. LeanSide
    BY <1>11, <2>1 DEF EditAmendment, TypeInv, TypeOK
  <2> QED
    BY <1>3, <1>5, <1>11, <2>2, <1>2 DEF EditAmendment, TypeInv
<1>12. CASE EditRegister
  <2>1. LeanSide
    BY <1>12 DEF EditRegister, TypeInv, TypeOK
  <2> QED
    BY <1>3, <1>5, <1>12, <2>1, <1>2 DEF EditRegister, TypeInv
<1>13. CASE EditLean
  <2>0. PICK m \in Modules :
            \E text \in LineEdits(lean[m], MarkEdits) : lean' = [lean EXCEPT ![m] = text]
    BY <1>13 DEF EditLean
  <2>1. PICK text \in LineEdits(lean[m], MarkEdits) : lean' = [lean EXCEPT ![m] = text]
    BY <2>0
  <2>2. text \in Seq(LeanLines)
    BY <2>1, LineEditsType, AuthorityAssumption DEF TypeInv, TypeOK
  <2>3. LeanSide
    BY <1>13, <2>1, <2>2 DEF EditLean, TypeInv, TypeOK
  <2> QED
    BY <1>3, <1>5, <1>13, <2>3, <1>2 DEF EditLean, TypeInv
<1> QED
  BY <1>6, <1>7, <1>8, <1>9, <1>10, <1>11, <1>12, <1>13 DEF Edit

LEMMA NothingOK ==
    /\ Nothing = [f \in SawFields |-> Nothing[f]]
    /\ Nothing.sums = <<>> /\ Nothing.hashed = <<>> /\ Nothing.blobs = <<>>
    /\ Nothing.blobbed = <<>> /\ Nothing.present = {}
  BY DEF Nothing, SawFields

LEMMA NothingIsOK ==
    ASSUME NEW at \in {"done", "sums", "records"}
    PROVE  SawOK(at, Nothing)
<1>1. <<>> \in Listings /\ <<>> \in Seq(Texts \cup {Missing}) /\ Len(<<>>) <= Len(<<>>)
  BY DEF Listings
<1>2. at \notin WithSums \cup WithBlobs
  BY DEF WithSums, WithBlobs
<1> QED
  BY <1>1, <1>2, NothingOK DEF SawOK

LEMMA StartType ==
    ASSUME TypeInv, NEW c \in {"vendor", "amendment"}, Start(c)
    PROVE  TypeInv'
<1>1. /\ command' = c /\ pc' \in {"sums", "records"} /\ saw' = Nothing
      /\ exit' = "none" /\ quiet' = TRUE /\ UNCHANGED <<vendored, leanSide, edits>>
  BY DEF Start
<1>2. SawOK(pc', Nothing)
  BY <1>1, NothingIsOK
<1>3. RunOK'
  BY <1>1, <1>2 DEF RunOK, SawOK, Readable
<1>4. TypeOK'
  BY <1>1, <1>2 DEF TypeInv, TypeOK, SawOK, vendored, leanSide
<1> QED
  BY <1>3, <1>4 DEF TypeInv

LEMMA InitType == Init => TypeInv
<1> SUFFICES ASSUME Init
             PROVE  TypeInv
  OBVIOUS
<1>1. SawOK("done", Nothing)
  BY NothingIsOK
<1>2. RunOK
  BY <1>1 DEF Init, RunOK
<1>3. Manifest(Files0) \in Listings /\ Len(Manifest(Files0)) \in Nat
  BY ManifestListings, AuthorityAssumption
<1>4. amendment \in Records
  BY AuthorityAssumption DEF Init, Records
<1>5. /\ literals \in [manifest : Listings, blobs : Listings, count : Nat, commit : Commits0]
      /\ pinned \in Commits0 /\ sums \in Listings /\ blobs \in Listings
  BY <1>3 DEF Init, Literals, Commits0
<1>6. files \in [Paths -> Texts \cup {Missing}] /\ anchors \subseteq Lines
      /\ lean \in [Modules -> Seq(LeanLines)] /\ edits \in 0 .. MaxEdits
  BY AuthorityAssumption DEF Init
<1>7. TypeOK
  BY <1>1, <1>4, <1>5, <1>6 DEF Init, TypeOK, SawOK
<1> QED
  BY <1>2, <1>7 DEF TypeInv

LEMMA NextType ==
    ASSUME TypeInv, [Next]_vars
    PROVE  TypeInv'
<1>1. CASE UNCHANGED vars
  <2>1. /\ UNCHANGED <<files, sums, blobs, pinned, literals, anchors, amendment, registered, lean>>
        /\ UNCHANGED <<edits, command, pc, saw, exit, quiet>>
    BY <1>1 DEF vars, vendored, leanSide, run
  <2>2. TypeOK'
    BY <2>1 DEF TypeInv, TypeOK
  <2>3. RunOK'
    BY <2>1 DEF TypeInv, RunOK, SawOK, Readable
  <2> QED
    BY <2>2, <2>3 DEF TypeInv
<1> QED
  BY <1>1, EditType, StartType, VendorType, AmendmentType DEF Next

(* What is on disk and what a command holds of it stays in its form, and no     *)
(* command hashes more files than its manifest lists (vendor.rs:201,           *)
(* amendment.rs:268).                                                        *)
THEOREM TypeCorrect == Spec => []TypeOK
<1>1. TypeInv => TypeOK
  BY DEF TypeInv
<1> QED
  BY <1>1, InitType, NextType, PTL DEF Spec

--------------------------------------------------------------------------------
(* What an undisturbed command has read still stands. *)

Present(tree) == {p \in Paths : tree[p] # Missing}

StillStands(at, seen) ==
    /\ at \in WithSums =>
           \A i \in 1 .. Len(seen.hashed) : seen.hashed[i] = files[seen.sums[i].path]
    /\ at \in WithHashes => Len(seen.hashed) = Len(seen.sums)
    /\ at \in WithTree => seen.present = Present(files)
    /\ at \in WithLiterals => seen.literals = literals
    /\ at \in WithAmendment => seen.amendment = amendment
    /\ at = "markers" => seen.source = files[Source]

ReadingStands == quiet => StillStands(pc, saw)

(* The literals name every file of the tree, with its text.                    *)
Pins(lits, tree) ==
    /\ Listed(lits.manifest) = Present(tree)
    /\ \A i \in DOMAIN lits.manifest : tree[lits.manifest[i].path] = lits.manifest[i].text

PassesPin ==
    /\ \A c \in certified : c.files \in [Paths -> Texts \cup {Missing}] /\ Pins(c.literals, c.files)
    /\ \A c \in bound : c.source = c.amendment.digest

AuthorityInv == TypeInv /\ ReadingStands /\ PassesPin

LEMMA GoesStands ==
    ASSUME NEW next, NEW seen, Goes(next, seen), quiet => StillStands(next, seen)
    PROVE  ReadingStands' /\ UNCHANGED history
<1>1. /\ pc' = next /\ saw' = seen
      /\ UNCHANGED <<files, literals, amendment, quiet, history>>
  BY DEF Goes, vendored, leanSide
<1>2. quiet' => StillStands(pc', saw')
  BY <1>1
<1> QED
  BY <1>1, <1>2 DEF ReadingStands, StillStands, Present

LEMMA StopsStands ==
    ASSUME NEW outcome, Stops(outcome, saw)
    PROVE  ReadingStands' /\ UNCHANGED <<files, literals, amendment>>
<1>1. pc' = "done" /\ UNCHANGED <<files, literals, amendment>>
  BY DEF Stops, vendored, leanSide
<1>2. "done" \notin WithSums \cup WithHashes \cup WithTree \cup WithLiterals \cup WithAmendment
  BY DEF WithSums, WithHashes, WithTree, WithLiterals, WithAmendment
<1> QED
  BY <1>1, <1>2 DEF ReadingStands, StillStands

LEMMA ReadsStands ==
    ASSUME NEW next, NEW seen, NEW ok, GoesIf(ok, next, seen), quiet => StillStands(next, seen)
    PROVE  ReadingStands' /\ UNCHANGED history
<1>1. CASE ok
  BY <1>1, GoesStands DEF GoesIf
<1>2. CASE ~ok
  BY <1>2, StopsStands DEF GoesIf, Breaks
<1> QED
  BY <1>1, <1>2

(* Every step of `vendor` but the last.                                       *)
LEMMA VendorStands ==
    ASSUME AuthorityInv, Vendor, ~ReadLabels
    PROVE  ReadingStands' /\ UNCHANGED history
<1> USE DEF WithSums, WithHashes, WithTree, WithLiterals, WithAmendment
<1>1. /\ saw = [f \in SawFields |-> saw[f]]
      /\ saw.sums \in Listings /\ saw.hashed \in Seq(Texts \cup {Missing})
      /\ Len(saw.hashed) <= Len(saw.sums)
      /\ pc = "sums" => saw.hashed = <<>>
  BY DEF AuthorityInv, TypeInv, RunOK, SawOK, NotHashed
<1>2. quiet => StillStands(pc, saw)
  BY DEF AuthorityInv, ReadingStands
<1>3. CASE ReadSums
  <2> DEFINE seen == [saw EXCEPT !.sums = sums]
  <2>1. pc = "sums" /\ seen.hashed = <<>>
    BY <1>1, <1>3 DEF ReadSums, SawFields
  <2>2. StillStands("hash", seen)
    BY <2>1 DEF StillStands
  <2> QED
    BY <1>3, <2>2, ReadsStands DEF ReadSums
<1>4. CASE HashListed
  <2> DEFINE next == Len(saw.hashed) + 1
  <2>1. /\ pc = "hash" /\ Len(saw.hashed) \in Nat /\ Len(saw.sums) \in Nat
    BY <1>1, <1>4, LenProperties DEF HashListed, Listings
  <2>2. CASE next > Len(saw.sums)
    <3>1. Goes("tree", saw) /\ Len(saw.hashed) = Len(saw.sums)
      BY <1>1, <1>4, <2>1, <2>2 DEF HashListed
    <3>2. quiet => StillStands("tree", saw)
      BY <1>2, <2>1, <3>1 DEF StillStands
    <3> QED
      BY <3>1, <3>2, GoesStands
  <2>3. CASE ~(next > Len(saw.sums))
    <3> DEFINE text == files[saw.sums[next].path]
               seen == [saw EXCEPT !.hashed = Append(@, text)]
    <3>1. Goes("hash", seen)
      BY <1>4, <2>3 DEF HashListed
    <3>2. seen.sums = saw.sums /\ seen.hashed = Append(saw.hashed, text)
      BY <1>1 DEF SawFields
    <3>3. Len(saw.sums) >= next
      BY <2>1, <2>3
    <3>4. saw.sums[next] \in Parsed \cup {Unparsable}
      BY <1>1, <2>1, <3>3 DEF Listings, Parsed
    <3>5. text \in Texts \cup {Missing}
      BY <1>1, <2>1, <3>3, ListedText DEF AuthorityInv, TypeInv, RunOK, SawOK
    <3> HIDE DEF seen
    <3>6. /\ Len(seen.hashed) = next
          /\ \A i \in 1 .. Len(saw.hashed) : seen.hashed[i] = saw.hashed[i]
          /\ seen.hashed[next] = text
      <4> DEFINE S == Texts \cup {Missing}
      <4>1. saw.hashed \in Seq(S) /\ text \in S
        BY <1>1, <3>5
      <4> HIDE DEF S, text
      <4> QED
        BY <3>2, <4>1, AppendProperties
    <3>7. quiet => StillStands("hash", seen)
      <4> SUFFICES ASSUME quiet, NEW i \in 1 .. Len(seen.hashed)
                   PROVE  seen.hashed[i] = files[seen.sums[i].path]
        BY DEF StillStands
      <4>1. CASE i = next
        BY <3>2, <3>6, <4>1
      <4>2. CASE i # next
        <5>1. i \in 1 .. Len(saw.hashed)
          BY <2>1, <3>6, <4>2
        <5> QED
          BY <1>2, <2>1, <3>2, <3>6, <5>1 DEF StillStands
      <4> QED
        BY <4>1, <4>2
    <3> QED
      BY <3>1, <3>7, GoesStands
  <2> QED
    BY <2>2, <2>3
<1>5. CASE Enumerate
  <2> DEFINE seen == [saw EXCEPT !.present = Present(files)]
  <2>1. GoesIf(saw.sums # <<>>, "revision", seen) /\ pc = "tree"
    BY <1>5 DEF Enumerate, Present
  <2>2. seen.sums = saw.sums /\ seen.hashed = saw.hashed /\ seen.present = Present(files)
    BY <1>1 DEF SawFields
  <2> HIDE DEF seen
  <2>3. quiet => StillStands("revision", seen)
    BY <1>2, <2>1, <2>2 DEF StillStands
  <2> QED
    BY <2>1, <2>3, ReadsStands
<1>6. CASE ReadRevision
  <2> DEFINE seen == [saw EXCEPT !.literals = literals]
  <2>1. GoesIf(literals # NoLiterals, "blobs", seen) /\ pc = "revision"
    BY <1>6 DEF ReadRevision
  <2>2. /\ seen.sums = saw.sums /\ seen.hashed = saw.hashed /\ seen.present = saw.present
        /\ seen.literals = literals
    BY <1>1 DEF SawFields
  <2> HIDE DEF seen
  <2>3. quiet => StillStands("blobs", seen)
    BY <1>2, <2>1, <2>2 DEF StillStands
  <2> QED
    BY <2>1, <2>3, ReadsStands
<1>7. ASSUME NEW k \in {"blobs", "blobbed", "commit", "anchors"}, NEW v,
             pc \in {"blobs", "blob", "commit", "anchors"},
             NEW next \in {"blob", "commit", "anchors", "labels"}
      PROVE  quiet => StillStands(next, [saw EXCEPT ![k] = v])
  <2> DEFINE seen == [saw EXCEPT ![k] = v]
  <2>1. /\ seen.sums = saw.sums /\ seen.hashed = saw.hashed /\ seen.present = saw.present
        /\ seen.literals = saw.literals
    BY <1>1, <1>7 DEF SawFields
  <2> HIDE DEF seen
  <2>2. quiet => StillStands(next, seen)
    BY <1>2, <1>7, <2>1 DEF StillStands
  <2> QED
    BY <2>2 DEF seen
<1>8. CASE ReadBlobs
  <2>1. quiet => StillStands("blob", [saw EXCEPT !.blobs = blobs])
    BY <1>7, <1>8 DEF ReadBlobs
  <2> QED
    BY <1>8, <2>1, ReadsStands DEF ReadBlobs
<1>9. CASE HashBlob
  <2> DEFINE next == Len(saw.blobbed) + 1
  <2>1. pc = "blob"
    BY <1>9 DEF HashBlob
  <2>2. CASE next > Len(saw.blobs)
    <3>1. quiet => StillStands("commit", saw)
      BY <1>2, <2>1 DEF StillStands
    <3> QED
      BY <1>9, <2>2, <3>1, GoesStands DEF HashBlob
  <2>3. CASE ~(next > Len(saw.blobs))
    <3> DEFINE v == Append(saw.blobbed, files[saw.blobs[next].path])
    <3>1. Goes("blob", [saw EXCEPT !.blobbed = v])
      BY <1>9, <2>3 DEF HashBlob
    <3> HIDE DEF v
    <3>2. quiet => StillStands("blob", [saw EXCEPT !.blobbed = v])
      BY <1>7, <2>1
    <3> QED
      BY <3>1, <3>2, GoesStands
  <2> QED
    BY <2>2, <2>3
<1>10. CASE ReadCommit
  <2>1. quiet => StillStands("anchors", [saw EXCEPT !.commit = pinned])
    BY <1>7, <1>10 DEF ReadCommit
  <2> QED
    BY <1>10, <2>1, ReadsStands DEF ReadCommit
<1>11. CASE ReadAnchors
  <2>1. quiet => StillStands("labels", [saw EXCEPT !.anchors = anchors])
    BY <1>7, <1>11 DEF ReadAnchors
  <2> QED
    BY <1>11, <2>1, ReadsStands DEF ReadAnchors
<1> QED
  BY <1>3, <1>4, <1>5, <1>6, <1>8, <1>9, <1>10, <1>11 DEF Vendor

(* Every step of `amendment` but the last.                                    *)
LEMMA AmendmentStands ==
    ASSUME AuthorityInv, Amendment, ~CountMarkers
    PROVE  ReadingStands' /\ UNCHANGED history
<1> USE DEF WithSums, WithHashes, WithTree, WithLiterals, WithAmendment
<1>1. saw = [f \in SawFields |-> saw[f]]
  BY DEF AuthorityInv, TypeInv, RunOK, SawOK
<1>2. quiet => StillStands(pc, saw)
  BY DEF AuthorityInv, ReadingStands
<1>3. CASE ReadRecords
  <2>1. StillStands("pin", [saw EXCEPT !.amendment = amendment])
    BY <1>1 DEF StillStands, SawFields
  <2> QED
    BY <1>3, <2>1, ReadsStands DEF ReadRecords
<1>4. ASSUME NEW k \in {"literals", "commit", "sums", "registered", "declaring"}, NEW v,
             pc \in WithAmendment,
             NEW next \in {"pinned", "manifest", "register", "names", "source"}
      PROVE  quiet => StillStands(next, [saw EXCEPT ![k] = v])
  <2> DEFINE seen == [saw EXCEPT ![k] = v]
  <2>1. seen.amendment = saw.amendment
    BY <1>1, <1>4 DEF SawFields
  <2> HIDE DEF seen
  <2>2. quiet => StillStands(next, seen)
    BY <1>2, <1>4, <2>1 DEF StillStands
  <2> QED
    BY <2>2 DEF seen
<1>5. CASE ReadPin
  <2>1. quiet => StillStands("pinned", [saw EXCEPT !.literals = literals])
    BY <1>4, <1>5 DEF ReadPin
  <2> QED
    BY <1>5, <2>1, ReadsStands DEF ReadPin
<1>6. CASE ReadPinned
  <2>1. quiet => StillStands("manifest", [saw EXCEPT !.commit = pinned])
    BY <1>4, <1>6 DEF ReadPinned
  <2> QED
    BY <1>6, <2>1, ReadsStands DEF ReadPinned
<1>7. CASE ReadManifest
  <2>1. quiet => StillStands("register", [saw EXCEPT !.sums = sums])
    BY <1>4, <1>7 DEF ReadManifest
  <2> QED
    BY <1>7, <2>1, GoesStands DEF ReadManifest
<1>8. CASE ReadRegister
  <2>1. quiet => StillStands("names", [saw EXCEPT !.registered = registered])
    BY <1>4, <1>8 DEF ReadRegister
  <2> QED
    BY <1>8, <2>1, ReadsStands DEF ReadRegister
<1>9. CASE ReadNames
  <2> DEFINE declaring == UNION {{m} \X DeclaredAt(lean[m], Decl) : m \in Modules}
  <2>1. Goes("source", [saw EXCEPT !.declaring = declaring]) /\ pc = "names"
    BY <1>9 DEF ReadNames
  <2> HIDE DEF declaring
  <2>2. quiet => StillStands("source", [saw EXCEPT !.declaring = declaring])
    BY <1>4, <2>1
  <2> QED
    BY <2>1, <2>2, GoesStands
<1>10. CASE ReadSource
  <2> DEFINE seen == [saw EXCEPT !.source = files[Source]]
  <2>1. Goes("markers", seen) /\ pc = "source"
    BY <1>10 DEF ReadSource
  <2>2. seen.amendment = saw.amendment /\ seen.source = files[Source]
    BY <1>1 DEF SawFields
  <2> HIDE DEF seen
  <2>3. quiet => StillStands("markers", seen)
    BY <1>2, <2>1, <2>2 DEF StillStands
  <2> QED
    BY <2>1, <2>3, GoesStands
<1> QED
  BY <1>3, <1>5, <1>6, <1>7, <1>8, <1>9, <1>10 DEF Amendment

(* A pass of `vendor` that nothing disturbed has seen the literals pin the tree. *)
LEMMA CleanVendorPins ==
    ASSUME AuthorityInv, quiet, pc = "labels", NEW labels, VendorClean(saw, labels)
    PROVE  Pins(literals, files)
<1>1. /\ \A i \in 1 .. Len(saw.hashed) : saw.hashed[i] = files[saw.sums[i].path]
      /\ Len(saw.hashed) = Len(saw.sums)
      /\ saw.present = Present(files) /\ saw.literals = literals
  BY DEF AuthorityInv, ReadingStands, StillStands, WithSums, WithHashes, WithTree, WithLiterals
<1>2. DOMAIN saw.sums = 1 .. Len(saw.sums)
  BY LenProperties DEF AuthorityInv, TypeInv, TypeOK, Listings
<1>3. /\ \A i \in DOMAIN saw.sums : saw.hashed[i] = saw.sums[i].text
      /\ Listed(saw.sums) = saw.present /\ saw.literals.manifest = saw.sums
  BY DEF VendorClean, Holds
<1> QED
  BY <1>1, <1>2, <1>3 DEF Pins

LEMMA ReadLabelsInv ==
    ASSUME AuthorityInv, ReadLabels
    PROVE  ReadingStands' /\ PassesPin'
<1> DEFINE labels == Labels \cap UNION {LinesOf(files[p]) : p \in Documents}
<1>1. /\ pc = "labels"
      /\ certified' = IF VendorClean(saw, labels) /\ quiet
                      THEN certified \cup {[literals |-> literals, files |-> files]}
                      ELSE certified
      /\ bound' = bound
  BY DEF ReadLabels
<1>2. PICK outcome : Stops(outcome, saw)
  BY DEF ReadLabels
<1> HIDE DEF labels
<1>3. ReadingStands'
  BY <1>2, StopsStands
<1>4. files \in [Paths -> Texts \cup {Missing}]
  BY DEF AuthorityInv, TypeInv, TypeOK
<1>5. \A c \in certified' : c.files \in [Paths -> Texts \cup {Missing}] /\ Pins(c.literals, c.files)
  <2>1. CASE VendorClean(saw, labels) /\ quiet
    <3>1. Pins(literals, files)
      BY <1>1, <2>1, CleanVendorPins
    <3> QED
      BY <1>1, <1>4, <2>1, <3>1 DEF AuthorityInv, PassesPin
  <2>2. CASE ~(VendorClean(saw, labels) /\ quiet)
    BY <1>1, <2>2 DEF AuthorityInv, PassesPin
  <2> QED
    BY <2>1, <2>2
<1> QED
  BY <1>1, <1>3, <1>5 DEF AuthorityInv, PassesPin

(* No patch applies to an empty source: its anchor is nowhere.                  *)
LEMMA EmptyIsRefused ==
    ASSUME NEW p, p.before \in Seq(Lines), Accepts(p, <<>>)
    PROVE  FALSE
<1>1. p.before # <<>> /\ Len(p.before) > Len(<<>>)
  BY DEF Accepts
<1>2. Occurrences(<<>>, p.before) = {}
  BY <1>1 DEF Occurrences
<1>3. Regions(p, <<>>) = {}
  BY <1>2 DEF Regions
<1>4. Cardinality(Regions(p, <<>>)) = 0
  BY <1>3, FS_EmptySet
<1> QED
  BY <1>4 DEF Accepts

LEMMA CountMarkersInv ==
    ASSUME AuthorityInv, CountMarkers
    PROVE  ReadingStands' /\ PassesPin'
<1>1. /\ pc = "markers" /\ certified' = certified
      /\ bound' = IF AmendmentClean(saw) /\ quiet
                  THEN bound \cup {[amendment |-> amendment, source |-> files[Source]]}
                  ELSE bound
  BY DEF CountMarkers
<1>2. PICK outcome : Stops(outcome, saw)
  BY DEF CountMarkers
<1>3. ReadingStands'
  BY <1>2, StopsStands
<1>4. AmendmentClean(saw) /\ quiet => files[Source] = amendment.digest
  <2> SUFFICES ASSUME AmendmentClean(saw), quiet
               PROVE  files[Source] = amendment.digest
    OBVIOUS
  <2>1. saw.amendment = amendment /\ saw.source = files[Source]
    BY <1>1 DEF AuthorityInv, ReadingStands, StillStands, WithAmendment
  <2>2. amendment.patch.before \in Seq(Lines)
    BY DEF AuthorityInv, TypeInv, TypeOK, Records, RecordedPatches, Texts
  <2>3. Accepts(amendment.patch, saw.source) /\ SourcePinned(saw)
    BY <2>1 DEF AmendmentClean
  <2>4. saw.source # <<>>
    BY <2>2, <2>3, EmptyIsRefused
  <2> QED
    BY <2>1, <2>3, <2>4 DEF SourcePinned
<1>5. \A c \in bound' : c.source = c.amendment.digest
  BY <1>1, <1>4 DEF AuthorityInv, PassesPin
<1> QED
  BY <1>1, <1>3, <1>5 DEF AuthorityInv, PassesPin

LEMMA NextInv ==
    ASSUME AuthorityInv, [Next]_vars
    PROVE  AuthorityInv'
<1>1. TypeInv'
  BY NextType DEF AuthorityInv
<1>2. UNCHANGED history => PassesPin'
  BY DEF history, AuthorityInv, PassesPin
<1>3. CASE Edit
  <2>1. ~quiet' /\ UNCHANGED history
    BY <1>3 DEF Edit, EditVendored, EditManifest, EditPin, Repin, EditAnchors, EditAmendment,
                EditRegister, EditLean, Disturb
  <2> QED
    BY <1>1, <1>2, <2>1 DEF AuthorityInv, ReadingStands
<1>4. ASSUME NEW c \in {"vendor", "amendment"}, Start(c)
      PROVE  AuthorityInv'
  <2>1. pc' \in {"sums", "records"} /\ UNCHANGED history
    BY <1>4 DEF Start
  <2>2. ReadingStands'
    BY <2>1 DEF ReadingStands, StillStands, WithSums, WithHashes, WithTree, WithLiterals,
                WithAmendment
  <2> QED
    BY <1>1, <1>2, <2>1, <2>2 DEF AuthorityInv
<1>5. CASE Vendor
  BY <1>1, <1>2, <1>5, VendorStands, ReadLabelsInv DEF AuthorityInv
<1>6. CASE Amendment
  BY <1>1, <1>2, <1>6, AmendmentStands, CountMarkersInv DEF AuthorityInv
<1>7. CASE UNCHANGED vars
  <2>1. UNCHANGED <<files, literals, amendment, quiet, pc, saw, history>>
    BY <1>7 DEF vars, vendored, leanSide, run
  <2> QED
    BY <1>1, <1>2, <2>1 DEF AuthorityInv, ReadingStands, StillStands, Present
<1> QED
  BY <1>3, <1>4, <1>5, <1>6, <1>7 DEF Next

LEMMA InitInv == Init => AuthorityInv
<1>1. Init => TypeInv
  BY InitType
<1>2. Init => ReadingStands /\ PassesPin
  BY DEF Init, ReadingStands, PassesPin
<1> QED
  BY <1>1, <1>2 DEF AuthorityInv

THEOREM AuthorityInvariant == Spec => []AuthorityInv
  BY InitInv, NextInv, PTL DEF Spec

(* Two trees that the same literals pin are the same.                          *)
LEMMA PinnedTreesAgree ==
    ASSUME NEW l, NEW f \in [Paths -> Texts \cup {Missing}], NEW g \in [Paths -> Texts \cup {Missing}],
           Pins(l, f), Pins(l, g)
    PROVE  f = g
<1> SUFFICES ASSUME NEW p \in Paths
             PROVE  f[p] = g[p]
  OBVIOUS
<1>1. CASE p \in Listed(l.manifest)
  <2>1. PICK i \in DOMAIN l.manifest : l.manifest[i].path = p
    BY <1>1 DEF Listed
  <2> QED
    BY <2>1 DEF Pins
<1>2. CASE p \notin Listed(l.manifest)
  BY <1>2 DEF Pins, Present
<1> QED
  BY <1>1, <1>2

(* The Lean literals stand for one vendored tree, whatever a developer does     *)
(* between the passes (vendor.rs:293, 366).                                  *)
THEOREM LiteralsPin == Spec => []LiteralsPinTheTree
<1>1. AuthorityInv => LiteralsPinTheTree
  BY PinnedTreesAgree DEF AuthorityInv, PassesPin, LiteralsPinTheTree
<1> QED
  BY <1>1, AuthorityInvariant, PTL

(* An amendment stands for one source text, although the digest of an empty     *)
(* source is not compared: an anchor cannot be in it (amendment.rs:268, 291,   *)
(* 385).                                                                     *)
THEOREM AmendedSource == Spec => []AmendedSourceIsPinned
<1>1. AuthorityInv => AmendedSourceIsPinned
  BY DEF AuthorityInv, PassesPin, AmendedSourceIsPinned
<1> QED
  BY <1>1, AuthorityInvariant, PTL

--------------------------------------------------------------------------------
(* Names in Lean files, for files of every length. *)

(* Induction, for a set instead of a predicate.                              *)
LEMMA NatSet ==
    ASSUME NEW T \in SUBSET Nat, 0 \in T, \A n \in T : n + 1 \in T
    PROVE  T = Nat
<1> DEFINE Less == OpToRel(<, Nat)
<1>1. IsWellFoundedOn(Less, Nat)
  BY NatLessThanWellFounded
<1>2. \A x, y \in Nat : x < y => <<x, y>> \in Less
  BY DEF OpToRel
<1> HIDE DEF Less
<1>3. SUFFICES ASSUME Nat \ T # {} PROVE FALSE
  OBVIOUS
<1>4. PICK x \in Nat \ T : \A y \in Nat \ T : ~ (<<y, x>> \in Less)
  <2>1. Nat \ T \subseteq Nat /\ Nat \ T # {}
    BY <1>3
  <2> QED
    BY <1>1, <2>1, WFMin, Zenon
<1>5. x # 0 /\ x - 1 \in Nat
  OBVIOUS
<1>6. x - 1 \notin Nat \ T
  <2>1. x - 1 < x /\ x \in Nat /\ x - 1 \in Nat
    BY <1>5
  <2>2. <<x - 1, x>> \in Less
    BY <1>2, <2>1
  <2> QED
    BY <1>4, <2>2, Zenon
<1>7. x - 1 \in T
  BY <1>5, <1>6
<1> QED
  BY <1>5, <1>7

(* What one line does to the namespaces that are open.                        *)
Follow(reader, stack, file, i) ==
    CASE ~Reads(file, i, reader) -> stack
      [] file[i].is = "namespace" -> Append(stack, NameBy(file[i], reader))
      [] file[i].is = "end" /\ Closes(reader, stack, NameBy(file[i], reader)) -> Pop(stack)
      [] OTHER -> stack

(* The equation that defines the namespaces open at each line up to n.         *)
Stacks(file, n, reader, f) ==
    f = [i \in 0 .. n |-> IF i = 0 THEN <<>> ELSE Follow(reader, f[i - 1], file, i)]

LEMMA StacksExist == \A file, reader : \A n \in Nat : \E f : Stacks(file, n, reader, f)
<1> TAKE file, reader
<1> DEFINE T == {n \in Nat : \E f : Stacks(file, n, reader, f)}
<1>1. 0 \in T
  <2>1. Stacks(file, 0, reader, [i \in 0 .. 0 |-> <<>>])
    BY DEF Stacks
  <2> QED
    BY <2>1
<1>2. ASSUME NEW n \in T PROVE n + 1 \in T
  <2>1. PICK f : Stacks(file, n, reader, f)
    OBVIOUS
  <2> DEFINE g == [i \in 0 .. n + 1 |->
                      IF i = n + 1 THEN Follow(reader, f[n], file, n + 1) ELSE f[i]]
  <2>2. \A i \in 0 .. n + 1 : g[i] = IF i = 0 THEN <<>> ELSE Follow(reader, g[i - 1], file, i)
    <3> SUFFICES ASSUME NEW i \in 0 .. n + 1
                 PROVE  g[i] = IF i = 0 THEN <<>> ELSE Follow(reader, g[i - 1], file, i)
      OBVIOUS
    <3>1. CASE i = n + 1
      BY <3>1
    <3>2. CASE i # n + 1
      <4>1. i \in 0 .. n /\ (i # 0 => i - 1 \in 0 .. n /\ i - 1 # n + 1)
        BY <3>2
      <4>2. g[i] = f[i] /\ (i # 0 => g[i - 1] = f[i - 1])
        BY <3>2, <4>1
      <4>3. f[i] = IF i = 0 THEN <<>> ELSE Follow(reader, f[i - 1], file, i)
        BY <2>1, <4>1 DEF Stacks
      <4> QED
        BY <4>2, <4>3
    <3> QED
      BY <3>1, <3>2
  <2>3. Stacks(file, n + 1, reader, g)
    BY <2>2 DEF Stacks
  <2>4. \E h : Stacks(file, n + 1, reader, h)
    <3> HIDE DEF g
    <3> QED
      BY <2>3, Zenon
  <2>5. n + 1 \in Nat
    OBVIOUS
  <2> QED
    BY <2>4, <2>5, Zenon
<1> HIDE DEF T
<1>3. T \subseteq Nat
  BY DEF T
<1>4. T = Nat
  BY <1>1, <1>2, <1>3, NatSet
<1> QED
  BY <1>4 DEF T

(* Up to a line they do not depend on how far the reader goes.                 *)
LEMMA StacksAgree ==
    ASSUME NEW file, NEW reader, NEW n \in Nat, NEW m \in Nat, n <= m,
           NEW f, Stacks(file, n, reader, f), NEW g, Stacks(file, m, reader, g)
    PROVE  f[n] = g[n]
<1> DEFINE T == {k \in Nat : k <= n => f[k] = g[k]}
<1>1. 0 \in T
  BY DEF Stacks
<1>2. ASSUME NEW k \in T PROVE k + 1 \in T
  <2> SUFFICES ASSUME k + 1 <= n PROVE f[k + 1] = g[k + 1]
    OBVIOUS
  <2>1. k + 1 \in 0 .. n /\ k + 1 \in 0 .. m /\ k + 1 # 0 /\ k + 1 - 1 = k /\ k <= n
    OBVIOUS
  <2>2. f[k + 1] = Follow(reader, f[k], file, k + 1)
    BY <2>1 DEF Stacks
  <2>3. g[k + 1] = Follow(reader, g[k], file, k + 1)
    BY <2>1 DEF Stacks
  <2> QED
    BY <2>1, <2>2, <2>3
<1> HIDE DEF T
<1>3. T \subseteq Nat
  BY DEF T
<1>4. T = Nat
  BY <1>1, <1>2, <1>3, NatSet
<1> QED
  BY <1>4 DEF T

(* The namespaces open at the end of the first lines, one line after another.   *)
LEMMA OpenIs ==
    ASSUME NEW file, NEW reader, NEW n \in Nat
    PROVE  \E f : Stacks(file, n, reader, f) /\ Open(file, n, reader) = f[n]
<1> DEFINE f == CHOOSE stack : Stacks(file, n, reader, stack)
<1>1. Open(file, n, reader) = f[n]
  BY DEF Open, Stacks, Follow
<1>2. Stacks(file, n, reader, f)
  BY StacksExist
<1> QED
  BY <1>1, <1>2

LEMMA OpenUnfold ==
    ASSUME NEW file, NEW reader
    PROVE  /\ Open(file, 0, reader) = <<>>
           /\ \A n \in Nat : Open(file, n + 1, reader)
                                 = Follow(reader, Open(file, n, reader), file, n + 1)
<1>1. Open(file, 0, reader) = <<>>
  <2>1. PICK f : Stacks(file, 0, reader, f) /\ Open(file, 0, reader) = f[0]
    BY OpenIs
  <2> QED
    BY <2>1 DEF Stacks
<1>2. ASSUME NEW n \in Nat
      PROVE  Open(file, n + 1, reader) = Follow(reader, Open(file, n, reader), file, n + 1)
  <2>0. n + 1 \in Nat /\ n <= n + 1 /\ n + 1 \in 0 .. n + 1 /\ n + 1 # 0 /\ n + 1 - 1 = n
    OBVIOUS
  <2>1. PICK f : Stacks(file, n, reader, f) /\ Open(file, n, reader) = f[n]
    BY OpenIs
  <2>2. PICK g : Stacks(file, n + 1, reader, g) /\ Open(file, n + 1, reader) = g[n + 1]
    BY <2>0, OpenIs
  <2>3. f[n] = g[n]
    BY <2>0, <2>1, <2>2, StacksAgree
  <2>4. g[n + 1] = Follow(reader, g[n], file, n + 1)
    BY <2>0, <2>2 DEF Stacks
  <2> QED
    BY <2>1, <2>2, <2>3, <2>4
<1> QED
  BY <1>1, <1>2

(* A line that is no `namespace` and no `end` leaves them as they are.          *)
LEMMA NothingOpens ==
    ASSUME NEW file, NEW reader, NEW n \in Nat, file[n + 1].is \notin {"namespace", "end"}
    PROVE  Open(file, n + 1, reader) = Open(file, n, reader)
  BY OpenUnfold DEF Follow

(* The two readers have the same namespaces open as long as they read alike the  *)
(* lines that open and close them.                                           *)
LEMMA SameNamespaces ==
    ASSUME NEW file, NEW m \in Nat,
           \A k \in 1 .. m : file[k].is \in {"namespace", "end"} =>
               ReadAlike(file, k) /\ PlainlyScoped(file, k)
    PROVE  \A n \in Nat : n <= m => Open(file, n, "core") = Open(file, n, "amendment")
<1> DEFINE T == {n \in Nat : n <= m => Open(file, n, "core") = Open(file, n, "amendment")}
<1>1. 0 \in T
  BY OpenUnfold
<1>2. ASSUME NEW n \in T PROVE n + 1 \in T
  <2> SUFFICES ASSUME n + 1 <= m
               PROVE  Open(file, n + 1, "core") = Open(file, n + 1, "amendment")
    OBVIOUS
  <2> DEFINE stack == Open(file, n, "core")
             line == file[n + 1]
  <2>1. n \in Nat /\ n <= m /\ n + 1 \in 1 .. m /\ n + 1 - 1 = n
    OBVIOUS
  <2>2. Open(file, n, "amendment") = stack
    BY <2>1
  <2>3. /\ Open(file, n + 1, "core") = Follow("core", stack, file, n + 1)
        /\ Open(file, n + 1, "amendment") = Follow("amendment", stack, file, n + 1)
    <3>1. \A reader : Open(file, n + 1, reader) = Follow(reader, Open(file, n, reader), file, n + 1)
      BY <2>1, OpenUnfold
    <3> HIDE DEF line
    <3> QED
      BY <2>2, <3>1
  <2>4. CASE line.is \notin {"namespace", "end"}
    BY <2>1, <2>2, <2>4, NothingOpens
  <2>5. CASE line.is \in {"namespace", "end"}
    <3>1. ReadAlike(file, n + 1) /\ PlainlyScoped(file, n + 1)
      BY <2>1, <2>5
    <3>2. /\ Reads(file, n + 1, "core") /\ Reads(file, n + 1, "amendment")
          /\ NameBy(line, "core") = line.name /\ NameBy(line, "amendment") = line.name
      BY <3>1 DEF ReadAlike, Readers, NameBy
    <3>3. line.is = "end" =>
              \/ stack = <<>> \/ Top(stack) = line.name
              \/ LastSegment(Top(stack)) # line.name
      BY <2>1, <3>1 DEF PlainlyScoped
    <3>4. line.is = "end" => (Closes("core", stack, line.name) <=> Closes("amendment", stack, line.name))
      BY <3>3 DEF Closes, CoreCloses, AmendmentCloses
    <3> HIDE DEF stack
    <3>5. Follow("core", stack, file, n + 1) = Follow("amendment", stack, file, n + 1)
      BY <3>2, <3>4 DEF Follow
    <3> QED
      BY <2>3, <3>5
  <2> QED
    BY <2>4, <2>5
<1> HIDE DEF T
<1>3. T \subseteq Nat
  BY DEF T
<1>4. T = Nat
  BY <1>1, <1>2, <1>3, NatSet
<1> QED
  BY <1>4 DEF T

(* The line a marker is attached to is below it, with only comments between.    *)
LEMMA LeastLine ==
    ASSUME NEW S \in SUBSET Nat, S # {}
    PROVE  \E j \in S : \A k \in S : j <= k
<1> DEFINE Less == OpToRel(<, Nat)
<1>1. IsWellFoundedOn(Less, Nat)
  BY NatLessThanWellFounded
<1>2. \A x, y \in Nat : x < y => <<x, y>> \in Less
  BY DEF OpToRel
<1> HIDE DEF Less
<1>3. \E x \in S : \A y \in S : ~ (<<y, x>> \in Less)
  BY <1>1, WFMin, Zenon
<1>4. PICK x \in S : \A y \in S : ~ (<<y, x>> \in Less)
  BY <1>3, Zenon
<1>5. \A y \in S : ~ (y < x)
  BY <1>2, <1>4, Zenon
<1>6. \A y \in S : x <= y
  BY <1>5
<1> QED
  BY <1>6

LEMMA NextLineIs ==
    ASSUME NEW file \in Seq(LeanLines), NEW i \in 1 .. Len(file), NextLine(file, i) # 0
    PROVE  /\ NextLine(file, i) \in i + 1 .. Len(file)
           /\ \A k \in i + 1 .. Len(file) : k < NextLine(file, i) => file[k].is \in {"mark", "open", "close"}
<1> DEFINE after == {j \in i + 1 .. Len(file) : file[j].is \notin {"mark", "open", "close"}}
           j == CHOOSE j \in after : \A k \in after : j <= k
<1>1. after # {} /\ NextLine(file, i) = j
  BY DEF NextLine
<1>2. after \in SUBSET Nat
  <2>1. \A k \in i + 1 .. Len(file) : k \in Nat
    OBVIOUS
  <2> QED
    BY <2>1
<1>3. j \in after /\ \A k \in after : j <= k
  <2>1. \E k \in after : \A l \in after : k <= l
    <3> HIDE DEF after
    <3> QED
      BY <1>1, <1>2, LeastLine, Zenon
  <2> HIDE DEF after
  <2> QED
    BY <2>1
<1>4. \A k \in i + 1 .. Len(file) : k < j => ~ (j <= k)
  <2>1. j \in i + 1 .. Len(file)
    BY <1>3
  <2> HIDE DEF j
  <2> QED
    BY <2>1
<1> HIDE DEF j
<1> QED
  BY <1>1, <1>3, <1>4

LEMMA OverMarks ==
    ASSUME NEW file \in Seq(LeanLines), NEW i \in 1 .. Len(file), NextLine(file, i) # 0,
           NEW reader
    PROVE  Open(file, NextLine(file, i) - 1, reader) = Open(file, i, reader)
<1> DEFINE j == NextLine(file, i)
           T == {k \in Nat : i <= k /\ k < j => Open(file, k, reader) = Open(file, i, reader)}
<1>1. /\ j \in i + 1 .. Len(file)
      /\ \A k \in i + 1 .. Len(file) : k < j => file[k].is \in {"mark", "open", "close"}
  BY NextLineIs
<1> HIDE DEF j
<1>2. 0 \in T
  OBVIOUS
<1>3. ASSUME NEW k \in T PROVE k + 1 \in T
  <2> SUFFICES ASSUME i <= k + 1, k + 1 < j
               PROVE  Open(file, k + 1, reader) = Open(file, i, reader)
    OBVIOUS
  <2>1. CASE i = k + 1
    BY <2>1
  <2>2. CASE i # k + 1
    <3>1. k \in Nat /\ i <= k /\ k < j /\ k + 1 \in i + 1 .. Len(file)
      BY <1>1, <2>2
    <3>2. file[k + 1].is \in {"mark", "open", "close"}
      BY <1>1, <3>1
    <3>3. Open(file, k + 1, reader) = Open(file, k, reader)
      BY <3>1, <3>2, NothingOpens
    <3> QED
      BY <3>1, <3>3
  <2> QED
    BY <2>1, <2>2
<1> HIDE DEF T
<1>4. T \subseteq Nat
  BY DEF T
<1>5. T = Nat
  BY <1>2, <1>3, <1>4, NatSet
<1>6. j - 1 \in Nat /\ i <= j - 1 /\ j - 1 < j
  BY <1>1
<1>7. Open(file, j - 1, reader) = Open(file, i, reader)
  BY <1>5, <1>6 DEF T
<1> QED
  BY <1>7 DEF j

(* What a marker above a plain declaration is attached to is declared on the     *)
(* line of that declaration.                                                 *)
LEMMA AttachedIsDeclared ==
    ASSUME NEW file \in Seq(LeanLines), NEW i \in 1 .. Len(file),
           AttachedTo(file, i) # <<>>, PlainDeclaration(file, NextLine(file, i))
    PROVE  NextLine(file, i) \in DeclaredAt(file, AttachedTo(file, i))
<1> DEFINE j == NextLine(file, i)
<1>1. j # 0 /\ OpensDeclaration(file[j], "core")
  BY DEF PlainDeclaration
<1>2. j \in i + 1 .. Len(file)
  BY <1>1, NextLineIs
<1>3. AttachedTo(file, i) = Qualified(Open(file, i, "core"), file[j].name)
  BY <1>1 DEF AttachedTo, OpensDeclaration
<1>4. Open(file, j - 1, "core") = Open(file, i, "core")
  BY <1>1, OverMarks
<1>5. file[j].is \in {"decl", "inductive"} /\ file[j].is \notin {"namespace", "end"}
  BY <1>1 DEF OpensDeclaration
<1>6. \A k \in 1 .. j : k = j \/ file[k].is \in {"namespace", "end"} =>
          ReadAlike(file, k) /\ PlainlyScoped(file, k)
  BY DEF PlainDeclaration
<1> HIDE DEF j
<1>7. j - 1 \in Nat /\ j - 1 + 1 = j /\ j \in DOMAIN file /\ j \in Nat /\ j \in 1 .. j /\ j <= j
  BY <1>2
<1>8. Open(file, j, "core") = Open(file, j - 1, "core")
  BY <1>5, <1>7, NothingOpens
<1>9. Open(file, j, "core") = Open(file, j, "amendment")
  BY <1>6, <1>7, SameNamespaces
<1>10. Reads(file, j, "amendment") /\ file[j].name = file[j].ascii /\ "amendment" \in file[j].by
  <2>1. ReadAlike(file, j)
    BY <1>6, <1>7
  <2> QED
    BY <2>1 DEF ReadAlike, Readers, Reads
<1>11. AttachedTo(file, i) = Qualified(Open(file, j, "amendment"), file[j].ascii)
  BY <1>3, <1>4, <1>8, <1>9, <1>10
<1>12. OpensDeclaration(file[j], "amendment")
  BY <1>5, <1>10 DEF OpensDeclaration
<1>13. j \in DeclaredAt(file, AttachedTo(file, i))
  BY <1>7, <1>10, <1>11, <1>12 DEF DeclaredAt
<1> QED
  BY <1>13 DEF j

LEMMA LeanFilesAreSequences == \A n \in Nat : LeanFilesUpTo(n) \subseteq Seq(LeanLines)
  BY DEF LeanFilesUpTo

(* In files of every length: where both readers see a declaration alike, and     *)
(* every line above it that opens or closes a namespace, what core.rs attaches  *)
(* a marker to amendment.rs finds declared (amendment.rs:594, core.rs:629).     *)
THEOREM ReadersOfNamesAgree == Spec => []ReadersAgree
<1>1. ASSUME NEW file \in Seq(LeanLines), NEW c \in Claims(file), c.plain
      PROVE  DeclaredAt(file, c.to) # {}
  <2>1. PICK i \in DOMAIN file :
            /\ AttachedTo(file, i) # <<>> /\ c.to = AttachedTo(file, i)
            /\ c.plain = PlainDeclaration(file, NextLine(file, i))
    BY DEF Claims
  <2>2. i \in 1 .. Len(file)
    OBVIOUS
  <2>3. PlainDeclaration(file, NextLine(file, i))
    BY <1>1, <2>1, Zenon
  <2> QED
    BY <1>1, <2>1, <2>2, <2>3, AttachedIsDeclared
<1>2. ReadersAgree
  BY <1>1, LeanFilesAreSequences, LeanNamesAssumption DEF ReadersAgree, ReadersAgreeUpTo
<1> QED
  BY <1>2, PTL

--------------------------------------------------------------------------------
(* Markers on the amended declaration. *)

Declaring == UNION {{m} \X DeclaredAt(lean[m], Decl) : m \in Modules}

(* The declaring files that a quiet pass of `amendment` has found are those that *)
(* declare the name, and no line in them is a marker it knows.  A pass belongs  *)
(* to the command that made it.                                              *)
NamesStand ==
    /\ pc \in {"sums"} \cup WithSums => command = "vendor"
    /\ quiet /\ pc \in {"source", "markers"} => saw.declaring = Declaring
    /\ Undisturbed("amendment") => \A d \in Declaring : Markers(lean[d[1]]) = 0

LEMMA GoesNames ==
    ASSUME NamesStand, NEW next, NEW seen, Goes(next, seen), next # "done",
           next \in WithSums => command = "vendor",
           next # "sums",
           quiet /\ next \in {"source", "markers"} => seen.declaring = Declaring
    PROVE  NamesStand'
<1>1. pc' = next /\ saw' = seen /\ UNCHANGED <<lean, command, quiet>>
  BY DEF Goes, leanSide
<1>2. Declaring' = Declaring
  BY <1>1 DEF Declaring
<1> QED
  BY <1>1, <1>2 DEF NamesStand, Undisturbed

LEMMA StopsNames ==
    ASSUME NamesStand, NEW outcome, Stops(outcome, saw),
           outcome = "pass" /\ quiet /\ command = "amendment"
               => \A d \in Declaring : Markers(lean[d[1]]) = 0
    PROVE  NamesStand'
<1>1. pc' = "done" /\ saw' = saw /\ exit' = outcome /\ UNCHANGED <<lean, command, quiet>>
  BY DEF Stops, leanSide
<1>2. Declaring' = Declaring
  BY <1>1 DEF Declaring
<1>3. \A d : Markers(lean[d[1]])' = Markers(lean[d[1]])
  BY <1>1
<1> QED
  BY <1>1, <1>2, <1>3 DEF NamesStand, Undisturbed, WithSums

LEMMA ReadsNames ==
    ASSUME NamesStand, NEW next, NEW seen, NEW ok, GoesIf(ok, next, seen), next # "done",
           next \in WithSums => command = "vendor",
           next # "sums",
           quiet /\ next \in {"source", "markers"} => seen.declaring = Declaring
    PROVE  NamesStand'
<1>1. CASE ok
  BY <1>1, GoesNames DEF GoesIf
<1>2. CASE ~ok
  BY <1>2, StopsNames DEF GoesIf, Breaks
<1> QED
  BY <1>1, <1>2

LEMMA VendorNames == ASSUME NamesStand, Vendor PROVE NamesStand'
<1>1. command = "vendor" /\ command # "amendment"
  BY DEF Vendor, ReadSums, HashListed, Enumerate, ReadRevision, ReadBlobs, HashBlob,
         ReadCommit, ReadAnchors, ReadLabels, NamesStand, WithSums
<1>2. CASE ReadSums
  BY <1>1, <1>2, ReadsNames DEF ReadSums
<1>3. CASE HashListed
  BY <1>1, <1>3, GoesNames DEF HashListed
<1>4. CASE Enumerate
  BY <1>1, <1>4, ReadsNames DEF Enumerate
<1>5. CASE ReadRevision
  BY <1>1, <1>5, ReadsNames DEF ReadRevision
<1>6. CASE ReadBlobs
  BY <1>1, <1>6, ReadsNames DEF ReadBlobs
<1>7. CASE HashBlob
  BY <1>1, <1>7, GoesNames DEF HashBlob
<1>8. CASE ReadCommit
  BY <1>1, <1>8, ReadsNames DEF ReadCommit
<1>9. CASE ReadAnchors
  BY <1>1, <1>9, ReadsNames DEF ReadAnchors
<1>10. CASE ReadLabels
  <2>1. PICK outcome : Stops(outcome, saw)
    BY <1>10 DEF ReadLabels
  <2> QED
    BY <1>1, <2>1, StopsNames
<1> QED
  BY <1>2, <1>3, <1>4, <1>5, <1>6, <1>7, <1>8, <1>9, <1>10 DEF Vendor

LEMMA AmendmentNames == ASSUME TypeInv, NamesStand, Amendment PROVE NamesStand'
<1>1. saw = [f \in SawFields |-> saw[f]]
  BY DEF TypeInv, RunOK, SawOK
<1>2. {"pin", "pinned", "manifest", "register", "names", "source", "markers"}
          \cap (WithSums \cup {"done", "sums"}) = {}
  BY DEF WithSums
<1>3. CASE ReadRecords
  BY <1>2, <1>3, ReadsNames DEF ReadRecords
<1>4. CASE ReadPin
  BY <1>2, <1>4, ReadsNames DEF ReadPin
<1>5. CASE ReadPinned
  BY <1>2, <1>5, ReadsNames DEF ReadPinned
<1>6. CASE ReadManifest
  BY <1>2, <1>6, GoesNames DEF ReadManifest
<1>7. CASE ReadRegister
  BY <1>2, <1>7, ReadsNames DEF ReadRegister
<1>8. CASE ReadNames
  <2> DEFINE seen == [saw EXCEPT !.declaring = Declaring]
  <2>1. Goes("source", seen)
    BY <1>8 DEF ReadNames, Declaring
  <2>2. seen.declaring = Declaring
    BY <1>1 DEF SawFields
  <2> HIDE DEF seen
  <2> QED
    BY <1>2, <2>1, <2>2, GoesNames
<1>9. CASE ReadSource
  <2> DEFINE seen == [saw EXCEPT !.source = files[Source]]
  <2>1. Goes("markers", seen) /\ pc = "source"
    BY <1>9 DEF ReadSource
  <2>2. seen.declaring = saw.declaring
    BY <1>1 DEF SawFields
  <2>3. quiet => saw.declaring = Declaring
    BY <2>1 DEF NamesStand
  <2> HIDE DEF seen
  <2> QED
    BY <1>2, <2>1, <2>2, <2>3, GoesNames
<1>10. CASE CountMarkers
  <2> DEFINE outcome == IF AmendmentClean(saw) THEN "pass" ELSE "fail"
  <2>1. Stops(outcome, saw) /\ pc = "markers"
    BY <1>10 DEF CountMarkers
  <2>2. quiet => saw.declaring = Declaring
    BY <2>1 DEF NamesStand
  <2>3. outcome = "pass" /\ quiet => \A d \in Declaring : Markers(lean[d[1]]) = 0
    BY <2>2 DEF AmendmentClean
  <2> HIDE DEF outcome
  <2> QED
    BY <2>1, <2>3, StopsNames
<1> QED
  BY <1>3, <1>4, <1>5, <1>6, <1>7, <1>8, <1>9, <1>10 DEF Amendment

LEMMA NextNames == ASSUME TypeInv, NamesStand, [Next]_vars PROVE NamesStand'
<1>1. CASE Edit
  <2>1. ~quiet' /\ UNCHANGED run
    BY <1>1 DEF Edit, EditVendored, EditManifest, EditPin, Repin, EditAnchors, EditAmendment,
                EditRegister, EditLean, Disturb
  <2> QED
    BY <2>1 DEF NamesStand, Undisturbed, run
<1>2. ASSUME NEW c \in {"vendor", "amendment"}, Start(c)
      PROVE  NamesStand'
  BY <1>2 DEF Start, NamesStand, Undisturbed, WithSums
<1>3. CASE Vendor
  BY <1>3, VendorNames
<1>4. CASE Amendment
  BY <1>4, AmendmentNames
<1>5. CASE UNCHANGED vars
  <2>1. UNCHANGED <<lean, command, pc, saw, exit, quiet>>
    BY <1>5 DEF vars, leanSide, run
  <2>2. Declaring' = Declaring
    BY <2>1 DEF Declaring
  <2> QED
    BY <2>1, <2>2 DEF NamesStand, Undisturbed
<1> QED
  BY <1>1, <1>2, <1>3, <1>4, <1>5 DEF Next

(* A marker of its own that both commands know is counted.                     *)
LEMMA MarkerCounts ==
    ASSUME NEW file \in Seq(LeanLines), NEW i \in DOMAIN file,
           file[i].is = "mark", file[i].own, file[i].kind = "rule"
    PROVE  Markers(file) # 0
<1> DEFINE S == {k \in DOMAIN file : /\ file[k].is = "mark" /\ file[k].own
                                     /\ file[k].kind \in NeutralKinds}
<1>1. "rule" \in NeutralKinds
  BY DEF NeutralKinds
<1>2. i \in S
  BY <1>1
<1>3. IsFiniteSet(DOMAIN file)
  <2>1. Len(file) \in Nat /\ DOMAIN file = 1 .. Len(file)
    OBVIOUS
  <2>2. IsFiniteSet(1 .. Len(file))
    BY <2>1, FS_Interval
  <2> QED
    BY <2>1, <2>2
<1>4. IsFiniteSet(S)
  <2>1. S \subseteq DOMAIN file
    OBVIOUS
  <2> HIDE DEF S
  <2> QED
    BY <1>3, <2>1, FS_Subset
<1>5. Cardinality(S) # 0
  <2> HIDE DEF S
  <2> QED
    BY <1>2, <1>4, FS_EmptySet
<1> QED
  BY <1>5 DEF Markers

(* No marker that both commands know, above a line both take for a declaration,  *)
(* is attached to the declaration of a file without markers.                  *)
LEMMA NoneAttached ==
    ASSUME NEW m \in Modules, lean[m] \in Seq(LeanLines),
           \A d \in Declaring : Markers(lean[d[1]]) = 0,
           NEW c \in Claims(lean[m]), c.kind = "rule", c.own, c.plain
    PROVE  c.to # Decl
<1> DEFINE file == lean[m]
<1>1. PICK i \in DOMAIN file :
          /\ file[i].is = "mark" /\ AttachedTo(file, i) # <<>>
          /\ c = [kind |-> file[i].kind, own |-> file[i].own, to |-> AttachedTo(file, i),
                  plain |-> PlainDeclaration(file, NextLine(file, i))]
  BY DEF Claims
<1>2. /\ c.kind = file[i].kind /\ c.own = file[i].own /\ c.to = AttachedTo(file, i)
      /\ c.plain = PlainDeclaration(file, NextLine(file, i))
  BY <1>1, Zenon
<1>3. file[i].kind = "rule" /\ file[i].own
  BY <1>2, Zenon
<1>4. PlainDeclaration(file, NextLine(file, i))
  BY <1>2, Zenon
<1> SUFFICES ASSUME c.to = Decl PROVE FALSE
  OBVIOUS
<1>5. i \in 1 .. Len(file)
  OBVIOUS
<1>6. NextLine(file, i) \in DeclaredAt(file, Decl)
  BY <1>1, <1>2, <1>4, <1>5, AttachedIsDeclared
<1>7. <<m, NextLine(file, i)>> \in Declaring
  BY <1>6 DEF Declaring
<1>8. Markers(file) = 0
  BY <1>7
<1> QED
  BY <1>1, <1>3, <1>8, MarkerCounts

(* Once `amendment` has passed undisturbed, no marker written as it and `core`   *)
(* both write it is attached to the amended declaration by a line that both    *)
(* read as that declaration (amendment.rs:349, core.rs:614).                  *)
THEOREM MarkersStayOut == Spec => []PinnedMarkersStayOut
<1>1. TypeInv /\ NamesStand => PinnedMarkersStayOut
  <2> SUFFICES ASSUME TypeInv, NamesStand, Undisturbed("amendment"), NEW c \in Attached,
                      c.kind = "rule" /\ c.own /\ c.plain
               PROVE  c.to # Decl
    BY DEF PinnedMarkersStayOut
  <2>1. PICK m \in Modules : c \in Claims(lean[m])
    BY DEF Attached
  <2>2. lean[m] \in Seq(LeanLines)
    BY DEF TypeInv, TypeOK
  <2> QED
    BY <2>1, <2>2, NoneAttached DEF NamesStand
<1>2. Init => NamesStand
  BY DEF Init, NamesStand, Undisturbed, WithSums
<1>3. Spec => []TypeInv
  BY InitType, NextType, PTL DEF Spec
<1> QED
  BY <1>1, <1>2, <1>3, NextNames, PTL DEF Spec

--------------------------------------------------------------------------------
(* Patches, for texts of every length and anchors of one line. *)

(* The equation that defines what match_indices finds from each place on, with  *)
(* the places counted from the end of the text.                               *)
FoundFrom(text, part, first, from) ==
    from = [i \in first .. Len(text) + 1 |->
               IF i > Len(text) THEN {}
               ELSE IF MatchesAt(text, part, i) THEN {i} \cup from[i + Len(part)]
               ELSE from[i + 1]]

LEMMA FoundFromEach ==
    ASSUME NEW text \in Seq(Lines), NEW part, NEW from, FoundFrom(text, part, 1, from)
    PROVE  /\ \A i \in 1 .. Len(text) :
                  from[i] = IF MatchesAt(text, part, i) THEN {i} \cup from[i + Len(part)]
                            ELSE from[i + 1]
           /\ from[Len(text) + 1] = {}
<1>1. Len(text) \in Nat
  OBVIOUS
<1>2. \A i \in 1 .. Len(text) : i \in 1 .. Len(text) + 1 /\ ~ (i > Len(text))
  BY <1>1
<1>3. Len(text) + 1 \in 1 .. Len(text) + 1 /\ Len(text) + 1 > Len(text)
  BY <1>1
<1> QED
  BY <1>2, <1>3 DEF FoundFrom

LEMMA FoundFromExists ==
    ASSUME NEW text \in Seq(Lines), NEW part \in Seq(Lines), part # <<>>
    PROVE  \E from : FoundFrom(text, part, 1, from)
<1> DEFINE L == Len(text)
           T == {d \in Nat : d <= L => \E from : FoundFrom(text, part, L + 1 - d, from)}
<1>0. L \in Nat /\ Len(part) \in Nat /\ Len(part) >= 1
  OBVIOUS
<1>1. 0 \in T
  <2> DEFINE f == [i \in L + 1 .. L + 1 |-> {}]
  <2>1. \A i \in L + 1 .. L + 1 : i > L
    BY <1>0
  <2>2. FoundFrom(text, part, L + 1, f)
    BY <2>1 DEF FoundFrom
  <2>3. \E from : FoundFrom(text, part, L + 1, from)
    <3> HIDE DEF f
    <3> QED
      BY <2>2, Zenon
  <2>4. L + 1 - 0 = L + 1
    BY <1>0
  <2> QED
    BY <2>3, <2>4
<1>2. ASSUME NEW d \in T PROVE d + 1 \in T
  <2> SUFFICES ASSUME d + 1 <= L
               PROVE  \E from : FoundFrom(text, part, L + 1 - (d + 1), from)
    OBVIOUS
  <2> DEFINE a == L + 1 - (d + 1)
  <2>1. /\ d \in Nat /\ d <= L /\ a \in Nat /\ a \in 1 .. L /\ a + 1 = L + 1 - d
        /\ a + 1 <= L + 1
    BY <1>0
  <2>2. PICK f : FoundFrom(text, part, a + 1, f)
    BY <2>1
  <2> HIDE DEF a, L
  <2> DEFINE g == [i \in a .. L + 1 |->
                      IF i = a
                      THEN IF MatchesAt(text, part, a) THEN {a} \cup f[a + Len(part)]
                           ELSE f[a + 1]
                      ELSE f[i]]
  <2>3. \A i \in a + 1 .. L + 1 : g[i] = f[i]
    BY <1>0, <2>1
  <2>4. MatchesAt(text, part, a) => a + Len(part) \in a + 1 .. L + 1
    BY <1>0, <2>1 DEF MatchesAt, L
  <2>5. a + 1 \in a + 1 .. L + 1 /\ ~ (a > L)
    BY <1>0, <2>1
  <2>6. \A i \in a + 1 .. L + 1 :
            f[i] = IF i > L THEN {}
                   ELSE IF MatchesAt(text, part, i) THEN {i} \cup f[i + Len(part)]
                   ELSE f[i + 1]
    BY <2>2 DEF FoundFrom, L
  <2>7. ASSUME NEW i \in a .. L + 1
        PROVE  g[i] = IF i > L THEN {}
                      ELSE IF MatchesAt(text, part, i) THEN {i} \cup g[i + Len(part)]
                      ELSE g[i + 1]
    <3>1. CASE i = a
      <4>1. g[a] = IF MatchesAt(text, part, a) THEN {a} \cup f[a + Len(part)] ELSE f[a + 1]
        BY <1>0, <2>1
      <4>2. MatchesAt(text, part, a) => g[a + Len(part)] = f[a + Len(part)]
        BY <2>3, <2>4
      <4>3. g[a + 1] = f[a + 1]
        BY <2>3, <2>5
      <4> HIDE DEF g
      <4> QED
        BY <2>5, <3>1, <4>1, <4>2, <4>3
    <3>2. CASE i # a
      <4>1. i \in a + 1 .. L + 1 /\ i \in Nat
        BY <1>0, <2>1, <3>2
      <4>2. g[i] = f[i]
        BY <2>3, <4>1
      <4>3. ~ (i > L) => i + 1 \in a + 1 .. L + 1
        BY <1>0, <2>1, <4>1
      <4>4. MatchesAt(text, part, i) => i + Len(part) \in a + 1 .. L + 1
        BY <1>0, <2>1, <4>1 DEF MatchesAt, L
      <4>5. ~ (i > L) => g[i + 1] = f[i + 1]
        BY <2>3, <4>3
      <4>6. MatchesAt(text, part, i) => g[i + Len(part)] = f[i + Len(part)]
        BY <2>3, <4>4
      <4> HIDE DEF g
      <4> QED
        BY <2>6, <4>1, <4>2, <4>5, <4>6
    <3> QED
      BY <3>1, <3>2
  <2>8. FoundFrom(text, part, a, g)
    BY <2>7 DEF FoundFrom, L
  <2>9. \E from : FoundFrom(text, part, a, from)
    <3> HIDE DEF g
    <3> QED
      BY <2>8, Zenon
  <2> QED
    BY <2>9 DEF a, L
<1> HIDE DEF T
<1>3. T \subseteq Nat
  BY DEF T
<1>4. T = Nat
  BY <1>1, <1>2, <1>3, NatSet
<1>5. L \in T /\ L + 1 - L = 1
  BY <1>0, <1>4
<1> QED
  BY <1>0, <1>5 DEF T

LEMMA OccurrencesAre ==
    ASSUME NEW text \in Seq(Lines), NEW part \in Seq(Lines), part # <<>>,
           Len(part) <= Len(text)
    PROVE  \E from : FoundFrom(text, part, 1, from) /\ Occurrences(text, part) = from[1]
<1> DEFINE f == CHOOSE from : FoundFrom(text, part, 1, from)
<1>1. ~ (Len(part) > Len(text))
  OBVIOUS
<1>2. Occurrences(text, part) = f[1]
  BY <1>1 DEF Occurrences, FoundFrom
<1>3. FoundFrom(text, part, 1, f)
  BY FoundFromExists
<1> QED
  BY <1>2, <1>3

(* A part that is nowhere found stands nowhere.                               *)
LEMMA NotFoundNotThere ==
    ASSUME NEW text \in Seq(Lines), NEW part \in Seq(Lines), part # <<>>,
           Occurrences(text, part) = {}, NEW i \in 1 .. Len(text)
    PROVE  ~ MatchesAt(text, part, i)
<1> SUFFICES ASSUME MatchesAt(text, part, i) PROVE FALSE
  OBVIOUS
<1>0. Len(text) \in Nat /\ Len(part) \in Nat
  OBVIOUS
<1>1. Len(part) <= Len(text)
  BY <1>0 DEF MatchesAt
<1>2. PICK from : FoundFrom(text, part, 1, from) /\ from[1] = {}
  BY <1>1, OccurrencesAre
<1>3. \A k \in 1 .. Len(text) :
          from[k] = IF MatchesAt(text, part, k) THEN {k} \cup from[k + Len(part)]
                    ELSE from[k + 1]
  BY <1>2, FoundFromEach
<1> DEFINE T == {k \in Nat : k + 1 <= Len(text) => from[k + 1] = {}}
<1>4. 0 \in T
  BY <1>2
<1>5. ASSUME NEW k \in T PROVE k + 1 \in T
  <2> SUFFICES ASSUME k + 1 + 1 <= Len(text) PROVE from[k + 1 + 1] = {}
    OBVIOUS
  <2>1. k + 1 \in 1 .. Len(text) /\ from[k + 1] = {}
    BY <1>0
  <2>2. from[k + 1] = IF MatchesAt(text, part, k + 1) THEN {k + 1} \cup from[k + 1 + Len(part)]
                      ELSE from[k + 1 + 1]
    BY <1>3, <2>1
  <2> QED
    BY <2>1, <2>2
<1> HIDE DEF T
<1>6. T \subseteq Nat
  BY DEF T
<1>7. T = Nat
  BY <1>4, <1>5, <1>6, NatSet
<1>8. i - 1 \in T /\ i - 1 + 1 = i
  BY <1>0, <1>7
<1>9. from[i] = {}
  BY <1>0, <1>8 DEF T
<1> QED
  BY <1>3, <1>9

(* A part of one line is found wherever the line stands.                       *)
LEMMA LineOccurrences ==
    ASSUME NEW text \in Seq(Lines), NEW part \in Seq(Lines), Len(part) = 1
    PROVE  Occurrences(text, part) = {i \in 1 .. Len(text) : text[i] = part[1]}
<1> DEFINE L == Len(text)
<1>0. L \in Nat /\ part # <<>> /\ part = <<part[1]>>
  OBVIOUS
<1>1. \A i \in 1 .. L : MatchesAt(text, part, i) <=> text[i] = part[1]
  <2> SUFFICES ASSUME NEW i \in 1 .. L
               PROVE  MatchesAt(text, part, i) <=> text[i] = part[1]
    OBVIOUS
  <2>1. i + Len(part) - 1 = i /\ i <= L
    OBVIOUS
  <2>2. SubSeq(text, i, i) = <<text[i]>>
    <3> DEFINE cut == SubSeq(text, i, i)
    <3>1. i \in Int /\ i - i + 1 = 1 /\ i <= i + 1
      OBVIOUS
    <3>2. cut \in Seq(Lines) /\ Len(cut) = 1 /\ cut[1] = text[i]
      BY <3>1, SubSeqProperties
    <3> HIDE DEF cut
    <3>3. cut = <<text[i]>>
      BY <3>2
    <3> QED
      BY <3>3 DEF cut
  <2> QED
    BY <1>0, <2>1, <2>2 DEF MatchesAt
<1>2. CASE L = 0
  <2>1. Len(part) > L
    BY <1>2
  <2> QED
    BY <1>2, <2>1 DEF Occurrences
<1>3. CASE L # 0
  <2>1. Len(part) <= L
    BY <1>0, <1>3
  <2>2. PICK from : FoundFrom(text, part, 1, from) /\ Occurrences(text, part) = from[1]
    BY <1>0, <2>1, OccurrencesAre
  <2>3. /\ \A k \in 1 .. L :
               from[k] = IF MatchesAt(text, part, k) THEN {k} \cup from[k + Len(part)]
                         ELSE from[k + 1]
        /\ from[L + 1] = {}
    BY <2>2, FoundFromEach
  <2> DEFINE T == {d \in Nat : d <= L =>
                      from[L + 1 - d] = {i \in L + 1 - d .. L : text[i] = part[1]}}
  <2> HIDE DEF L
  <2>4. 0 \in T
    <3>1. L + 1 - 0 = L + 1 /\ L + 1 .. L = {}
      BY <1>0
    <3> QED
      BY <2>3, <3>1
  <2>5. ASSUME NEW d \in T PROVE d + 1 \in T
    <3> SUFFICES ASSUME d + 1 <= L
                 PROVE  from[L + 1 - (d + 1)] = {i \in L + 1 - (d + 1) .. L : text[i] = part[1]}
      OBVIOUS
    <3> DEFINE a == L + 1 - (d + 1)
    <3>1. d \in Nat /\ d <= L /\ a \in 1 .. L /\ a + 1 = L + 1 - d
      BY <1>0
    <3>2. from[a + 1] = {i \in a + 1 .. L : text[i] = part[1]}
      BY <3>1
    <3> HIDE DEF a
    <3>3. from[a] = IF text[a] = part[1] THEN {a} \cup from[a + 1] ELSE from[a + 1]
      BY <1>1, <2>3, <3>1
    <3>4. a .. L = {a} \cup (a + 1 .. L)
      BY <1>0, <3>1
    <3>5. from[a] = {i \in a .. L : text[i] = part[1]}
      BY <3>2, <3>3, <3>4
    <3> QED
      BY <3>5 DEF a
  <2> HIDE DEF T
  <2>6. T \subseteq Nat
    BY DEF T
  <2>7. T = Nat
    BY <2>4, <2>5, <2>6, NatSet
  <2>8. L \in T /\ L + 1 - L = 1 /\ L <= L
    BY <1>0, <2>7
  <2>9. from[1] = {i \in 1 .. L : text[i] = part[1]}
    BY <2>8 DEF T
  <2> QED
    BY <2>2, <2>9 DEF L
<1> QED
  BY <1>2, <1>3

(* The equation that defines what is left of the first n lines.                *)
KeptSoFar(text, gone, n, f) ==
    f = [i \in 0 .. n |-> IF i = 0 THEN <<>>
                          ELSE IF i \in gone THEN f[i - 1] ELSE Append(f[i - 1], text[i])]

LEMMA KeptEach ==
    ASSUME NEW text, NEW gone, NEW n \in Nat, NEW f, KeptSoFar(text, gone, n, f)
    PROVE  /\ f[0] = <<>>
           /\ \A i \in 0 .. n : f[i] = IF i = 0 THEN <<>>
                                       ELSE IF i \in gone THEN f[i - 1]
                                       ELSE Append(f[i - 1], text[i])
<1>1. 0 \in 0 .. n
  OBVIOUS
<1> QED
  BY <1>1 DEF KeptSoFar

LEMMA KeptExists ==
    \A text, gone : \A n \in Nat : \E f : KeptSoFar(text, gone, n, f)
<1> TAKE text, gone
<1> DEFINE T == {n \in Nat : \E f : KeptSoFar(text, gone, n, f)}
<1>1. 0 \in T
  <2>1. KeptSoFar(text, gone, 0, [i \in 0 .. 0 |-> <<>>])
    BY DEF KeptSoFar
  <2> QED
    BY <2>1
<1>2. ASSUME NEW n \in T PROVE n + 1 \in T
  <2>1. PICK f : KeptSoFar(text, gone, n, f)
    OBVIOUS
  <2> DEFINE g == [i \in 0 .. n + 1 |->
                      IF i = n + 1
                      THEN IF n + 1 \in gone THEN f[n] ELSE Append(f[n], text[n + 1])
                      ELSE f[i]]
  <2>2. \A i \in 0 .. n + 1 :
            g[i] = IF i = 0 THEN <<>>
                   ELSE IF i \in gone THEN g[i - 1] ELSE Append(g[i - 1], text[i])
    <3> SUFFICES ASSUME NEW i \in 0 .. n + 1
                 PROVE  g[i] = IF i = 0 THEN <<>>
                               ELSE IF i \in gone THEN g[i - 1] ELSE Append(g[i - 1], text[i])
      OBVIOUS
    <3>1. CASE i = n + 1
      <4>1. i # 0 /\ i - 1 = n /\ n \in 0 .. n + 1 /\ n # n + 1
        BY <3>1
      <4>2. g[n] = f[n]
        BY <4>1
      <4>3. g[i] = IF n + 1 \in gone THEN f[n] ELSE Append(f[n], text[n + 1])
        BY <3>1
      <4> HIDE DEF g
      <4> QED
        BY <3>1, <4>1, <4>2, <4>3
    <3>2. CASE i # n + 1
      <4>1. i \in 0 .. n /\ (i # 0 => i - 1 \in 0 .. n /\ i - 1 # n + 1)
        BY <3>2
      <4>2. g[i] = f[i] /\ (i # 0 => g[i - 1] = f[i - 1])
        BY <3>2, <4>1
      <4>3. f[i] = IF i = 0 THEN <<>>
                   ELSE IF i \in gone THEN f[i - 1] ELSE Append(f[i - 1], text[i])
        BY <2>1, <4>1 DEF KeptSoFar
      <4> HIDE DEF g
      <4> QED
        BY <4>2, <4>3
    <3> QED
      BY <3>1, <3>2
  <2>3. KeptSoFar(text, gone, n + 1, g)
    <3>1. g = [i \in 0 .. n + 1 |->
                  IF i = 0 THEN <<>>
                  ELSE IF i \in gone THEN g[i - 1] ELSE Append(g[i - 1], text[i])]
      BY <2>2
    <3> HIDE DEF g
    <3> QED
      BY <3>1 DEF KeptSoFar
  <2>4. \E h : KeptSoFar(text, gone, n + 1, h)
    <3> HIDE DEF g
    <3> QED
      BY <2>3, Zenon
  <2>5. n + 1 \in Nat
    OBVIOUS
  <2> QED
    BY <2>4, <2>5, Zenon
<1> HIDE DEF T
<1>3. T \subseteq Nat
  BY DEF T
<1>4. T = Nat
  BY <1>1, <1>2, <1>3, NatSet
<1> QED
  BY <1>4 DEF T

(* What is left without some of the lines are lines of the text.               *)
LEMMA WithoutType ==
    ASSUME NEW text \in Seq(Lines), NEW gone
    PROVE  Without(text, gone) \in Seq(LinesOf(text))
<1> DEFINE L == Len(text)
           S == LinesOf(text)
           k == CHOOSE f : KeptSoFar(text, gone, L, f)
           U == {n \in Nat : n <= L => k[n] \in Seq(S)}
<1>1. L \in Nat /\ \A i \in 1 .. L : text[i] \in S
  BY DEF LinesOf
<1>2. Without(text, gone) = k[L]
  BY DEF Without, KeptSoFar
<1>3. KeptSoFar(text, gone, L, k)
  BY <1>1, KeptExists
<1> HIDE DEF S, L, k
<1>4. 0 \in U
  <2>1. k[0] = <<>>
    BY <1>1, <1>3, KeptEach
  <2>2. k[0] \in Seq(S) /\ 0 \in Nat
    BY <2>1, EmptySeq
  <2> QED
    BY <2>2
<1>5. ASSUME NEW n \in U PROVE n + 1 \in U
  <2> SUFFICES ASSUME n + 1 <= L PROVE k[n + 1] \in Seq(S)
    OBVIOUS
  <2>1. n <= L /\ n + 1 \in 0 .. L /\ n + 1 \in 1 .. L /\ n + 1 # 0 /\ n + 1 - 1 = n
    BY <1>1
  <2>2. k[n + 1] = IF n + 1 \in gone THEN k[n] ELSE Append(k[n], text[n + 1])
    BY <1>1, <1>3, <2>1, KeptEach
  <2>3. k[n] \in Seq(S) /\ text[n + 1] \in S
    BY <1>1, <2>1
  <2> QED
    BY <2>2, <2>3, AppendProperties
<1> HIDE DEF U
<1>6. U \subseteq Nat
  BY DEF U
<1>7. U = Nat
  BY <1>4, <1>5, <1>6, NatSet
<1>8. L \in U /\ L <= L
  BY <1>1, <1>7
<1>9. k[L] \in Seq(S)
  BY <1>8 DEF U
<1> QED
  BY <1>2, <1>9 DEF S

Least(S) == CHOOSE e \in S : \A f \in S : e <= f

LEMMA LeastIs ==
    ASSUME NEW S \in SUBSET Nat, S # {}
    PROVE  Least(S) \in S /\ \A f \in S : Least(S) <= f
  BY LeastLine DEF Least

LEMMA LeastUnique ==
    ASSUME NEW S \in SUBSET Nat, NEW x \in S, \A f \in S : x <= f
    PROVE  Least(S) = x
<1>1. Least(S) \in S /\ \A f \in S : Least(S) <= f
  BY LeastIs
<1>2. Least(S) <= x /\ x <= Least(S) /\ x \in Nat /\ Least(S) \in Nat
  BY <1>1
<1> QED
  BY <1>2

(* Where the regions that begin at s may end.                                 *)
EndsFrom(p, source, s) ==
    IF p.after = <<>> THEN {Len(source) + 1}
    ELSE {s + e - 1 : e \in Occurrences(SubSeq(source, s, Len(source)), p.after)}

LEMMA RegionsAre ==
    ASSUME NEW p, NEW source
    PROVE  Regions(p, source) =
               {[first |-> s, last |-> Least(EndsFrom(p, source, s)) - 1] :
                   s \in {t \in {b + Len(p.before) : b \in Occurrences(source, p.before)} :
                             EndsFrom(p, source, t) # {}}}
  BY DEF Regions, EndsFrom, Least

OneLine(part) == part \in Seq(Lines) /\ Len(part) = 1

LEMMA OneLineNotEmpty == \A part : OneLine(part) => part # <<>>
  BY DEF OneLine

LEMMA EndsAre ==
    ASSUME NEW p, NEW source \in Seq(Lines), NEW s \in 1 .. Len(source) + 1
    PROVE  /\ p.after = <<>> => EndsFrom(p, source, s) = {Len(source) + 1}
           /\ OneLine(p.after) =>
                  EndsFrom(p, source, s) = {x \in s .. Len(source) : source[x] = p.after[1]}
<1> DEFINE L == Len(source)
           tail == SubSeq(source, s, L)
<1>1. L \in Nat /\ s \in Nat /\ \A i \in s .. L : source[i] \in Lines
  OBVIOUS
<1>2. /\ tail \in Seq(Lines) /\ Len(tail) = L - s + 1
      /\ \A i \in 1 .. L - s + 1 : tail[i] = source[s + i - 1]
  <2>1. s <= L \/ s = L + 1
    BY <1>1
  <2>2. /\ tail \in Seq(Lines) /\ Len(tail) = (IF s <= L THEN L - s + 1 ELSE 0)
        /\ \A i \in 1 .. L - s + 1 : tail[i] = source[s + i - 1]
    <3> HIDE DEF L
    <3> QED
      BY <1>1, SubSeqProperties
  <2> QED
    BY <1>1, <2>1, <2>2
<1> HIDE DEF tail, L
<1>3. ASSUME OneLine(p.after)
      PROVE  EndsFrom(p, source, s) = {x \in s .. L : source[x] = p.after[1]}
  <2>1. p.after # <<>>
    BY <1>3, OneLineNotEmpty
  <2>2. EndsFrom(p, source, s) = {s + e - 1 : e \in {i \in 1 .. Len(tail) : tail[i] = p.after[1]}}
    BY <1>2, <1>3, <2>1, LineOccurrences DEF EndsFrom, OneLine, tail, L
  <2>3. ASSUME NEW x \in s .. L, source[x] = p.after[1]
        PROVE  x \in EndsFrom(p, source, s)
    <3>1. x - s + 1 \in 1 .. Len(tail) /\ s + (x - s + 1) - 1 = x
      BY <1>1, <1>2
    <3>2. tail[x - s + 1] = source[x]
      BY <1>2, <3>1
    <3> QED
      BY <2>2, <2>3, <3>1, <3>2
  <2>4. ASSUME NEW x \in EndsFrom(p, source, s)
        PROVE  x \in s .. L /\ source[x] = p.after[1]
    <3>1. PICK e \in 1 .. Len(tail) : x = s + e - 1 /\ tail[e] = p.after[1]
      BY <2>2
    <3>2. x \in s .. L /\ e \in 1 .. L - s + 1
      BY <1>1, <1>2, <3>1
    <3> QED
      BY <1>2, <3>1, <3>2
  <2> QED
    BY <2>3, <2>4
<1> QED
  BY <1>3 DEF EndsFrom, L

Anchored(p) == OneLine(p.before) /\ (p.after = <<>> \/ OneLine(p.after))

(* A region begins below a line that is the first anchor.  It goes on to the    *)
(* end, or to the line above the first that is the second anchor.             *)
Delimits(p, source, s, last) ==
    /\ s \in 2 .. Len(source) + 1 /\ source[s - 1] = p.before[1]
    /\ p.after = <<>> => last = Len(source)
    /\ p.after # <<>> => /\ last + 1 \in s .. Len(source)
                         /\ source[last + 1] = p.after[1]
                         /\ \A x \in s .. last : source[x] # p.after[1]

LEMMA RegionDelimits ==
    ASSUME NEW p, NEW source \in Seq(Lines), Anchored(p), NEW r \in Regions(p, source)
    PROVE  r.last \in Int /\ Delimits(p, source, r.first, r.last)
<1>0. Len(source) \in Nat /\ OneLine(p.before) /\ Len(p.before) = 1 /\ p.before \in Seq(Lines)
  BY DEF Anchored, OneLine
<1>1. PICK b \in Occurrences(source, p.before) :
          /\ EndsFrom(p, source, b + 1) # {}
          /\ r = [first |-> b + 1, last |-> Least(EndsFrom(p, source, b + 1)) - 1]
  BY <1>0, RegionsAre
<1>2. b \in 1 .. Len(source) /\ source[b] = p.before[1]
  BY <1>0, <1>1, LineOccurrences
<1> DEFINE s == b + 1
           E == EndsFrom(p, source, s)
<1>3. s \in 2 .. Len(source) + 1 /\ s - 1 = b /\ s \in 1 .. Len(source) + 1 /\ s \in Nat
  BY <1>0, <1>2
<1>4. r.first = s /\ r.last = Least(E) - 1
  BY <1>1
<1> HIDE DEF s
<1>5. CASE p.after = <<>>
  <2>1. E = {Len(source) + 1}
    BY <1>3, <1>5, EndsAre
  <2> HIDE DEF E
  <2>2. Least(E) = Len(source) + 1
    <3>1. E \in SUBSET Nat /\ E # {}
      BY <1>0, <2>1
    <3> QED
      BY <2>1, <3>1, LeastIs
  <2>3. r.last = Len(source) /\ r.last \in Int
    BY <1>0, <1>4, <2>2
  <2> QED
    BY <1>2, <1>3, <1>4, <1>5, <2>3 DEF Delimits
<1>6. CASE OneLine(p.after)
  <2>1. E = {x \in s .. Len(source) : source[x] = p.after[1]}
    BY <1>3, <1>6, EndsAre
  <2>2. E # {}
    BY <1>1 DEF s
  <2>3. E \in SUBSET Nat
    BY <1>0, <1>3, <2>1
  <2> HIDE DEF E
  <2>4. Least(E) \in E /\ \A f \in E : Least(E) <= f
    BY <2>2, <2>3, LeastIs
  <2>5. Least(E) \in s .. Len(source) /\ source[Least(E)] = p.after[1] /\ Least(E) \in Nat
    BY <2>1, <2>3, <2>4
  <2>6. r.last + 1 = Least(E) /\ r.last \in Int
    BY <1>4, <2>5
  <2>7. \A x \in s .. r.last : source[x] # p.after[1]
    <3> SUFFICES ASSUME NEW x \in s .. r.last, source[x] = p.after[1] PROVE FALSE
      OBVIOUS
    <3>1. x \in s .. Len(source) /\ ~ (Least(E) <= x)
      BY <1>0, <1>3, <2>5, <2>6
    <3> QED
      BY <2>1, <2>4, <3>1
  <2>8. p.after # <<>>
    BY <1>6, OneLineNotEmpty
  <2> QED
    BY <1>2, <1>3, <1>4, <2>5, <2>6, <2>7, <2>8 DEF Delimits
<1> QED
  BY <1>5, <1>6 DEF Anchored

LEMMA DelimitedIsRegion ==
    ASSUME NEW p, NEW source \in Seq(Lines), Anchored(p), NEW s, NEW last \in Int,
           Delimits(p, source, s, last)
    PROVE  [first |-> s, last |-> last] \in Regions(p, source)
<1>0. Len(source) \in Nat /\ OneLine(p.before) /\ Len(p.before) = 1 /\ p.before \in Seq(Lines)
  BY DEF Anchored, OneLine
<1>1. /\ s \in 2 .. Len(source) + 1 /\ source[s - 1] = p.before[1]
      /\ s - 1 \in 1 .. Len(source) /\ s - 1 + 1 = s /\ s \in 1 .. Len(source) + 1 /\ s \in Nat
  BY <1>0 DEF Delimits
<1>2. s - 1 \in Occurrences(source, p.before)
  BY <1>0, <1>1, LineOccurrences
<1> DEFINE E == EndsFrom(p, source, s)
<1>3. E # {} /\ Least(E) = last + 1
  <2>1. CASE p.after = <<>>
    <3>1. E = {Len(source) + 1} /\ last = Len(source)
      BY <1>1, <2>1, EndsAre DEF Delimits
    <3> HIDE DEF E
    <3>2. E \in SUBSET Nat /\ last + 1 \in E /\ \A f \in E : last + 1 <= f
      BY <1>0, <3>1
    <3> QED
      BY <3>2, LeastUnique
  <2>2. CASE OneLine(p.after)
    <3>0. p.after # <<>>
      BY <2>2, OneLineNotEmpty
    <3>1. E = {x \in s .. Len(source) : source[x] = p.after[1]}
      BY <1>1, <2>2, EndsAre
    <3> HIDE DEF E
    <3>2. last + 1 \in s .. Len(source) /\ source[last + 1] = p.after[1]
      BY <3>0 DEF Delimits
    <3>3. \A x \in s .. last : source[x] # p.after[1]
      BY <3>0 DEF Delimits
    <3>4. E \in SUBSET Nat /\ last + 1 \in E
      BY <1>0, <1>1, <3>1, <3>2
    <3>5. \A f \in E : last + 1 <= f
      <4> SUFFICES ASSUME NEW f \in E, ~ (last + 1 <= f) PROVE FALSE
        OBVIOUS
      <4>1. f \in s .. Len(source) /\ source[f] = p.after[1]
        BY <3>1
      <4>2. f \in s .. last
        BY <1>1, <4>1
      <4> QED
        BY <3>3, <4>1, <4>2
    <3> QED
      BY <3>4, <3>5, LeastUnique
  <2> QED
    BY <2>1, <2>2 DEF Anchored
<1>4. last + 1 - 1 = last
  OBVIOUS
<1>5. s \in {t \in {b + Len(p.before) : b \in Occurrences(source, p.before)} :
                EndsFrom(p, source, t) # {}}
  BY <1>0, <1>1, <1>2, <1>3
<1>6. [first |-> s, last |-> Least(EndsFrom(p, source, s)) - 1] \in Regions(p, source)
  BY <1>5, RegionsAre
<1> QED
  BY <1>3, <1>4, <1>6

LEMMA CutOut ==
    ASSUME NEW text \in Seq(Lines), NEW m \in 1 .. Len(text) + 1, NEW n \in m - 1 .. Len(text)
    PROVE  /\ SubSeq(text, m, n) \in Seq(Lines)
           /\ Len(SubSeq(text, m, n)) = n - m + 1
           /\ \A i \in 1 .. n - m + 1 : SubSeq(text, m, n)[i] = text[m + i - 1]
<1>1. /\ m \in Int /\ n \in Int /\ \A i \in m .. n : text[i] \in Lines
      /\ m <= n \/ n - m + 1 = 0
  OBVIOUS
<1>2. /\ SubSeq(text, m, n) \in Seq(Lines)
      /\ Len(SubSeq(text, m, n)) = IF m <= n THEN n - m + 1 ELSE 0
      /\ \A i \in 1 .. n - m + 1 : SubSeq(text, m, n)[i] = text[m + i - 1]
  BY <1>1, SubSeqProperties
<1>3. Len(SubSeq(text, m, n)) = n - m + 1
  <2> DEFINE l == Len(SubSeq(text, m, n))
  <2>1. l = IF m <= n THEN n - m + 1 ELSE 0
    BY <1>2
  <2> HIDE DEF l
  <2>2. l = n - m + 1
    BY <1>1, <2>1
  <2> QED
    BY <2>2 DEF l
<1> QED
  BY <1>2, <1>3

LEMMA Joined ==
    ASSUME NEW a \in Seq(Lines), NEW b \in Seq(Lines)
    PROVE  /\ a \o b \in Seq(Lines)
           /\ Len(a \o b) = Len(a) + Len(b)
           /\ \A i \in 1 .. Len(a) : (a \o b)[i] = a[i]
           /\ \A i \in 1 .. Len(b) : (a \o b)[Len(a) + i] = b[i]
<1>1. /\ a \o b \in Seq(Lines)
      /\ Len(a \o b) = Len(a) + Len(b)
      /\ \A i \in 1 .. Len(a) + Len(b) : (a \o b)[i] = IF i <= Len(a) THEN a[i] ELSE b[i - Len(a)]
  BY ConcatProperties
<1>2. Len(a) \in Nat /\ Len(b) \in Nat
  OBVIOUS
<1>3. ASSUME NEW i \in 1 .. Len(a) PROVE (a \o b)[i] = a[i]
  BY <1>1, <1>2
<1>4. ASSUME NEW i \in 1 .. Len(b) PROVE (a \o b)[Len(a) + i] = b[i]
  <2>1. Len(a) + i \in 1 .. Len(a) + Len(b) /\ ~ (Len(a) + i <= Len(a)) /\ Len(a) + i - Len(a) = i
    BY <1>2
  <2> QED
    BY <1>1, <2>1
<1> QED
  BY <1>1, <1>3, <1>4

(* The lines of a text from m to n, replaced by others.                        *)
Splice(text, new, m, n) == SubSeq(text, 1, m - 1) \o new \o SubSeq(text, n + 1, Len(text))

IsSplice(text, new, m, n, result) ==
    /\ result \in Seq(Lines)
    /\ Len(result) = m - 1 + Len(new) + (Len(text) - n)
    /\ \A i \in 1 .. m - 1 : result[i] = text[i]
    /\ \A i \in 1 .. Len(new) : result[m - 1 + i] = new[i]
    /\ \A i \in 1 .. Len(text) - n : result[m - 1 + Len(new) + i] = text[n + i]
    /\ SubSeq(result, m, m - 1 + Len(new)) = new

LEMMA Spliced ==
    ASSUME NEW text \in Seq(Lines), NEW new \in Seq(Lines),
           NEW m \in 1 .. Len(text) + 1, NEW n \in m - 1 .. Len(text)
    PROVE  IsSplice(text, new, m, n, Splice(text, new, m, n))
<1> DEFINE result == Splice(text, new, m, n)
           L == Len(text)
           N == Len(new)
           a == SubSeq(text, 1, m - 1)
           c == SubSeq(text, n + 1, L)
<1>1. L \in Nat /\ N \in Nat /\ m \in Nat /\ n \in Nat /\ m >= 1 /\ m <= L + 1 /\ n >= m - 1 /\ n <= L
  OBVIOUS
<1>2. a \in Seq(Lines) /\ Len(a) = m - 1 /\ \A i \in 1 .. m - 1 : a[i] = text[i]
  <2>1. 1 \in 1 .. Len(text) + 1 /\ m - 1 \in 1 - 1 .. Len(text)
    BY <1>1
  <2>2. /\ a \in Seq(Lines) /\ Len(a) = m - 1 - 1 + 1
        /\ \A i \in 1 .. m - 1 - 1 + 1 : a[i] = text[1 + i - 1]
    BY <2>1, CutOut
  <2> HIDE DEF a
  <2>3. m - 1 - 1 + 1 = m - 1 /\ \A i \in 1 .. m - 1 : 1 + i - 1 = i
    BY <1>1
  <2> QED
    BY <2>2, <2>3
<1>3. c \in Seq(Lines) /\ Len(c) = L - n /\ \A i \in 1 .. L - n : c[i] = text[n + i]
  <2>1. n + 1 \in 1 .. Len(text) + 1 /\ Len(text) \in n + 1 - 1 .. Len(text)
    BY <1>1
  <2>2. /\ c \in Seq(Lines) /\ Len(c) = Len(text) - (n + 1) + 1
        /\ \A i \in 1 .. Len(text) - (n + 1) + 1 : c[i] = text[n + 1 + i - 1]
    BY <2>1, CutOut
  <2> HIDE DEF c
  <2>3. Len(text) - (n + 1) + 1 = L - n /\ \A i \in 1 .. L - n : n + 1 + i - 1 = n + i
    BY <1>1
  <2> QED
    BY <2>2, <2>3
<1>4. result = (a \o new) \o c
  BY DEF Splice
<1> DEFINE ab == a \o new
<1> HIDE DEF a, c, result
<1>5. /\ ab \in Seq(Lines) /\ Len(ab) = Len(a) + Len(new)
      /\ \A i \in 1 .. Len(a) : ab[i] = a[i]
      /\ \A i \in 1 .. Len(new) : ab[Len(a) + i] = new[i]
  BY <1>2, Joined
<1> HIDE DEF ab
<1>6. /\ ab \o c \in Seq(Lines) /\ Len(ab \o c) = Len(ab) + Len(c)
      /\ \A i \in 1 .. Len(ab) : (ab \o c)[i] = ab[i]
      /\ \A i \in 1 .. Len(c) : (ab \o c)[Len(ab) + i] = c[i]
  BY <1>3, <1>5, Joined
<1>7. result = ab \o c
  BY <1>4 DEF ab
<1>8. Len(a) = m - 1 /\ Len(ab) = m - 1 + N /\ Len(c) = L - n
  BY <1>2, <1>3, <1>5
<1>9. /\ result \in Seq(Lines) /\ Len(result) = m - 1 + N + (L - n)
      /\ \A i \in 1 .. m - 1 + N : result[i] = ab[i]
      /\ \A i \in 1 .. L - n : result[m - 1 + N + i] = c[i]
  BY <1>6, <1>7, <1>8
<1> HIDE DEF L, N
<1>10. /\ \A i \in 1 .. m - 1 : ab[i] = a[i]
       /\ \A i \in 1 .. N : ab[m - 1 + i] = new[i]
  BY <1>5, <1>8 DEF N
<1>11. ASSUME NEW i \in 1 .. m - 1 PROVE result[i] = text[i]
  <2>1. i \in 1 .. m - 1 + N
    BY <1>1
  <2> QED
    BY <1>2, <1>9, <1>10, <2>1
<1>12. ASSUME NEW i \in 1 .. N PROVE result[m - 1 + i] = new[i]
  <2>1. m - 1 + i \in 1 .. m - 1 + N
    BY <1>1
  <2> QED
    BY <1>9, <1>10, <2>1
<1>13. ASSUME NEW i \in 1 .. L - n PROVE result[m - 1 + N + i] = text[n + i]
  BY <1>3, <1>9
<1>14. SubSeq(result, m, m - 1 + N) = new
  <2> DEFINE to == m - 1 + N
             cut == SubSeq(result, m, to)
             R == Len(result)
  <2>1. R = m - 1 + N + (L - n)
    BY <1>9
  <2>2. m \in 1 .. R + 1 /\ to \in m - 1 .. R
    <3> HIDE DEF R
    <3> QED
      BY <1>1, <2>1
  <2>4. to - m + 1 = N /\ \A i \in 1 .. N : m + i - 1 = m - 1 + i
    BY <1>1
  <2> HIDE DEF to
  <2>3. /\ cut \in Seq(Lines) /\ Len(cut) = to - m + 1
        /\ \A i \in 1 .. to - m + 1 : cut[i] = result[m + i - 1]
    BY <1>9, <2>2, CutOut
  <2> HIDE DEF cut
  <2>5. Len(cut) = Len(new) /\ \A i \in 1 .. Len(cut) : cut[i] = new[i]
    BY <1>12, <2>3, <2>4 DEF N
  <2>6. cut = new
    BY <2>3, <2>5, SeqEqual
  <2> QED
    BY <2>6 DEF cut, to
<1>15. IsSplice(text, new, m, n, result)
  BY <1>9, <1>11, <1>12, <1>13, <1>14 DEF L, N, IsSplice
<1> QED
  BY <1>15 DEF result

(* A part put into a text stands there, among lines of the two.                *)
LEMMA InsertedStands ==
    ASSUME NEW w \in Seq(Lines), NEW part \in Seq(Lines), part # <<>>,
           NEW new \in Insertions(w, part)
    PROVE  /\ new \in Seq(Lines)
           /\ \E i \in 1 .. Len(new) : MatchesAt(new, part, i)
           /\ \A i \in 1 .. Len(new) : new[i] \in LinesOf(w) \cup LinesOf(part)
<1>1. PICK k \in 0 .. Len(w) :
          new = SubSeq(w, 1, k) \o part \o SubSeq(w, k + 1, Len(w))
  BY DEF Insertions
<1> DEFINE W == Len(w)
           P == Len(part)
<1>2. /\ W \in Nat /\ P \in Nat /\ P >= 1 /\ k \in Nat /\ k <= W
      /\ \A i \in 1 .. W : w[i] \in LinesOf(w)
      /\ \A i \in 1 .. P : part[i] \in LinesOf(part)
  BY DEF LinesOf
<1> DEFINE m == k + 1
<1>3. m \in 1 .. Len(w) + 1 /\ k \in m - 1 .. Len(w) /\ m - 1 = k
  BY <1>2
<1>4. new = Splice(w, part, m, k)
  BY <1>1, <1>3 DEF Splice
<1> HIDE DEF m
<1>5. /\ new \in Seq(Lines)
      /\ Len(new) = m - 1 + Len(part) + (Len(w) - k)
      /\ \A i \in 1 .. m - 1 : new[i] = w[i]
      /\ \A i \in 1 .. Len(part) : new[m - 1 + i] = part[i]
      /\ \A i \in 1 .. Len(w) - k : new[m - 1 + Len(part) + i] = w[k + i]
      /\ SubSeq(new, m, m - 1 + Len(part)) = part
  <2>1. IsSplice(w, part, m, k, new)
    BY <1>3, <1>4, Spliced
  <2> QED
    BY <2>1 DEF IsSplice
<1>6. /\ Len(new) = k + P + (W - k)
      /\ \A i \in 1 .. k : new[i] = w[i]
      /\ \A i \in 1 .. P : new[k + i] = part[i]
      /\ \A i \in 1 .. W - k : new[k + P + i] = w[k + i]
      /\ SubSeq(new, k + 1, k + P) = part
  BY <1>3, <1>5 DEF m
<1>7. MatchesAt(new, part, k + 1) /\ k + 1 \in 1 .. Len(new)
  <2>1. k + 1 + P - 1 = k + P /\ k + P <= k + P + (W - k) /\ k + 1 \in 1 .. k + P + (W - k)
    BY <1>2
  <2>2. k + P <= Len(new)
    BY <1>6, <2>1
  <2> QED
    BY <1>6, <2>1, <2>2 DEF MatchesAt
<1> HIDE DEF W, P
<1>8. ASSUME NEW i \in 1 .. Len(new) PROVE new[i] \in LinesOf(w) \cup LinesOf(part)
  <2>0. i \in 1 .. k + P + (W - k)
    BY <1>6
  <2>1. CASE i <= k
    <3>1. i \in 1 .. k /\ i \in 1 .. W
      BY <1>2, <2>0, <2>1
    <3> QED
      BY <1>2, <1>6, <3>1
  <2>2. CASE ~(i <= k) /\ i <= k + P
    <3>1. i - k \in 1 .. P /\ k + (i - k) = i
      BY <1>2, <2>0, <2>2
    <3> QED
      BY <1>2, <1>6, <3>1
  <2>3. CASE ~(i <= k + P)
    <3>1. /\ i - (k + P) \in 1 .. W - k /\ k + (i - (k + P)) \in 1 .. W
          /\ k + P + (i - (k + P)) = i
      BY <1>2, <2>0, <2>3
    <3> QED
      BY <1>2, <1>6, <3>1
  <2> QED
    BY <2>1, <2>2, <2>3
<1> QED
  BY <1>5, <1>7, <1>8

(* A line of the new text is the second anchor.                               *)
EndsIn(p, new) == p.after # <<>> /\ \E i \in 1 .. Len(new) : new[i] = p.after[1]

(* The region that was cut out of the source has its new text in it.           *)
RegionKept(p, result, s, new) ==
    /\ result \in Seq(Lines)
    /\ Delimits(p, result, s, s - 1 + Len(new))
    /\ SubSeq(result, s, s - 1 + Len(new)) = new

LEMMA RegionOfResult ==
    ASSUME NEW p, NEW source \in Seq(Lines), NEW s, NEW last \in Int,
           Delimits(p, source, s, last), NEW new \in Seq(Lines),
           ~ EndsIn(p, new)
    PROVE  RegionKept(p, Splice(source, new, s, last), s, new)
<1> DEFINE result == Splice(source, new, s, last)
           L == Len(source)
           N == Len(new)
<1>1. /\ L \in Nat /\ N \in Nat /\ s \in Nat /\ s >= 2 /\ s <= L + 1 /\ source[s - 1] = p.before[1]
  BY DEF Delimits
<1>2. last >= s - 1 /\ last <= L
  BY <1>1 DEF Delimits
<1>3. s \in 1 .. Len(source) + 1 /\ last \in s - 1 .. Len(source)
  BY <1>1, <1>2
<1>4. /\ result \in Seq(Lines)
      /\ Len(result) = s - 1 + Len(new) + (Len(source) - last)
      /\ \A i \in 1 .. s - 1 : result[i] = source[i]
      /\ \A i \in 1 .. Len(new) : result[s - 1 + i] = new[i]
      /\ \A i \in 1 .. Len(source) - last : result[s - 1 + Len(new) + i] = source[last + i]
      /\ SubSeq(result, s, s - 1 + Len(new)) = new
  <2>1. IsSplice(source, new, s, last, result)
    BY <1>3, Spliced
  <2> QED
    BY <2>1 DEF IsSplice
<1> HIDE DEF result
<1> DEFINE R == Len(result)
<1>5. R = s - 1 + N + (L - last)
  BY <1>4
<1> HIDE DEF L, N, R
<1>6. s \in 2 .. R + 1 /\ result[s - 1] = p.before[1]
  <2>1. s \in 2 .. R + 1 /\ s - 1 \in 1 .. s - 1
    BY <1>1, <1>2, <1>5
  <2> QED
    BY <1>1, <1>4, <2>1
<1>7. p.after = <<>> => s - 1 + N = R
  <2>1. p.after = <<>> => last = L
    BY DEF Delimits, L
  <2> QED
    BY <1>1, <1>5, <2>1
<1>8. ASSUME p.after # <<>>
      PROVE  /\ s - 1 + N + 1 \in s .. R
             /\ result[s - 1 + N + 1] = p.after[1]
             /\ \A x \in s .. s - 1 + N : result[x] # p.after[1]
  <2>1. last + 1 \in s .. L /\ source[last + 1] = p.after[1]
    BY <1>8 DEF Delimits, L
  <2>2. s - 1 + N + 1 \in s .. R /\ 1 \in 1 .. L - last
    BY <1>1, <1>2, <1>5, <2>1
  <2>3. result[s - 1 + N + 1] = source[last + 1]
    BY <1>4, <2>2 DEF L, N
  <2>4. ASSUME NEW x \in s .. s - 1 + N PROVE result[x] # p.after[1]
    <3>1. x - s + 1 \in 1 .. N /\ s - 1 + (x - s + 1) = x
      BY <1>1
    <3>2. result[x] = new[x - s + 1]
      BY <1>4, <3>1 DEF N
    <3> QED
      BY <1>8, <3>1, <3>2 DEF N, EndsIn
  <2> QED
    BY <2>1, <2>2, <2>3, <2>4
<1>9. Delimits(p, result, s, s - 1 + N)
  BY <1>6, <1>7, <1>8 DEF Delimits, R
<1> QED
  BY <1>4, <1>9 DEF N, result, RegionKept

LEMMA NeverTwice ==
    ASSUME NEW p, NEW source \in Seq(Lines), Anchored(p), p.inserted \in Seq(Lines)
    PROVE  ~ AppliesTwice(p, source)
<1> SUFFICES ASSUME Accepts(p, source),
                    LinesOf(p.inserted) \cap (LinesOf(p.before) \cup LinesOf(p.after)) = {},
                    NEW result \in Results(p, source), Accepts(p, result)
             PROVE  FALSE
  BY DEF AppliesTwice
<1>1. PICK r \in Regions(p, source) :
          \E gone : \E new \in Insertions(Without(Within(r, source), gone), p.inserted) :
              result = SubSeq(source, 1, r.first - 1) \o new \o SubSeq(source, r.last + 1, Len(source))
  <2>1. PICK r \in Regions(p, source) :
            \E new \in UNION {Insertions(Without(Within(r, source), gone), p.inserted) :
                               gone \in {g \in SUBSET (1 .. Len(Within(r, source))) :
                                           Picked(Within(r, source), g) = p.removed}} :
                result = SubSeq(source, 1, r.first - 1) \o new
                             \o SubSeq(source, r.last + 1, Len(source))
    BY Zenon DEF Results
  <2> QED
    BY <2>1, Zenon
<1>2. PICK gone : \E new \in Insertions(Without(Within(r, source), gone), p.inserted) :
              result = SubSeq(source, 1, r.first - 1) \o new \o SubSeq(source, r.last + 1, Len(source))
  BY <1>1
<1> DEFINE text == Within(r, source)
           w == Without(text, gone)
<1>3. PICK new \in Insertions(w, p.inserted) :
          result = SubSeq(source, 1, r.first - 1) \o new \o SubSeq(source, r.last + 1, Len(source))
  BY <1>2
<1>4. r.last \in Int /\ Delimits(p, source, r.first, r.last)
  BY RegionDelimits
<1>5. p.inserted # <<>>
  BY <1>1 DEF Accepts, EffectRecorded
<1>6. /\ r.first \in 2 .. Len(source) + 1 /\ r.last \in r.first - 1 .. Len(source)
  <2>1. Len(source) \in Nat /\ r.first \in 2 .. Len(source) + 1
    BY <1>4 DEF Delimits
  <2> QED
    BY <1>4, <2>1 DEF Delimits
<1>7. /\ text \in Seq(Lines)
      /\ \A x \in LinesOf(text) : \E i \in r.first .. r.last : x = source[i]
  <2>1. r.first \in 1 .. Len(source) + 1
    BY <1>6
  <2>2. /\ text \in Seq(Lines) /\ Len(text) = r.last - r.first + 1
        /\ \A i \in 1 .. r.last - r.first + 1 : text[i] = source[r.first + i - 1]
    BY <1>6, <2>1, CutOut DEF Within
  <2> HIDE DEF text
  <2>3. \A i \in 1 .. r.last - r.first + 1 : r.first + i - 1 \in r.first .. r.last
    BY <1>6
  <2> QED
    BY <2>2, <2>3 DEF LinesOf
<1> HIDE DEF text
<1>8. w \in Seq(LinesOf(text)) /\ LinesOf(text) \subseteq Lines
  <2>1. LinesOf(text) \subseteq Lines
    BY <1>7 DEF LinesOf
  <2> QED
    BY <1>7, <2>1, WithoutType
<1>9. w \in Seq(Lines) /\ LinesOf(w) \subseteq LinesOf(text)
  <2> HIDE DEF w
  <2>1. w \in Seq(Lines)
    BY <1>8, SeqMonotonic
  <2> DEFINE S == LinesOf(text)
  <2>2. w \in Seq(S)
    BY <1>8
  <2> HIDE DEF S
  <2>3. \A i \in 1 .. Len(w) : w[i] \in S
    BY <2>2
  <2> QED
    BY <2>1, <2>3 DEF LinesOf, S
<1> HIDE DEF w
<1>10. /\ new \in Seq(Lines)
       /\ \E i \in 1 .. Len(new) : MatchesAt(new, p.inserted, i)
       /\ \A i \in 1 .. Len(new) : new[i] \in LinesOf(w) \cup LinesOf(p.inserted)
  BY <1>3, <1>5, <1>9, InsertedStands
<1>11. ASSUME p.after # <<>>, NEW i \in 1 .. Len(new) PROVE new[i] # p.after[1]
  <2>1. Len(p.after) = 1 /\ p.after[1] \in LinesOf(p.after)
    BY <1>11 DEF Anchored, OneLine, LinesOf
  <2>2. \A x \in r.first .. r.last : source[x] # p.after[1]
    BY <1>4, <1>11 DEF Delimits
  <2>3. p.after[1] \notin LinesOf(text)
    BY <1>7, <2>2
  <2>4. p.after[1] \notin LinesOf(p.inserted)
    BY <2>1
  <2> QED
    BY <1>9, <1>10, <2>3, <2>4
<1>12. /\ result \in Seq(Lines)
       /\ Delimits(p, result, r.first, r.first - 1 + Len(new))
       /\ SubSeq(result, r.first, r.first - 1 + Len(new)) = new
  <2>1. ~ EndsIn(p, new)
    BY <1>11 DEF EndsIn
  <2>2. result = Splice(source, new, r.first, r.last)
    BY <1>3 DEF Splice
  <2> QED
    <3>1. \A s : \A last \in Int : Delimits(p, source, s, last) =>
              RegionKept(p, Splice(source, new, s, last), s, new)
      BY <1>10, <2>1, RegionOfResult
    <3>2. RegionKept(p, result, r.first, new)
      BY <1>4, <2>2, <3>1
    <3> QED
      BY <3>2 DEF RegionKept
<1>13. r.first - 1 + Len(new) \in Int
  BY <1>6, <1>10
<1> DEFINE q == [first |-> r.first, last |-> r.first - 1 + Len(new)]
<1>14. q \in Regions(p, result)
  BY <1>12, <1>13, DelimitedIsRegion
<1>15. Within(q, result) = new
  BY <1>12 DEF Within
<1>16. NotYetInserted(p, new)
  BY <1>14, <1>15 DEF Accepts
<1> QED
  BY <1>5, <1>10, <1>16, NotFoundNotThere DEF NotYetInserted

LEMMA TextsAreSequences == \A n \in Nat : TextsUpTo(n) \subseteq Seq(Lines)
  BY DEF TextsUpTo

LEMMA ShortTexts == \A part \in TextsUpTo(1) : part = <<>> \/ OneLine(part)
<1> SUFFICES ASSUME NEW part \in TextsUpTo(1) PROVE part = <<>> \/ OneLine(part)
  OBVIOUS
<1>1. PICK n \in 0 .. 1 : part \in [1 .. n -> Lines]
  BY DEF TextsUpTo
<1>2. part \in Seq(Lines) /\ Len(part) = n
  BY <1>1
<1>3. n = 0 \/ n = 1
  OBVIOUS
<1> QED
  BY <1>2, <1>3, EmptySeq DEF OneLine

(* For sources and fragments of every length, an amendment is never accepted on *)
(* a source it has been applied to, unless it inserts an anchor                *)
(* (amendment.rs:385, 431, 445).                                             *)
THEOREM PatchAppliesOnce == Spec => []AppliedPatchIsRefused
<1>1. ASSUME NEW p \in Patches, NEW source \in TextsUpTo(MaxSource)
      PROVE  ~ AppliesTwice(p, source)
  <2>1. /\ source \in Seq(Lines) /\ p.inserted \in Seq(Lines)
        /\ p.before \in TextsUpTo(1) /\ p.after \in TextsUpTo(1)
    BY TextsAreSequences, PatchTextAssumption DEF Patches
  <2>2. CASE p.before = <<>>
    BY <2>2 DEF AppliesTwice, Accepts
  <2>3. CASE p.before # <<>>
    BY <2>1, <2>3, ShortTexts, NeverTwice DEF Anchored
  <2> QED
    BY <2>2, <2>3
<1>2. AppliedPatchIsRefused
  BY <1>1 DEF AppliedPatchIsRefused, SomePatchAppliesTwice
<1> QED
  BY <1>2, PTL

================================================================================

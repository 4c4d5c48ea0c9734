--------------------------------- MODULE MCGate ---------------------------------
(****************************************************************************)
(* The release theorem and one lemma it needs, five registries, one critical   *)
(* definition, and four modules.                                             *)
(****************************************************************************)
EXTENDS Gate

MCDecls == {"release", "lemma"}
MCAsksOf == [r \in PresenceRows |-> IF r = "release" THEN {"release"} ELSE {"lemma"}]

Claim(id, needs, formal, decl) == [id |-> id, needs |-> needs, formal |-> formal, decl |-> decl]
LemmaProved == Claim("L", {}, TRUE, "lemma")
Open == Claim("R", {"L"}, FALSE, "none")
Promised == <<LemmaProved, Open>>
MCRegistries ==
    {Promised,
     <<LemmaProved, Claim("R", {"L"}, TRUE, "release")>>,
     <<LemmaProved, Claim("R", {"X"}, TRUE, "none")>>,
     <<LemmaProved, LemmaProved>>,
     <<>>}

Spine == <<"Universal", "Competitor">>
MCModuleNames == {<<"Wasm", "Run">>, Spine, <<"Universal", "Sublevel">>, <<"Artifact", "Emit">>}
Imports(of, S) == [m \in MCModuleNames |-> IF m = of THEN S ELSE {}]
Layered == Imports(Spine, {<<"Wasm", "Run">>})
MCImportEdits == {Imports(Spine, {<<"Artifact", "Emit">>}),
                  Imports(<<"Universal", "Sublevel">>, {<<"Artifact", "Emit">>})}

Line(is, name, mentions, proof) == [is |-> is, name |-> name, mentions |-> mentions, proof |-> proof]
Mark(d) == Line("binding", d, {d}, "")
Gap(d) == Line("gap", d, {d}, "")
Restated(t) == Line("theorem", t, {"d"}, "rfl")
Plain(is) == Line(is, "", {}, "")
MCSchemaLines ==
    {Mark("d"), Mark("x"), Gap("d"), Restated("t"), Line("theorem", "u", {"d"}, ""),
     Line("theorem", "v", {}, "rfl"), Line("code", "", {"d"}, "rfl"), Line("code", "", {}, "other"),
     Line("comment", "", {"d"}, ""), Plain("blank"), Plain("open"), Plain("close")}
Bound == <<Mark("d"), Restated("t")>>
MCSchemaEdits == {<<Gap("d")>>, <<Restated("t")>>}

Tree(release) ==
    [files |-> [f \in FileParts |-> "good"], claims |-> Promised,
     src |-> [d \in MCDecls |-> IF d = "release" THEN release ELSE "clean"],
     loads |-> TRUE, bound |-> [d \in MCDecls |-> "exact"], imports |-> Layered, schema |-> Bound]
MCTrees == {Tree(c) : c \in Conditions}
================================================================================

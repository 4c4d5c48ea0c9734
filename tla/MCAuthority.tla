------------------------------- MODULE MCAuthority -------------------------------
(****************************************************************************)
(* One vendored source and one document, one further path a file can appear    *)
(* at, one amendment and two Lean files.                                     *)
(****************************************************************************)
EXTENDS Authority

Line(is, name) == [is |-> is, name |-> name, ascii |-> name, by |-> Readers, kind |-> "", own |-> FALSE]
Mark(kind, own) == [Line("mark", <<>>) EXCEPT !.kind = kind, !.own = own]

RuleMark == Mark("rule", TRUE)
DefMark == Mark("def", TRUE)

Declares == Line("decl", <<"d">>)
Instance == [Declares EXCEPT !.by = {"core"}]             \* instance d
Private == [Declares EXCEPT !.by = {"amendment"}]         \* private def d
Unicode == [Declares EXCEPT !.name = <<"d_alpha">>]       \* its ASCII part is d
Guillemets == [Line("namespace", <<"A">>) EXCEPT !.by = {"core"}]
OpenComment == Line("open", <<>>)
CloseComment == Line("close", <<>>)

MCLeanLines ==
    {Line("namespace", <<"A">>), Line("end", <<"A">>), Line("namespace", <<"A", "B">>),
     Line("end", <<"B">>), Declares, Line("inductive", <<"t">>),
     Line("constructor", <<"c">>), Line("other", <<>>), RuleMark, DefMark,
     Mark("rule", FALSE), Mark("aux", TRUE), Instance, Private, Unicode, Guillemets,
     OpenComment, CloseComment}
MCMarkEdits == {RuleMark, DefMark, Mark("rule", FALSE), Declares, Line("end", <<"A">>), OpenComment}

MCLines == {"b", "r", "i"}
MCPatch == [effect |-> "replace", before |-> <<"b">>, after |-> <<>>,
            removed |-> <<"r">>, inserted |-> <<"i">>]
MCPatchEdits == {[MCPatch EXCEPT !.inserted = <<"r">>], [MCPatch EXCEPT !.after = <<"i">>]}

MCPaths == {"spec", "doc", "extra"}
MCFiles == [p \in MCPaths |-> CASE p = "spec" -> <<"b", "r">> [] p = "doc" -> <<"r">>
                                [] OTHER -> <<"missing">>]

MCModules == {"amended", "plain"}
MCDecl == <<"A", "d">>
MCLean == [m \in MCModules |->
             IF m = "amended" THEN <<Line("namespace", <<"A">>), Declares>>
             ELSE <<Line("namespace", <<"A">>), Line("inductive", <<"t">>)>>]
================================================================================

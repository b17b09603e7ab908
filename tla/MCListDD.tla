-------------------------------- MODULE MCListDD --------------------------------
(* Small instances of ListDD: vectors of three slots, two relations, a node table  *)
(* of 13 entries that is collected and grows while the calls run.                  *)
EXTENDS ListDD

\* Multiply-and-add in place of the shift-and-subtract mixing of hash().
HashDef(a, b, c) == (7 * a) + (5 * b) + (3 * c)

RelProjDef == <<<<0, 1>>, <<1, 2>>>>
TransDef == <<<<<<<<0, 0>>, <<1, 0>>>>, <<<<1, 0>>, <<1, 1>>>>, <<<<1, 1>>, <<0, 2>>>>>>,
              <<<<<<0, 0>>, <<1, 1>>>>, <<<<1, 1>>, <<2, 0>>>>, <<<<2, 0>>, <<0, 0>>>>>>>>

Create(x, proj) == [op |-> "create", dst |-> x, proj |-> proj]
Destroy(x) == [op |-> "destroy", dst |-> x]
Add(x, v) == [op |-> "add", dst |-> x, vec |-> v]
Clear(x) == [op |-> "clear", dst |-> x]
Count(x) == [op |-> "count", dst |-> x]
Two(op, x, y) == [op |-> op, dst |-> x, src |-> y]
CopyMatch(x, y, proj, v) == [op |-> "match", dst |-> x, src |-> y, proj |-> proj, vec |-> v]
Img(x, y, g) == [op |-> "next", dst |-> x, src |-> y, arg |-> g]
Pre(x, y, g, u) == [op |-> "prev", dst |-> x, src |-> y, arg |-> g, univ |-> u]
Relate(g, s, d) == [op |-> "relate", arg |-> g, src |-> s, dst |-> d]

Start == <<Create("A", All), Create("B", All), Create("P", <<0, 2>>)>>
OpeningsDef ==
    {Start \o <<Create("Q", <<0, 1>>), Add("A", <<0, 0, 0>>)>>,
     Start \o <<Create("Q", <<0, 1>>),
                Add("A", <<0, 0, 0>>), Add("A", <<1, 0, 2>>), Add("B", <<0, 1, 1>>), Add("B", <<1, 0, 2>>),
                Relate(1, <<0, 0>>, <<1, 0>>), Relate(2, <<0, 2>>, <<1, 1>>), Relate(1, <<1, 0>>, <<0, 1>>)>>,
     Start \o <<Create("Q", <<0, 2>>),
                Add("A", <<0, 0, 0>>), Add("A", <<1, 0, 2>>), Count("A"), Clear("A"),
                Add("B", <<0, 1, 1>>), Add("B", <<1, 0, 2>>)>>}

CallsDef ==
    {Add("A", <<1, 1, 1>>), Add("B", <<0, 0, 0>>), Clear("B"), Count("A"),
     Two("union", "A", "B"), Two("minus", "B", "A"), Two("intersect", "A", "B"), Two("copy", "B", "A"),
     Two("project", "P", "A"), Two("least", "A", "A"), Two("least", "B", "A"),
     CopyMatch("B", "A", <<0, 2>>, <<0, 0>>),
     Img("B", "A", 1), Img("A", "B", 2), Pre("B", "A", 1, "A"), Pre("B", "A", 2, "A"),
     CopyMatch("B", "A", <<0, 1>>, <<1, 0>>), CopyMatch("A", "B", <<1, 2>>, <<1, 1>>),
     Relate(1, <<0, 0>>, <<1, 1>>), Destroy("B"), Create("B", All),
     Destroy("Q"), Create("Q", <<1, 2>>), Two("project", "Q", "A"), Destroy("P")}

--------------------------------------------------------------------------------
(* A fixpoint that collects while apply_rel_fixpoint runs.                         *)
SatProj == <<<<0, 1>>>>
SatTrans ==
    <<<<<<<<0, 1>>, <<2, 0>>>>, <<<<0, 1>>, <<3, 0>>>>, <<<<0, 2>>, <<2, 3>>>>,
        <<<<1, 2>>, <<1, 3>>>>, <<<<1, 2>>, <<2, 1>>>>, <<<<1, 2>>, <<3, 3>>>>,
        <<<<2, 0>>, <<1, 2>>>>, <<<<3, 0>>, <<0, 2>>>>, <<<<3, 2>>, <<0, 1>>>>>>>>
SatOpenings == {<<Create("A", All), Create("B", All), Add("A", <<3, 2>>)>>}
SatCalls == {Two("least", "B", "A")}
================================================================================

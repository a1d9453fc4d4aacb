------------------------------- MODULE MCVIso -------------------------------
(* An instance of VIsoRead for TLC: the folders to build images of. *)
EXTENDS VIsoRead

N(stem, len) == [stem |-> stem, lower |-> TRUE, len |-> len]
NU(stem, len) == [stem |-> stem, lower |-> FALSE, len |-> len]
F(name, size) == [name |-> name, size |-> size, part |-> "plain"]
D(name, up) == [name |-> name, up |-> up]
Root == D(N("root", 4), 1)
Tree(dirs, files) == [dirs |-> <<Root>> \o dirs, files |-> files]

\* Two files and a third one, of sizes at the edges of sectors and of extents.
Sizes ==
    LET s == SECTOR_SIZE
        m == MULTIEXTENT_PART_SIZE
    IN  {<<0, 1, s>>, <<s - 1, s, s + 1>>, <<2 * s, 0, 0>>, <<m, UINT32 - 1, UINT32>>,
         <<2 * m, 2 * m + 1, 1>>, <<UINT32 + 1, 0, 5>>}
SizeTrees ==
    {Tree(<<D(N("d", 3), 1)>>, <<<<F(N("a", 5), z[1]), F(N("b", 5), z[2])>>, <<F(N("c", 5), z[3])>>>>)
        : z \in Sizes}

\* A directory in the first of two directories: it comes last in the list.
DeepTree ==
    Tree(<<D(N("a", 3), 1), D(N("b", 4), 1), D(N("c", 5), 2), D(N("d", 5), 3)>>,
         <<<<F(N("e", 3), 3)>>, << >>, <<F(N("f", 3), 4), F(N("g", 3), 4)>>, <<F(N("h", 3), 5)>>, << >>>>)

\* Long names: the records of a directory take more than one sector.
LongTree(n) ==
    Tree(<<D(N("d", 100), 1)>>,
         <<<<F(N("a", n), 1), F(N("b", n), 1), F(N("c", n), 1)>>, <<F(N("e", n), 2)>>>>)

\* Names that are the same in upper case, or when they are cut.
TwinTree == Tree(<<D(NU("d", 6), 1), D(N("d", 6), 1)>>, <<<<F(N("a", 3), 1)>>, <<F(N("b", 3), 1)>>, << >>>>)
CutTree == Tree(<<D(N("d", 103), 1)>>, <<<<F(N("d", 110), 1)>>, << >>>>)

\* What the builder refuses.
WideTree(n) == Tree(<<D(N("d", n), 1)>>, <<<<F(N("a", 3), 1)>>, << >>>>)
PartTree == Tree(<< >>, <<<<[name |-> N("a", 9), size |-> 2, part |-> "first"],
                            [name |-> N("b", 9), size |-> 1, part |-> "other"]>>>>)
OrphanTree == Tree(<< >>, <<<<[name |-> N("a", 9), size |-> 2, part |-> "other"], F(N("b", 3), 1)>>>>)
LeftOverTree == Tree(<< >>, <<<<F(N("a", 3), 1), [name |-> N("b", 9), size |-> 2, part |-> "other"]>>>>)
ExtentsTree == Tree(<< >>, <<<<F(N("a", 120), 30 * MULTIEXTENT_PART_SIZE)>>>>)
CrowdedTree == Tree(<< >>, <<[i \in 1 .. 17 |-> F(N("a", 120 + i), 0)]>>)
\* More directories than a path table has numbers for; with long names, there
\* is no room for those it has.
ChainTree(n) == Tree([i \in 1 .. 20 |-> D(N("d", n), i)], [i \in 1 .. 21 |-> << >>])

MCTrees ==
    SizeTrees \cup {DeepTree, LongTree(90), LongTree(200), LongTree(254), TwinTree, CutTree,
                    WideTree(107), WideTree(108), WideTree(205), PartTree, OrphanTree, LeftOverTree, ExtentsTree,
                    CrowdedTree, ChainTree(107), ChainTree(5)}
=============================================================================

---------------------------- MODULE MCDirListing ----------------------------
EXTENDS DirListing, TLC

F(n, s) == [name |-> n, dir |-> FALSE, size |-> s]
D(n) == [name |-> n, dir |-> TRUE, size |-> 0]

\* GAMES has a folder and INI files list two folders outside, with a name
\* in both and a folder that GAMES has as well.
Merging ==
    [dir |-> (<<"root">> :> <<D("GAMES"), F("GAMES.INI", 1)>>)
          @@ (<<"root", "GAMES">> :> <<F("a", 1), D("sub"), F("b", 2)>>)
          @@ (<<"root", "GAMES", "sub">> :> <<F("c", 4), D("deep")>>)
          @@ (<<"root", "GAMES", "sub", "deep">> :> <<F("d", 8)>>)
          @@ (<<"ext1">> :> <<F("b", 16), F("x", 1)>>)
          @@ (<<"ext2">> :> <<F("x", 2), D("sub"), D("more"), F("y", 3)>>)
          @@ (<<"ext2", "sub">> :> <<F("c", 5), F("z", 1)>>)
          @@ (<<"ext2", "more">> :> <<F("w", 6)>>),
     ini |-> <<"root", "GAMES">> :> <<<<"ext1">>, <<"gone">>, <<"ext2">>>>,
     beyond |-> <<"root", "GAMES">> :> << >>,
     requests |-> {<< >>, <<"GAMES">>, <<"GAMES", "sub">>, <<"GAMES", "more">>, <<"GAMES", "a">>, <<"none">>}]

\* PS2 is no folder: its INI file leads to one below the shared directory,
\* which has an INI file of its own; one of its entries has one, too.
Redirecting ==
    [dir |-> (<<"root">> :> <<F("PS2.INI", 1), D("DVD"), F("DVD.INI", 1)>>)
          @@ (<<"root", "DVD">> :> <<F("a", 1), D("m")>>)
          @@ (<<"root", "DVD", "m">> :> <<F("a", 3), F("f", 1)>>)
          @@ (<<"ext1">> :> <<D("m"), D("n"), F("a", 2)>>)
          @@ (<<"ext1", "m">> :> <<F("g", 1)>>)
          @@ (<<"ext1", "n">> :> << >>),
     ini |-> (<<"root", "PS2">> :> <<<<"root", "DVD">>, <<"ext1">>>>)
          @@ (<<"root", "DVD">> :> <<<<"ext1">>>>),
     beyond |-> (<<"root", "PS2">> :> << >>) @@ (<<"root", "DVD">> :> << >>),
     requests |-> {<<"PS2">>, <<"PS2", "m">>, <<"PS2", "n">>, <<"DVD">>, <<"DVD", "n">>, <<"***PS3***", "DVD">>}]

\* More folders and files than the array has entries; an INI file beside the
\* shared directory.
Crowded ==
    [dir |-> (<<"root">> :> <<D("p"), D("q"), F("a", 1), D("r"), F("b", 1), F("c", 1)>>)
          @@ (<<"root", "p">> :> <<F("a", 1), F("b", 1), F("c", 1), F("d", 1), F("e", 1)>>)
          @@ (<<"root", "q">> :> <<F("a", 1), F("b", 1)>>)
          @@ (<<"root", "r">> :> <<F("a", 1)>>)
          @@ (<<"ext1">> :> <<F("h", 1), F("i", 1)>>),
     ini |-> <<"root">> :> <<<<"ext1">>, <<"ext1">>>>,
     beyond |-> <<"root">> :> << >>,
     requests |-> {<< >>, <<"p">>, <<"r">>}]

\* Two INI files that fill the buffer: the last line is read as some other
\* folder, or as one more that the file does not list.
Overlong ==
    [dir |-> (<<"root">> :> <<D("GAMES"), F("GAMES.INI", 5), F("PS2.INI", 4)>>)
          @@ (<<"root", "GAMES">> :> <<F("a", 1)>>)
          @@ (<<"ext1">> :> <<F("b", 1)>>)
          @@ (<<"ext2">> :> <<F("c", 1)>>)
          @@ (<<"ext3">> :> <<F("d", 1), F("e", 2)>>),
     ini |-> (<<"root", "GAMES">> :> <<<<"gone">>, <<"ext1">>, <<"gone">>, <<"ext2">>, <<"ext2">>>>)
          @@ (<<"root", "PS2">> :> <<<<"gone">>, <<"gone">>, <<"gone">>, <<"ext2">>>>),
     beyond |-> (<<"root", "GAMES">> :> <<<<"junk">>, <<"ext3">>>>)
             @@ (<<"root", "PS2">> :> <<<<"ext3">>>>),
     requests |-> {<<"GAMES">>, <<"PS2">>, <<"PS2", "e">>}]

MCWorlds == {Merging, Redirecting, Crowded, Overlong}
=============================================================================

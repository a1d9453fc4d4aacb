----------------------------- MODULE MCStartup -----------------------------
EXTENDS Startup

P(abs, names) == [abs |-> abs, names |-> names, len |-> "short"]

Game == P(TRUE, <<<<"srv">>, <<"game">>>>)
Isos == P(TRUE, <<<<"srv">>, <<"my", "isos">>>>)
Disc == P(FALSE, <<<<"d">>, <<"x", "iso", "0">>>>)
Bare == P(FALSE, <<<<"x", "ISO">>>>)
Dirs == {Slash, Empty, Game, Isos, Disc, Bare,
         [Game EXCEPT !.len = "long"], [Isos EXCEPT !.len = "near"]}

Exes == {P(FALSE, <<<<"ps3netsrv">>>>), P(TRUE, <<<<"ps3netsrv">>>>), P(TRUE, <<<<"opt">>, <<"ps3netsrv">>>>)}

Tokens == 0 .. OCTETS \cup {Wildcard, Junk}
Whitelists ==
    [1 .. 4 -> Tokens] \cup {<<1>>, <<1, 2, 0>>, <<1, 1, 1, 2, 1>>, <<1, 1, 1, Wildcard, 1>>}

Server(exe, a) == [makeiso |-> FALSE, exe |-> exe, args |-> a]
MCCommands ==
    {Server(e, << >>) : e \in Exes}
    \cup {Server(e, <<d>>) : e \in Exes, d \in Dirs}
    \cup {Server(e, <<d, u>>) : e \in Exes, d \in Dirs, u \in {0, 1023, 1024, 65535, 65536, PS3, ISO, Junk}}
    \cup {Server(P(FALSE, <<<<"ps3netsrv">>>>), <<Game, u, w>>) : u \in {38008, PS3}, w \in Whitelists}
    \cup {[makeiso |-> TRUE, exe |-> P(FALSE, <<<<"makeiso">>>>), args |-> a] :
              a \in UNION {[1 .. n -> Dirs] : n \in 0 .. 3}}

MCEnvironments ==
    {[cwd |-> c, marker |-> m, sfo |-> {Game},
      there |-> {Game, Disc, Bare, Slash, [Isos EXCEPT !.len = "near"], [Game EXCEPT !.len = "long"]}] :
        c \in {Slash, P(TRUE, <<<<"home">>>>)}, m \in BOOLEAN}
=============================================================================

------------------------------- MODULE Startup -------------------------------
(***************************************************************************)
(* main() up to the accept loop: the shared directory, the port and the    *)
(* whitelist from the command line, the choice between serving and making  *)
(* an image, the listening socket.  The build with MAKEISO makes an image  *)
(* of each argument instead.                                               *)
(*                                                                         *)
(* A path is a record of names and whether it begins with a slash: "" and  *)
(* "/" differ in that alone.  A name is the sequence of its parts between  *)
(* dots.  Octets and addresses are numbers to the base OCTETS.             *)
(***************************************************************************)
EXTENDS Integers, Sequences, SequencesExt, FiniteSetsExt

CONSTANTS
    Commands,       \* [makeiso, exe, args]: the build, argv[0] and the arguments
    Environments,   \* [cwd, marker, there, sfo]: see below
    OCTETS,         \* 256
    PS3, ISO,       \* the arguments "PS3" and "ISO"
    Wildcard,       \* "*" between the dots of a whitelist
    Junk            \* any other text

ASSUME OctetsAssumption == OCTETS \in Nat \ {0}
ASSUME WordsAssumption == PS3 \notin Int /\ ISO \notin Int /\ Junk \notin {PS3, ISO}
ASSUME CommandsAssumption ==
    \A c \in Commands :
        /\ Len(c.args) \in Nat
        /\ c.exe \in [abs : BOOLEAN, names : Seq(Seq(STRING)) \ {<< >>}, len : STRING]
ASSUME EnvironmentsAssumption ==
    \A e \in Environments : e.cwd \in [abs : {TRUE}, names : Seq(Seq(STRING)), len : {"short"}]

VARIABLES
    cmd,
    env,        \* the current directory, whether it has a folder such as ./GAMES,
                \* the paths that exist and those with a PS3_GAME/PARAM.SFO in them
    pc,         \* where main() is; "exit", "crashed" and "listening" are its ends
    argc,       \* the arguments that count, argv[0] not among them
    root_directory, make_iso, port,
    whitelist_start, whitelist_end,
    i,          \* the octet, or the argument, that is next
    outputs     \* the images made: of which path, under which name, of which kind

args == <<root_directory, make_iso, port, argc>>
whitelist == <<whitelist_start, whitelist_end>>
vars == <<cmd, env, pc, args, whitelist, i, outputs>>

NETISO_PORT == 38008
MIN_PORT == 1024
Empty == [abs |-> FALSE, names |-> << >>, len |-> "short"]
Slash == [abs |-> TRUE, names |-> << >>, len |-> "short"]

\* Is there a slash in the path (for strrchr()).
HasSlash(p) == p.abs \/ Len(p.names) > 1

\* The part of a path before its last slash.
Before(p) == [p EXCEPT !.names = Front(@), !.abs = @ /\ Len(p.names) > 1]

\* A path of MAX_PATH_LEN - 10 bytes or more is too long to make an image of.
TooLong(p) == p.len \in {"near", "long"}

\* normalize_path(path, true): slashes at the end are removed, all of them.
normalize_path(p) == IF p.names = << >> THEN Empty ELSE p

\* A part that makes strstr(path, ".iso") or ".ISO" find something: "isos" does.
IsoLike == {"iso", "ISO", "isos"}
HasIso(p) == \E n \in Range(p.names) : \E k \in 2 .. Len(n) : n[k] \in IsoLike

\* The name of the image: ".iso" after the name, and ".new.iso" for the first
\* ".iso." or ".ISO." that this makes.
OutFile(name) ==
    LET new(n, ext) ==
            LET at == {k \in 2 .. Len(n) - 1 : n[k] = ext}
            IN  IF at = {} THEN n ELSE SubSeq(n, 1, Min(at) - 1) \o <<"new", "iso">>
    IN  new(new(Append(name, "iso"), "iso"), "ISO")

-----------------------------------------------------------------------------
Init ==
    /\ cmd \in Commands /\ env \in Environments
    /\ pc = "args" /\ argc = Len(cmd.args)
    /\ root_directory = Empty /\ make_iso = "VISO_NONE" /\ port = NETISO_PORT
    /\ whitelist_start = 0 /\ whitelist_end = 0
    /\ i = 0 /\ outputs = << >>

Exit == pc' = "exit" /\ UNCHANGED <<args, i>>

MutexInitFails == pc = "args" /\ Exit /\ UNCHANGED <<cmd, env, whitelist, outputs>>

\* Mutant: a port or more after the directory does not keep it from being made
\* an image.
ImageKindAlways(root, n) ==
    IF root \in env.sfo THEN "VISO_PS3"
    ELSE IF HasIso(root) \/ cmd.makeiso THEN "VISO_ISO" ELSE "VISO_NONE"

\* Without a second argument the directory tells if an image is wanted.
ImageKind(root, n) ==
    IF n < 2 /\ root \in env.sfo THEN "VISO_PS3"
    ELSE IF (n < 2 /\ HasIso(root)) \/ cmd.makeiso THEN "VISO_ISO" ELSE "VISO_NONE"

\* The directory: the first argument or, if there is none and the current
\* directory looks like a share, that of the program, provided that it was
\* started by a path.
Args ==
    /\ pc = "args"
    /\ LET default == ~cmd.makeiso /\ HasSlash(cmd.exe) /\ env.marker
           given == IF cmd.args = << >> THEN Before(cmd.exe) ELSE cmd.args[1]
       IN  IF (cmd.args = << >> /\ ~default) \/ given.len = "long"
           THEN Exit
           ELSE /\ argc' = Max({1, argc})
                /\ root_directory' = normalize_path(given)
                /\ make_iso' = ImageKind(root_directory', argc')
                /\ pc' = IF cmd.makeiso THEN "images" ELSE "root"
                /\ i' = 1 /\ UNCHANGED port
    /\ UNCHANGED <<cmd, env, whitelist, outputs>>

\* argv[0] up to its last slash, if it has one.
ProgramDir == IF HasSlash(cmd.exe) THEN Before(cmd.exe) ELSE cmd.exe

\* Mutant: an empty path is left as it is.
RootKept ==
    /\ pc = "root" /\ pc' = "port"
    /\ UNCHANGED <<cmd, env, args, whitelist, i, outputs>>

\* An empty path stands for the current directory or, if getcwd() fails, for
\* that of the program.
Root ==
    /\ pc = "root"
    /\ \E getcwd \in BOOLEAN :
          LET here == IF getcwd THEN env.cwd ELSE ProgramDir
          IN  root_directory' = normalize_path(IF root_directory = Empty THEN here ELSE root_directory)
    /\ pc' = IF root_directory' = Slash THEN "exit" ELSE "port"
    /\ UNCHANGED <<cmd, env, make_iso, port, argc, whitelist, i, outputs>>

\* The second argument: a port, or the kind of an image.
Port ==
    /\ pc = "port"
    /\ LET u == IF argc < 2 THEN NETISO_PORT ELSE cmd.args[2]
       IN  IF u = Junk \/ (u \notin {PS3, ISO} /\ u \notin MIN_PORT .. 65535)
           THEN Exit
           ELSE /\ port' = IF u \in {PS3, ISO} THEN port ELSE u
                /\ make_iso' = CASE u = PS3 -> "VISO_PS3" [] u = ISO -> "VISO_ISO" [] OTHER -> make_iso
                /\ pc' = "whitelist" /\ i' = 3
                /\ UNCHANGED <<root_directory, argc>>
    /\ UNCHANGED <<cmd, env, whitelist, outputs>>

-----------------------------------------------------------------------------
(* The whitelist: octets i = 3 .. 0 from the tokens between the dots. *)

tokens == cmd.args[3]
token == tokens[4 - i]

\* A wildcard in last place must end the argument; a number need not.
WellFormed ==
    /\ token \in 0 .. OCTETS - 1 \/ (token = Wildcard /\ (i = 0 => Len(tokens) = 4))
    /\ i > 0 => Len(tokens) > 4 - i

\* What octet k of an address counts: << (k * 8).
Place(k) == <<1, OCTETS, OCTETS * OCTETS, OCTETS * OCTETS * OCTETS>>[k + 1]

\* Mutant: a wildcard is not moved to the place of its octet.
OctetNoShift ==
    /\ whitelist_start' = whitelist_start + (IF token = Wildcard THEN 0 ELSE token * Place(i))
    /\ whitelist_end' = whitelist_end + (IF token = Wildcard THEN OCTETS - 1 ELSE token * Place(i))

\* A number counts in both ends of the range, a wildcard is 0 to 255.
Octet ==
    /\ whitelist_start' = whitelist_start + (IF token = Wildcard THEN 0 ELSE token * Place(i))
    /\ whitelist_end' = whitelist_end + (IF token = Wildcard THEN OCTETS - 1 ELSE token) * Place(i)

ParseWhitelist ==
    /\ pc = "whitelist" /\ argc > 2 /\ i >= 0
    /\ IF WellFormed
       THEN Octet /\ i' = i - 1 /\ UNCHANGED <<pc, args>>
       ELSE Exit /\ UNCHANGED whitelist
    /\ UNCHANGED <<cmd, env, outputs>>

\* initialize_socket(): socket(), setsockopt(), bind() or listen() may fail.
\* This comes before the image, too.
InitializeSocket ==
    /\ pc = "whitelist" /\ (argc <= 2 \/ i < 0)
    /\ \/ pc' = IF make_iso = "VISO_NONE" THEN "listening" ELSE "image"
       \/ pc' = "exit"
    /\ UNCHANGED <<cmd, env, args, whitelist, i, outputs>>

-----------------------------------------------------------------------------
(* Images *)

\* create_iso(): the output is named after what follows the last slash, and
\* strrchr() must find one.
MakeImage(p, kind) ==
    IF HasSlash(p)
    THEN /\ outputs' = Append(outputs, [from |-> p, to |-> OutFile(Last(p.names)), kind |-> kind])
         /\ UNCHANGED pc
    ELSE pc' = "crashed" /\ UNCHANGED outputs

\* The server makes one image and ends.
ServerImage ==
    /\ pc = "image"
    /\ IF TooLong(root_directory) \/ outputs # << >>
       THEN pc' = "exit" /\ UNCHANGED outputs
       ELSE MakeImage(root_directory, make_iso)
    /\ UNCHANGED <<cmd, env, args, whitelist, i>>

\* The kind of the next image comes from its own folder.
MakeImageOf(path) ==
    /\ make_iso' = IF path \in env.sfo THEN "VISO_PS3" ELSE "VISO_ISO"
    /\ MakeImage(path, make_iso')

\* Mutant: the loop ends at a path that is not there.
NextImageStops ==
    /\ pc = "images"
    /\ IF i > Len(cmd.args) \/ cmd.args[i] \notin env.there \/ TooLong(cmd.args[i])
       THEN Exit /\ UNCHANGED outputs
       ELSE MakeImageOf(normalize_path(cmd.args[i])) /\ i' = i + 1 /\ UNCHANGED <<root_directory, port, argc>>
    /\ UNCHANGED <<cmd, env, whitelist>>

\* Mutant: the loop stays at a path that is not there.
NextImageStays ==
    /\ pc = "images"
    /\ IF i > Len(cmd.args) \/ TooLong(cmd.args[i])
       THEN Exit /\ UNCHANGED outputs
       ELSE IF cmd.args[i] \notin env.there
       THEN UNCHANGED <<pc, outputs, i, args>>
       ELSE MakeImageOf(normalize_path(cmd.args[i])) /\ i' = i + 1 /\ UNCHANGED <<root_directory, port, argc>>
    /\ UNCHANGED <<cmd, env, whitelist>>

\* The build with MAKEISO: one argument after the other, each of its own kind.
NextImage ==
    /\ pc = "images"
    /\ IF i > Len(cmd.args) \/ (cmd.args[i] \in env.there /\ TooLong(cmd.args[i]))
       THEN Exit /\ UNCHANGED outputs
       ELSE /\ i' = i + 1 /\ UNCHANGED <<root_directory, port, argc>>
            /\ IF cmd.args[i] \notin env.there THEN UNCHANGED <<pc, make_iso, outputs>>
               ELSE MakeImageOf(normalize_path(cmd.args[i]))
    /\ UNCHANGED <<cmd, env, whitelist>>

Next ==
    \/ MutexInitFails \/ Args \/ Root \/ Port \/ ParseWhitelist \/ InitializeSocket
    \/ ServerImage \/ NextImage

\* main() runs in one thread that nothing blocks before accept().
Spec == Init /\ [][Next]_vars /\ WF_vars(Next)

-----------------------------------------------------------------------------
(* Properties *)

\* What the accept loop makes of the range: a start of 0 means no whitelist.
Admitted(ip) == whitelist_start = 0 \/ (whitelist_start <= ip /\ ip <= whitelist_end)
Matches(ip) ==
    \A k \in 0 .. 3 : tokens[4 - k] = Wildcard \/ tokens[4 - k] = (ip \div Place(k)) % OCTETS

\* The range is built octet by octet and compared as one number.  Every address
\* that matches the whitelist is served.  No other one is, if the wildcards are
\* at the end, as in 192.168.1.*, and some octet is a number other than 0;
\* otherwise the range has more addresses than the pattern.
WhitelistAdmits ==
    pc = "listening" /\ argc > 2 =>
        LET trailing == \A j, k \in 1 .. 4 : j < k /\ tokens[j] = Wildcard => tokens[k] = Wildcard
            positive == \E k \in 1 .. 4 : tokens[k] \notin {0, Wildcard}
        IN  \A ip \in 0 .. OCTETS * Place(3) - 1 :
                /\ Matches(ip) => Admitted(ip)
                /\ trailing /\ positive /\ Admitted(ip) => Matches(ip)

\* The directory that is served is the one that was named, or the program's own
\* if there are no arguments.  For an empty argument it is the current directory
\* or, if that cannot be told, the one of the program.  What happens to "/" is
\* the question of RootRefused.
RootServed ==
    pc = "listening" =>
        LET named == IF cmd.args = << >> THEN Before(cmd.exe) ELSE cmd.args[1]
        IN  /\ named.names # << >> => root_directory = named
            /\ cmd.args # << >> /\ named = Empty =>
                  root_directory.names \in {env.cwd.names, ProgramDir.names}

\* "/ can't be specified as root directory": a server that is told to share "/"
\* does not listen.  normalize_path() has made an empty path of it by the time
\* main() looks for it.
RootRefused == pc = "listening" /\ cmd.args # << >> => cmd.args[1] # Slash

\* Does the command line ask for an image: "PS3" or "ISO", or nothing but a
\* game folder or something with .iso in its path.
ImageAsked ==
    LET root == normalize_path(IF cmd.args = << >> THEN Before(cmd.exe) ELSE cmd.args[1])
    IN  IF Len(cmd.args) > 1 THEN cmd.args[2] \in {PS3, ISO} ELSE root \in env.sfo \/ HasIso(root)

\* A directory is served exactly when no image was asked for: a directory that
\* is given with a port is served whatever is in it.
ServesOrMakes ==
    ~cmd.makeiso =>
        /\ pc = "listening" => ~ImageAsked
        /\ outputs # << >> => ImageAsked /\ Len(outputs) = 1

\* The arguments that are there, among the first n.
Found(n) == {j \in 1 .. n : cmd.args[j] \in env.there}

\* Image k of the first n arguments is the one of the k-th argument that is
\* there, and of the kind that is its own.
MadeOf(n) ==
    /\ Len(outputs) = Cardinality(Found(n))
    /\ \A j \in Found(n) :
          LET image == outputs[Cardinality(Found(j))]
          IN  /\ image.from = normalize_path(cmd.args[j])
              /\ (image.kind = "VISO_PS3") = (image.from \in env.sfo)

\* The build with MAKEISO makes an image of every argument that is there, in
\* their order and of the kind that is its own, unless it ends before its time,
\* at an argument that is there and too long: an argument that is not there costs
\* no other one its image.
ImagesMade == cmd.makeiso /\ pc = "exit" /\ i > Len(cmd.args) => MadeOf(Len(cmd.args))
EarlyEnd ==
    cmd.makeiso /\ pc = "exit" /\ i \in 1 .. Len(cmd.args) =>
        cmd.args[i] \in env.there /\ TooLong(cmd.args[i])
MakesAllImages == ImagesMade /\ EarlyEnd

\* The program gets to its accept loop or ends.
StartupEnds == <>(pc \in {"listening", "exit", "crashed"})
=============================================================================

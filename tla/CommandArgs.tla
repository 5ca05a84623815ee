------------------------------ MODULE CommandArgs ------------------------------
(***************************************************************************)
(* From the words of a command line to what main runs: parse_args, which   *)
(* cuts the line at the names of subcommands, the declarations main gives  *)
(* argparse, the action FixArgValue, and the checks of main.  A word is a  *)
(* string; only whether it is an option, a subcommand, a number or one of  *)
(* the values a declaration allows is looked at.                           *)
(*                                                                         *)
(* argparse is external.  It gives each group of positional words between  *)
(* two options to as many positional arguments as it can serve, optional   *)
(* ones too: an argument that got nothing gets nothing later.              *)
(*                                                                         *)
(* A line grows by an argument of the peripheral, a subcommand or -o at a  *)
(* time; runs is what main would run if it ended there.                    *)
(***************************************************************************)
EXTENDS Integers, Sequences, FiniteSets, SequencesExt, FiniteSetsExt

CONSTANTS
    Words,       \* the word that is given for each argument, by name
    Numbers,     \* words check_int converts
    MemoryIds,   \* words of the memory ids that are allowed, but 0
    Peripherals, \* peripheral options with their words
    Speeds,      \* words that are decimal numbers
    Origins,     \* what is written behind -o
    Arity,       \* how many arguments each method may take
    MaxCommands  \* bound: subcommands in a line, -o counted as one

ASSUME WordsAssumption ==
    /\ MemoryIds \subseteq Numbers /\ Speeds \subseteq Numbers
    /\ "0" \in Numbers \ MemoryIds
    /\ MaxCommands \in Nat

VARIABLES
    line,    \* the words
    said     \* ghost: what the user meant: peripheral, subcommands, words behind -o

vars == <<line, said>>

-----------------------------------------------------------------------------
(* The declarations.                                                       *)

Need(dest, type)        == [dest |-> dest, type |-> type, optional |-> FALSE]
May(dest, type)         == [dest |-> dest, type |-> type, optional |-> TRUE]

\* The subcommands in the order main runs them.
Order == <<"info", "write", "read", "fill", "erase", "unlock", "reset">>

\* Mutant of Handled: a subcommand is declared, but main does not look for it.
HandledButUnlock == <<"info", "write", "read", "fill", "erase", "reset">>

Handled == Order

Subcommands == Range(Order)

\* Positional arguments.  "fix" is the action FixArgValue.
Positionals ==
    [info   |-> <<May("memory_id", "id")>>,
     write  |-> <<May("address", "int"), Need("filename", "str"), May("memory_id", "id")>>,
     read   |-> <<Need("address", "int"), Need("length", "int"), May("filename", "str"),
                  May("memory_id", "fix")>>,
     fill   |-> <<Need("address", "int"), Need("byte_count", "int"),
                  Need("pattern", "int"), May("unit", "unit")>>,
     erase  |-> <<May("address", "int"), May("length", "int"), May("memory_id", "id")>>,
     unlock |-> <<>>,
     reset  |-> <<>>]

\* Options and how many words they take; -1 is nargs='*'.
Options ==
    [info   |-> [x \in {"-e"} |-> -1],
     write  |-> [x \in {"-o", "--no_erase", "-e"} |->
                   CASE x = "-o" -> 1 [] x = "-e" -> -1 [] OTHER -> 0],
     read   |-> [x \in {"-c", "-e"} |-> IF x = "-e" THEN -1 ELSE 0],
     fill   |-> [x \in {"--no_erase"} |-> 0],
     erase  |-> [x \in {"-a", "-e"} |-> IF x = "-e" THEN -1 ELSE 0],
     unlock |-> [x \in {"-k"} |-> 1],
     reset  |-> [x \in {} |-> 0]]

Dests == {"memory_id", "address", "filename", "length", "byte_count", "pattern", "unit",
          "-o", "-k"}

None == "None"

\* default= of the arguments.
Default(sub) ==
    [d \in Dests |->
       CASE d \in {"memory_id", "-o"}               -> "0"
         [] d = "length" /\ sub \in {"read", "erase"} -> "0x100"
         [] d = "unit"                              -> "word"
         [] OTHER                                   -> None]

\* What a subcommand is run with.
Args(sub, values, flags, words) ==
    [sub |-> sub, values |-> values, flags |-> flags, words |-> words]

IsOption(w) == w \in {"-u", "-p", "-s", "-i", "-o"} \cup UNION {DOMAIN Options[s] : s \in Subcommands}

-----------------------------------------------------------------------------
(* argparse.                                                               *)

\* The words up to the next option.
Group(ws) == LET ends == {i \in DOMAIN ws : IsOption(ws[i])}
             IN  IF ends = {} THEN ws ELSE SubSeq(ws, 1, Min(ends) - 1)

Drop(ws, n) == SubSeq(ws, n + 1, Len(ws))

\* The options of ws in order, each with its group.
Chunks(ws) ==
    LET at == SetToSortSeq({i \in DOMAIN ws : IsOption(ws[i])}, LAMBDA i, j : i < j)
    IN  [k \in DOMAIN at |-> [option |-> ws[at[k]], words |-> Group(Drop(ws, at[k]))]]

Needs(acts) == Cardinality({i \in DOMAIN acts : ~acts[i].optional})

Converts(type, w) ==
    CASE type = "int"  -> w \in Numbers
      [] type \in {"id", "fix"} -> w \in MemoryIds \cup {"0"}
      [] type = "unit" -> w \in {"word", "short", "byte"}
      [] OTHER         -> TRUE

\* A parse under way: arguments left, what is known of them, an exception, and
\* words nothing took.
Parse(left, args) == [left |-> left, args |-> args, bad |-> FALSE, extra |-> FALSE]

\* Mutant of FixArgValue: the file name stays.
FixArgValueKeeps(values) ==
    IF values["filename"] \in Numbers
    THEN [values EXCEPT !["memory_id"] = values["filename"]]
    ELSE [values EXCEPT !["memory_id"] = "0"]

\* FixArgValue of memory_id, when it got nothing or 0: a file name that is a number
\* was the memory id.  Whether the id is allowed is not looked at.
FixArgValue(values) ==
    IF values["filename"] \in Numbers
    THEN [values EXCEPT !["memory_id"] = values["filename"], !["filename"] = None]
    ELSE [values EXCEPT !["memory_id"] = "0"]

\* An argument takes its words: one, or none.
Take(p, act, ws) ==
    LET v == p.args.values
    IN  [p EXCEPT
          !.bad = @ \/ (ws # <<>> /\ ~Converts(act.type, ws[1])),
          !.args.values =
             CASE act.type = "fix" /\ ws \in {<<>>, <<"0">>} -> FixArgValue(v)
               [] ws = <<>> -> v
               [] OTHER     -> [v EXCEPT ![act.dest] = ws[1]]]

\* consume_positionals: the most arguments the words can serve; the optional ones
\* among them get theirs from the left while enough are left for the others.
Consume(p, ws) ==
    LET fits  == {k \in 0 .. Len(p.left) : Needs(SubSeq(p.left, 1, k)) <= Len(ws)}
        acts  == SubSeq(p.left, 1, Max(fits))
        spare == Len(ws) - Needs(acts)
        Served(i) == ~acts[i].optional
                     \/ Cardinality({j \in 1 .. i : acts[j].optional}) <= spare
        served == {i \in DOMAIN acts : Served(i)}
        Word(i) == IF i \in served THEN <<ws[Cardinality({j \in served : j <= i})]>> ELSE <<>>
        after   == FoldLeft(LAMBDA q, i : Take(q, acts[i], Word(i)), p, [i \in DOMAIN acts |-> i])
    IN  [after EXCEPT !.left  = SubSeq(p.left, Len(acts) + 1, Len(p.left)),
                      !.extra = @ \/ Cardinality(served) < Len(ws)]

\* Arguments are served in the middle of a line if there are words for them.
ConsumeSome(p, ws) == IF ws = <<>> THEN p ELSE Consume(p, ws)

\* An option with the words behind it; those it does not take are positional.
TakeOption(p, c) ==
    LET opts == Options[p.args.sub]
    IN  IF c.option \notin DOMAIN opts THEN [ConsumeSome(p, c.words) EXCEPT !.extra = TRUE]
        ELSE CASE opts[c.option] = -1 ->
                    [p EXCEPT !.args.words = c.words,
                              !.bad = @ \/ (\E i \in DOMAIN c.words : c.words[i] \notin Numbers)]
               [] opts[c.option] = 0 ->
                    ConsumeSome([p EXCEPT !.args.flags = @ \cup {c.option}], c.words)
               [] OTHER ->
                    IF c.words = <<>> THEN [p EXCEPT !.bad = TRUE]
                    ELSE ConsumeSome([p EXCEPT !.args.values[c.option] = c.words[1],
                                               !.bad = @ \/ (c.option = "-o" /\ c.words[1] \notin Numbers)],
                                     Drop(c.words, 1))

\* The subparser of sub on the words behind its name: bad is an exception or an
\* exit, extra is args._unrecognized_args.
ParseCommand(sub, ws) ==
    LET start  == Parse(Positionals[sub], Args(sub, Default(sub), {}, <<>>))
        served == FoldLeft(TakeOption, ConsumeSome(start, Group(ws)), Chunks(ws))
        end    == Consume(served, <<>>)
    IN  [end EXCEPT !.bad = @ \/ end.left # <<>>]

-----------------------------------------------------------------------------
(* parse_args and main.                                                    *)

\* Mutant of Cuts: the line is cut even if there is an -o.
CutsAlways == {i \in DOMAIN line : line[i] \in Subcommands}

\* Where the line is cut: not at all if it has an -o anywhere.
Cuts ==
    IF Contains(line, "-o") THEN {} ELSE {i \in DOMAIN line : line[i] \in Subcommands}

BeforeCuts == IF Cuts = {} THEN line ELSE SubSeq(line, 1, Min(Cuts) - 1)

\* The words of the subcommand whose name is at i.
Behind(i) ==
    LET rest == {j \in Cuts : j > i}
    IN  SubSeq(line, i + 1, IF rest = {} THEN Len(line) ELSE Min(rest) - 1)

\* The namespace of each subcommand: of two with the same name, the second's.
Parsed(sub) == ParseCommand(sub, Behind(Max({i \in Cuts : line[i] = sub})))
Named       == {line[i] : i \in Cuts}

\* The peripheral: nargs='?' of -u, '*' of the others.  Any word more is taken for a
\* subcommand, with all that follows.
Option     == line[1]
Peripheral == LET ws == Group(Drop(BeforeCuts, 1))
              IN  IF Option = "-u" THEN SubSeq(ws, 1, Min({1, Len(ws)})) ELSE ws
Swallowed  == Drop(BeforeCuts, 1 + Len(Peripheral))

\* -o takes what is left of the line.
Origin ==
    IF Swallowed # <<>> /\ Swallowed[1] = "-o" THEN Drop(Swallowed, 1) ELSE <<>>

\* A subcommand in front of an -o: it is parsed and its values are stored where
\* main does not look.
Lost ==
    /\ Swallowed # <<>> /\ Swallowed[1] \in Subcommands
    /\ LET p == ParseCommand(Swallowed[1], Drop(Swallowed, 1)) IN ~p.bad /\ ~p.extra

\* argparse exits or check_int raises: nothing is opened.
Rejected ==
    \/ ~(Swallowed = <<>> \/ Swallowed[1] = "-o" \/ Lost)
    \/ \E i \in Cuts : ParseCommand(line[i], Behind(i)).bad

\* parse_peripheral: a port, a speed, or both.  -u gives it a string, of which it
\* looks at the first character, a digit in each of them.
PeripheralOk ==
    CASE Len(Peripheral) = 0 -> TRUE
      [] Len(Peripheral) = 1 -> Peripheral[1] \in Speeds \cup {Words["port"]}
      [] Len(Peripheral) = 2 -> Peripheral[1] = Words["port"] /\ Peripheral[2] \in Numbers
      [] OTHER               -> FALSE

\* The checks of main in front of a subcommand, when those before it have run.
Refused(p) ==
    \/ p.extra
    \/ p.args.sub = "erase" /\ p.args.values["address"] = None /\ "-a" \notin p.args.flags

\* What main runs, in its order, up to the first subcommand it refuses.
Todo   == SelectSeq(Handled, LAMBDA sub : sub \in Named)
Done   == LET stops == {k \in DOMAIN Todo : Refused(Parsed(Todo[k]))}
          IN  IF stops = {} THEN Len(Todo) ELSE Min(stops) - 1
Opened == line # <<>> /\ ~Rejected /\ PeripheralOk

\* check_method_arg_number of the method behind -o.
Callable == Origin = <<>> \/ (/\ Origin[1] \in DOMAIN Arity
                             /\ Len(Origin) - 1 \in Arity[Origin[1]])

Runs       == IF Opened THEN [k \in 1 .. Done |-> Parsed(Todo[k]).args] ELSE <<>>
OriginRuns == IF Opened /\ Callable THEN Origin ELSE <<>>
Failed     == ~Opened \/ Done < Len(Todo) \/ ~Callable

-----------------------------------------------------------------------------
(* Lines people write.                                                     *)

\* The arguments given, in the order of the help.
Uses ==
    [info   |-> {<<>>, <<"memory_id">>},
     write  |-> {<<"filename">>, <<"address", "filename">>, <<"filename", "memory_id">>,
                 <<"address", "filename", "memory_id">>},
     read   |-> {<<"address", "length">>, <<"address", "length", "filename">>,
                 <<"address", "length", "memory_id">>,
                 <<"address", "length", "filename", "memory_id">>},
     fill   |-> {<<"address", "byte_count", "pattern">>,
                 <<"address", "byte_count", "pattern", "unit">>},
     erase  |-> {<<>>, <<"address">>, <<"address", "length">>,
                 <<"address", "length", "memory_id">>},
     unlock |-> {<<>>},
     reset  |-> {<<>>}]

\* An option with its words.
Written(o) ==
    CASE o = "-e"         -> <<"-e", Words["config"], Words["config"]>>
      [] o \in {"-o", "-k"} -> <<o, Words[o]>>
      [] OTHER            -> <<o>>

Meant(sub, dests, opts) ==
    Args(sub,
         [d \in Dests |-> IF Contains(dests, d) \/ d \in opts THEN Words[d] ELSE Default(sub)[d]],
         opts \ {"-e", "-o", "-k"},
         IF "-e" \in opts THEN Tail(Written("-e")) ELSE <<>>)

\* The words of a subcommand: the options are behind the first k arguments, but
\* -e, which takes all words up to the next option, is the last.
WordsOf(sub, dests, opts, k) ==
    LET Values(s) == [i \in DOMAIN s |-> Words[s[i]]]
        All(s)    == FlattenSeq([i \in DOMAIN s |-> Written(s[i])])
    IN  <<sub>> \o Values(SubSeq(dests, 1, k)) \o All(SetToSeq(opts \ {"-e"}))
          \o Values(Drop(dests, k)) \o All(SetToSeq(opts \cap {"-e"}))

Start(option, ws) ==
    /\ line = <<>>
    /\ line' = <<option>> \o ws
    /\ said' = [said EXCEPT !.peripheral = ws]

Add(sub, dests, opts, k) ==
    /\ line # <<>> /\ said.origin = <<>> /\ Len(said.commands) < MaxCommands
    /\ line' = line \o WordsOf(sub, dests, opts, k)
    /\ said' = [said EXCEPT !.commands = Append(@, Meant(sub, dests, opts))]

AddOrigin(ws) ==
    /\ line # <<>> /\ said.origin = <<>> /\ Len(said.commands) < MaxCommands
    /\ line' = line \o <<"-o">> \o ws
    /\ said' = [said EXCEPT !.origin = ws]

Init == line = <<>> /\ said = [peripheral |-> <<>>, commands |-> <<>>, origin |-> <<>>]

Next ==
    \/ \E p \in Peripherals : Start(p.option, p.words)
    \/ \E sub \in Subcommands : \E dests \in Uses[sub], opts \in SUBSET DOMAIN Options[sub] :
         \E k \in 0 .. Len(dests) : Add(sub, dests, opts, k)
    \/ \E ws \in Origins : AddOrigin(ws)

Spec == Init /\ [][Next]_vars

-----------------------------------------------------------------------------
(* What is checked.                                                        *)

\* The last of the subcommands of this name in the line.
LastMeant(sub) ==
    said.commands[Max({i \in DOMAIN said.commands : said.commands[i].sub = sub})]

\* Whatever is left out of a line, wherever its options are and however it goes on,
\* what main runs has the arguments the line gives it, or does not run: a memory id
\* is no file name, an offset no method, a word nothing took no argument
\* (cli.py:20-53, 391-420, 454-508, 566-635).
AsGiven ==
    line # <<>> =>
        /\ Opened => Peripheral = said.peripheral
        /\ \A k \in DOMAIN Runs :
             /\ \E i \in DOMAIN said.commands : said.commands[i].sub = Runs[k].sub
             /\ Runs[k] = LastMeant(Runs[k].sub)
        /\ OriginRuns \in {<<>>, said.origin}

\* A line that does not fail runs all it names, but of subcommands with one name the
\* last only; lines with a subcommand and an -o are left out (cli.py:26-34, 47-52,
\* 566-635).
AllGiven ==
    line # <<>> /\ ~Failed =>
        IF Contains(line, "-o")
        THEN said.commands = <<>> => OriginRuns = said.origin
        ELSE {Runs[k].sub : k \in DOMAIN Runs}
               = {said.commands[i].sub : i \in DOMAIN said.commands}

=============================================================================

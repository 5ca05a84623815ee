-------------------------------- MODULE MCCli --------------------------------
(***************************************************************************)
(* Cli over a small device: flash 0 .. 11, RAM 12 .. 19, and an external   *)
(* flash of the same 20 addresses.                                         *)
(***************************************************************************)
EXTENDS Cli

MCFlash == Block(0, 12)
MCRam   == Block(12, 20)
NoRange == Block(0, 0)

Argument(block, mem) ==
    [block |-> block, mem |-> mem, noErase |-> FALSE, unitMatches |-> TRUE,
     exconf |-> [given |-> TRUE, start |-> 16, words |-> 1],
     all |-> FALSE, key |-> FALSE, address |-> TRUE]

\* In flash, across sectors, at its end, astride flash and RAM, in RAM, beyond
\* the end of RAM, empty.
WriteBlocks == {Block(0, 3), Block(3, 6), Block(10, 12), Block(11, 13),
                Block(12, 14), Block(15, 17), Block(18, 22), Block(4, 4)}
FillBlocks  == {Block(0, 1), Block(3, 4), Block(5, 6), Block(12, 13), Block(0, 0)}
EraseBlocks == {Block(2, 5), Block(12, 13), Block(0, 0)}

Line(given, w, f, e) ==
    [given |-> given, origin |-> << >>,
     args |-> [name \in Subcommands |->
                 CASE name = "fill" -> f [] name = "erase" -> e [] OTHER -> w]]

W == {Argument(b, m) : b \in WriteBlocks, m \in {0, 1}}
F == {Argument(b, 0) : b \in FillBlocks}
E == {Argument(b, m) : b \in EraseBlocks, m \in {0, 1}}
w0 == Argument(Block(3, 6), 0)
f0 == Argument(Block(3, 4), 0)
e0 == Argument(Block(2, 5), 0)

Pairs == {s \in SUBSET Subcommands : s # {} /\ \E x, y \in s : s = {x, y}}

\* Every pair of subcommands, with every block of one of them.
Lines == {Line(s, w, f0, e0) : s \in Pairs, w \in W}
    \cup {Line(s, w0, f, e0) : s \in {{"fill"}, {"write", "fill"}, {"info", "fill"}}, f \in F}
    \cup {Line(s, w0, f0, e) : s \in {{"erase"}, {"write", "erase"}, {"fill", "erase"}}, e \in E}
    \cup {Line(s, [w EXCEPT !.noErase = TRUE], [f EXCEPT !.noErase = TRUE], e0) :
            s \in {{"write"}, {"fill"}}, w \in {w0}, f \in {f0}}
    \cup {Line({"fill"}, w0, [f0 EXCEPT !.unitMatches = FALSE], e0)}
    \cup {Line({"write"}, [w EXCEPT !.mem = 1,
                           !.exconf = [given |-> g, start |-> 16, words |-> 0]], f0, e0) :
            w \in W, g \in BOOLEAN}
    \cup {Line({"erase"}, w0, f0, [e0 EXCEPT !.address = FALSE, !.all = all]) :
            all \in BOOLEAN}
    \cup {[Line({"write"}, w0, f0, e0) EXCEPT !.origin = flash_image(Block(6, 9), "erase", 0)]}
    \cup {[Line({"write", "read"}, w, f0, e0) EXCEPT !.args["read"] = Argument(w.block, 1)] :
            w \in W}
    \cup {Line({"unlock"}, [w0 EXCEPT !.key = TRUE], f0, e0)}
    \cup {Line({"write", "erase"}, w0, f0, [e EXCEPT !.all = TRUE]) : e \in E}

\* mboot -o method ...
Origin(steps) == [given |-> {}, origin |-> steps, args |-> Line({}, w0, f0, e0).args]
Origins == {Origin(o) : o \in
       {flash_image(b, e, m) : b \in WriteBlocks, e \in {"erase", "none", "number"}, m \in {0, 1}}
  \cup {write_memory(b, 0) : b \in WriteBlocks}
  \cup {read_memory(b, 0) : b \in WriteBlocks}
  \cup {flash_program_once(d) : d \in {"int", "list"}}
  \cup {flash_read_once(n) : n \in {4, 5}}
  \cup {receive_sb_file(n) : n \in BOOLEAN}
  \cup {key_provisioning(op) : op \in {"enroll", "set_user_key", "read_key_store", "invalid"}}
  \cup {generate_key_blob, flash_erase_all(0), flash_erase_all(1), reset,
       get_property, set_property, execute, call, reliable_update, flash_read_resource,
       efuse_read_once, efuse_program_once("int")}}

MCInvocations == Lines \cup Origins

=============================================================================

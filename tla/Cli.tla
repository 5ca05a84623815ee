---------------------------------- MODULE Cli ----------------------------------
(***************************************************************************)
(* One run of the mboot command: main goes through the subcommands it was  *)
(* given, or through one method of McuBoot (-o), and each of them through  *)
(* the calls McuBoot.tla lists.  A call has the outcome BootCommand        *)
(* promises: "ok" when the device did what it was told, "refused" for an   *)
(* error status (McuBootCommandError, McuBootDataError), "broken" for any  *)
(* other exception; the last two may leave the call half done.             *)
(*                                                                         *)
(* The device is external.  Its flash is erased by sectors, and a cell     *)
(* that is programmed without having been erased is spoilt.                *)
(***************************************************************************)
EXTENDS McuBoot

CONSTANTS
    Top,         \* bound: addresses are 0 .. Top - 1, internal and external
    Invocations  \* bound: the command lines of a run

ASSUME MemoryAssumption ==
    /\ Top \in Nat /\ InfoTags \in Nat
    /\ SectorSize \in Nat \ {0}
    /\ {Flash, Ram} \subseteq Blocks
    /\ Points(Flash) \cup Points(Ram) \subseteq 0 .. Top - 1
    /\ Points(Flash) \cap Points(Ram) = {}

VARIABLES
    inv,            \* the command line
    todo,           \* steps left
    memory, flash,  \* the ranges the host knows (self.memory, self.flash)
    content,        \* what each cell of the device holds
    said,           \* successes that were printed
    exit            \* how the run ended

host == <<memory, flash, said, exit>>
vars == <<inv, todo, host, content>>

Addr     == 0 .. Top - 1
Contents == {"old", "erased", "data", "pattern", "config", "spoilt"}

\* The arguments of a subcommand; address and given say that there is one.
Arguments ==
    [block : Blocks, mem : {0, 1}, noErase : BOOLEAN, unitMatches : BOOLEAN,
     all : BOOLEAN, key : BOOLEAN, address : BOOLEAN,
     exconf : [given : BOOLEAN, start : Nat, words : Nat]]

\* The properties and commands calls are about, and the errors of the host.
Tags ==
    {"RAM_START", "RAM_SIZE", "FLASH_START", "FLASH_SIZE", "FLASH_SECTOR_SIZE", "INFO",
     "EXTERNAL_MEMORY_ATTRIBUTES", "MAX_PACKET_SIZE", "AVAILABLE_COMMANDS", "PROPERTY",
     "SET_PROPERTY", "CONFIGURE_MEMORY", "EXECUTE", "CALL", "RELIABLE_UPDATE", "RESET",
     "FLASH_SECURITY_DISABLE", "FLASH_READ_ONCE", "RECEIVE_SB_FILE", "GENERATE_KEY_BLOB",
     "KEY_PROVISIONING", "none", "argument", "range", "name", "unsupported"}

HostSteps == {"decide", "say", "raise"}
Writes    == {"erase", "eraseAll", "program"}

\* What a step of each kind goes with.
Steps ==
    {s \in [do : HostSteps \cup Writes \cup {"get", "command", "read", "send", "fuse"},
            mem : {0, 1}, block : Blocks, arg : Contents \cup Subcommands \cup Tags,
            caught : SUBSET {"refused", "broken"}, skip : Nat] :
        /\ s.do \in Writes => s.arg \in Contents
        /\ s.do \in {"decide", "say"} => s.arg \in Subcommands}

\* A method of -o decides and prints nothing; two of them erase a region.  fill has no
\* memory id.
ASSUME InvocationsAssumption ==
    \A i \in Invocations :
        /\ i.given \subseteq Subcommands
        /\ i.args \in [Subcommands -> Arguments]
        /\ i.args["fill"].mem = 0
        /\ i.origin \in Seq({s \in Steps : s.do \notin {"decide", "say"}})
        /\ (\E j \in DOMAIN i.origin : i.origin[j].do = "erase") =>
              \E k \in DOMAIN i.origin :
                  LET s == i.origin[k]
                  IN  i.origin \in {flash_erase_region(s.block, s.mem),
                                    flash_image(s.block, "erase", s.mem)}

-----------------------------------------------------------------------------
(* The device.                                                             *)

FlashCells(mem) == IF mem = 0 THEN Points(Flash) ELSE Addr
Cells(mem)      == IF mem = 0 THEN Points(Flash) \cup Points(Ram) ELSE Addr

Sectors(cells) == {a \in Addr : \E c \in cells : a \div SectorSize = c \div SectorSize}

Accepts(step) ==
    CASE step.do = "erase"   -> Points(step.block) \subseteq FlashCells(step.mem)
      [] step.do \in {"program", "read"} -> Points(step.block) \subseteq Cells(step.mem)
      [] OTHER -> TRUE

Size(step) == IF step.do = "eraseAll" THEN 1 ELSE step.block.length

\* The cells that n of its Size(step) units of work reach.
Reached(step, n) ==
    LET part == Points(Block(step.block.start, step.block.start + n))
    IN  CASE step.do = "erase"    -> Sectors(part) \cap FlashCells(step.mem)
          [] step.do = "eraseAll" -> IF n = 0 THEN {} ELSE FlashCells(step.mem)
          [] step.do = "program"  -> part
          [] OTHER -> {}

Does(step, n) ==
    content' = [content EXCEPT ![step.mem] =
        [a \in Addr |->
           IF a \notin Reached(step, n) THEN @[a]
           ELSE IF /\ step.do = "program"
                   /\ a \in FlashCells(step.mem)
                   /\ @[a] # "erased" THEN "spoilt"
           ELSE step.arg]]

-----------------------------------------------------------------------------
(* The host.                                                               *)

Stop(result) == todo' = << >> /\ exit' = result

\* Mutant of Learn: RAM and flash are swapped.
LearnSwapped(step) ==
    /\ todo' = Tail(todo)
    /\ memory' = IF step.arg = "FLASH_SIZE" THEN Flash ELSE memory
    /\ flash' = IF step.arg = "RAM_SIZE" THEN Ram ELSE flash
    /\ UNCHANGED exit

\* The last of the two answers a range takes; a size of 0 is a ValueError.
Learn(step) ==
    LET range == IF step.arg = "RAM_SIZE" THEN Ram ELSE Flash
    IN  IF step.arg \notin {"RAM_SIZE", "FLASH_SIZE"}
        THEN todo' = Tail(todo) /\ UNCHANGED <<memory, flash, exit>>
        ELSE IF MemoryBlock(range.start, 0, range.length) = None
        THEN Stop("error") /\ UNCHANGED <<memory, flash>>
        ELSE /\ todo' = Tail(todo)
             /\ memory' = IF step.arg = "RAM_SIZE" THEN range ELSE memory
             /\ flash' = IF step.arg = "FLASH_SIZE" THEN range ELSE flash
             /\ UNCHANGED exit

CallOk ==
    /\ exit = "running" /\ todo # << >>
    /\ LET step == Head(todo)
       IN  /\ step.do \notin HostSteps
           /\ Accepts(step)
           /\ Does(step, Size(step))
           /\ Learn(step)
    /\ UNCHANGED <<inv, said>>

\* A call that fails, perhaps after it did part of its work, or all of it.
CallFails(kind) ==
    /\ exit = "running" /\ todo # << >>
    /\ LET step == Head(todo)
       IN  /\ step.do \notin HostSteps
           /\ \E n \in 0 .. Size(step) : (n = 0 \/ Accepts(step)) /\ Does(step, n)
           /\ IF kind \in step.caught
              THEN todo' = SubSeq(todo, 2 + step.skip, Len(todo)) /\ UNCHANGED exit
              ELSE Stop("error")
    /\ UNCHANGED <<inv, memory, flash, said>>

Expand(name, a) ==
    CASE name = "info"   -> info(a)
      [] name = "write"  -> write(a, memory, flash)
      [] name = "read"   -> read(a, memory, flash)
      [] name = "fill"   -> fill(a, memory, flash)
      [] name = "erase"  -> erase(a)
      [] name = "unlock" -> unlock(a)

\* What a subcommand does next depends on its arguments and on what was learnt.
DecideStep ==
    /\ exit = "running" /\ todo # << >>
    /\ Head(todo).do = "decide"
    /\ todo' = Expand(Head(todo).arg, inv.args[Head(todo).arg]) \o Tail(todo)
    /\ UNCHANGED <<inv, host, content>>

SayStep ==
    /\ exit = "running" /\ todo # << >>
    /\ Head(todo).do = "say"
    /\ said' = said \cup {Head(todo).arg}
    /\ todo' = Tail(todo)
    /\ UNCHANGED <<inv, memory, flash, exit, content>>

RaiseStep ==
    /\ exit = "running" /\ todo # << >>
    /\ Head(todo).do = "raise"
    /\ Stop("error")
    /\ UNCHANGED <<inv, memory, flash, said, content>>

Close ==
    /\ exit = "running" /\ todo = << >>
    /\ exit' = "done"
    /\ UNCHANGED <<inv, todo, memory, flash, said, content>>

Init ==
    /\ inv \in Invocations
    /\ todo = main(inv.given) \o inv.origin
    /\ memory = None /\ flash = None
    /\ content = [mem \in {0, 1} |-> [a \in Addr |-> "old"]]
    /\ said = {} /\ exit = "running"

Next ==
    \/ CallOk \/ CallFails("refused") \/ CallFails("broken")
    \/ DecideStep \/ SayStep \/ RaiseStep \/ Close

Spec == Init /\ [][Next]_vars

-----------------------------------------------------------------------------
(* What is checked.                                                        *)

TypeOK ==
    /\ inv \in Invocations
    /\ todo \in Seq(Steps)
    /\ memory \in {None, Ram} /\ flash \in {None, Flash}
    /\ content \in [{0, 1} -> [Addr -> Contents]]
    /\ said \subseteq Subcommands
    /\ exit \in {"running", "done", "error"}

Arg(name) == inv.args[name]

\* The cells of the words that configure the external memory.
ExconfCells(a) == IF a.mem = 0 \/ ~a.exconf.given THEN {} ELSE
    Points(Block(a.exconf.start, a.exconf.start + 4 * a.exconf.words))

\* The command line leaves the erasing to the tool, and the configuration words go
\* to RAM, which is not erased.
AutoErase ==
    /\ \A name \in inv.given :
          ~Arg(name).noErase /\ ExconfCells(Arg(name)) \cap Points(Flash) = {}
    /\ inv.origin # << >> => \E i \in DOMAIN inv.origin : inv.origin[i].do = "erase"

\* write, fill and flash_image erase what they program in flash, whichever
\* ranges the device tells, wherever a call fails, in any combination.
NoOverprogram == AutoErase => \A mem \in {0, 1}, a \in Addr : content[mem][a] # "spoilt"

\* Cells a subcommand may change: its block, and the whole of its sectors.
Asked(name, mem) ==
    IF name \in {"write", "fill", "erase"} /\ mem = Arg(name).mem
    THEN Sectors(Points(Arg(name).block)) ELSE {}

\* Cells fill may erase beyond them: it erases eight times its block.
Excess(mem) ==
    IF "fill" \in inv.given /\ mem = 0 /\ ~Arg("fill").noErase
    THEN Sectors(Points(FillBlock(Arg("fill").block))) ELSE {}

Whole == "unlock" \in inv.given \/ ("erase" \in inv.given /\ Arg("erase").all)

\* Short of a mass erase, no run changes anything outside the sectors of the
\* blocks it was given and the place of the external memory's configuration words,
\* with one exception: what fill erases in excess of its block (FillStaysInside
\* says it should not).  It programs nothing there.
NothingElse ==
    inv.origin = << >> /\ ~Whole =>
        \A mem \in {0, 1}, a \in Addr :
            content[mem][a] # "old" =>
                \/ \E name \in inv.given : a \in Asked(name, mem)
                \/ mem = 0 /\ \E name \in inv.given : a \in ExconfCells(Arg(name))
                \/ content[mem][a] = "erased" /\ a \in Excess(mem)

\* read, which comes after write, does not put the words that configure the external
\* memory over what write wrote.
Apart ==
    "read" \in inv.given /\ Arg("write").mem = 0 =>
        ExconfCells(Arg("read")) \cap Points(Arg("write").block) = {}

Holds(name, what) == \A a \in Points(Arg(name).block) : content[Arg(name).mem][a] = what

\* A success that was printed is one: the device holds what was written, filled
\* or erased, unless another subcommand of the same run came after it.
ReportedIsDone ==
    AutoErase /\ inv.origin = << >> =>
        /\ "write" \in said /\ inv.given \cap {"fill", "erase", "unlock"} = {} /\ Apart
             => Holds("write", "data")
        /\ "fill" \in said /\ inv.given \cap {"erase", "unlock"} = {}
             => Holds("fill", "pattern")
        /\ "erase" \in said /\ "unlock" \notin inv.given /\ ~Arg("erase").all
             => Holds("erase", "erased")

\* fill's byte_count is the "Total length of padding, count of bytes".
FillStaysInside ==
    inv.given = {"fill"} =>
        \A a \in Addr : content[0][a] # "old" => a \in Sectors(Points(Arg("fill").block))

=============================================================================

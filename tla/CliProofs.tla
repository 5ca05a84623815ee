-------------------------------- MODULE CliProofs --------------------------------
(***************************************************************************)
(* Proofs about Cli, for every memory, every sector size and every command *)
(* line: a run changes nothing but the sectors of the blocks it was given  *)
(* and the place of the configuration words, what fill erases in excess of *)
(* its block excepted; it never programs flash that was not erased, and    *)
(* what it says it did is done.                                            *)
(*                                                                         *)
(* What a run may still do is in todo, so each invariant speaks of the     *)
(* steps that are left (Fits, Orderly, Announced) before it can speak of   *)
(* the memories.  A step "decide" is replaced by the steps of its          *)
(* subcommand, which have to fit whatever ranges the host knows by then.   *)
(***************************************************************************)
EXTENDS Cli, MemoryRangeProofs

-----------------------------------------------------------------------------
(* The invariant.                                                          *)

\* The cells the subcommands of the line may change.
May(mem) ==
    {a \in Addr :
        \/ \E name \in inv.given : a \in Asked(name, mem)
        \/ mem = 0 /\ \E name \in inv.given : a \in ExconfCells(Arg(name))}

\* The line neither runs a method nor erases everything.
Narrow == inv.origin = << >> /\ ~Whole

\* Neither the step nor a part of it reaches another cell, but what fill erases.
Stays(s) ==
    /\ s.do # "eraseAll"
    /\ s.do = "erase" => /\ s.arg = "erased"
                         /\ Sectors(Points(s.block)) \subseteq May(s.mem) \cup Excess(s.mem)
    /\ s.do = "program" => Points(s.block) \cap Addr \subseteq May(s.mem)

\* The steps a run with this command line may take.
Fits ==
    {s \in Steps :
        /\ s.do = "decide" => s.arg \in inv.given \ {"reset"}
        /\ Narrow => Stays(s)}

TypeInv ==
    /\ inv \in Invocations
    /\ todo \in Seq(Fits)
    /\ memory \in {None, Ram} /\ flash \in {None, Flash}
    /\ content \in [{0, 1} -> [Addr -> Contents]]
    /\ said \subseteq Subcommands
    /\ exit \in {"running", "done", "error"}

Kept ==
    Narrow => \A mem \in {0, 1}, a \in Addr :
        content[mem][a] # "old" =>
            a \in May(mem) \/ (content[mem][a] = "erased" /\ a \in Excess(mem))

CliInv == TypeInv /\ Kept

-----------------------------------------------------------------------------
(* The steps the methods are made of.                                      *)

\* A half-open range of addresses is a block.
LEMMA BlockTypes ==
    /\ \A s, e \in Nat : s <= e => Block(s, e) \in Blocks
    /\ NoBlock \in Blocks
BY DEF Block, Blocks, NoBlock

\* A step with the block and the argument its kind goes with.
LEMMA StepType ==
    ASSUME NEW do \in HostSteps \cup Writes \cup {"get", "command", "read", "send", "fuse"},
           NEW mem \in {0, 1}, NEW block \in Blocks,
           NEW arg \in Contents \cup Subcommands \cup Tags,
           do \in Writes => arg \in Contents,
           do \in {"decide", "say"} => arg \in Subcommands
    PROVE  /\ Step(do, mem, block, arg) \in Steps
           /\ Step(do, mem, block, arg).do = do /\ Step(do, mem, block, arg).mem = mem
           /\ Step(do, mem, block, arg).block = block /\ Step(do, mem, block, arg).arg = arg
BY DEF Step, Steps

\* An except clause around a step does not change what it does.
LEMMA CatchingType ==
    ASSUME NEW s \in Steps, NEW kinds \in SUBSET {"refused", "broken"}, NEW n \in Nat
    PROVE  Catching(s, kinds, n) \in Steps /\ Catching(s, kinds, n).do = s.do
BY DEF Catching, Steps

\* A step that is neither a decision nor changes the device fits every line.
LEMMA QuietFits ==
    ASSUME NEW s \in Steps, s.do # "decide", s.do \notin Writes
    PROVE  s \in Fits
BY DEF Fits, Stays, Writes

\* The calls that change nothing, with or without an except clause.
LEMMA QuietSteps ==
    /\ \A tag \in Tags : {Get(tag), Command(tag), Raise(tag)} \subseteq Fits
    /\ \A tag \in Tags, kinds \in SUBSET {"refused", "broken"}, n \in Nat :
          {Catching(Get(tag), kinds, n), Catching(Command(tag), kinds, n)} \subseteq Fits
    /\ \A mem \in {0, 1}, block \in Blocks : ReadBack(mem, block) \in Fits
    /\ \A name \in Subcommands : Say(name) \in Fits
    /\ \A name \in inv.given \cap Subcommands : name # "reset" => Decide(name) \in Fits
<1>0. NoBlock \in Blocks
  BY BlockTypes
<1>1. ASSUME NEW tag \in Tags
      PROVE  /\ Get(tag) \in Steps /\ Get(tag).do = "get"
             /\ Command(tag) \in Steps /\ Command(tag).do = "command"
             /\ Raise(tag) \in Steps /\ Raise(tag).do = "raise"
  BY <1>0, StepType DEF Get, Command, Raise, HostSteps, Writes
<1>2. \A tag \in Tags : {Get(tag), Command(tag), Raise(tag)} \subseteq Fits
  BY <1>1, QuietFits DEF Writes
<1>3. ASSUME NEW tag \in Tags, NEW kinds \in SUBSET {"refused", "broken"}, NEW n \in Nat
      PROVE  {Catching(Get(tag), kinds, n), Catching(Command(tag), kinds, n)} \subseteq Fits
  <2>1. /\ Catching(Get(tag), kinds, n) \in Steps
        /\ Catching(Get(tag), kinds, n).do = "get"
        /\ Catching(Command(tag), kinds, n) \in Steps
        /\ Catching(Command(tag), kinds, n).do = "command"
    BY <1>1, CatchingType
  <2>. QED
    BY <2>1, QuietFits DEF Writes
<1>4. ASSUME NEW mem \in {0, 1}, NEW block \in Blocks
      PROVE  ReadBack(mem, block) \in Fits
  <2>1. ReadBack(mem, block) \in Steps /\ ReadBack(mem, block).do = "read"
    BY StepType DEF ReadBack, HostSteps, Writes, Tags
  <2>. QED
    BY <2>1, QuietFits DEF Writes
<1>5. ASSUME NEW name \in Subcommands
      PROVE  /\ Say(name) \in Steps /\ Say(name).do = "say"
             /\ Decide(name) \in Steps /\ Decide(name).do = "decide"
             /\ Decide(name).arg = name
  BY <1>0, StepType DEF Say, Decide, HostSteps, Writes
<1>6. \A name \in Subcommands : Say(name) \in Fits
  BY <1>5, QuietFits DEF Writes
<1>7. ASSUME NEW name \in inv.given \cap Subcommands, name # "reset"
      PROVE  Decide(name) \in Fits
  <2>1. /\ Decide(name) \in Steps /\ Decide(name).do = "decide"
        /\ Decide(name).arg \in inv.given \ {"reset"}
    BY <1>5, <1>7
  <2>2. Stays(Decide(name))
    BY <2>1 DEF Stays
  <2>. QED
    BY <2>1, <2>2 DEF Fits
<1>. QED
  BY <1>2, <1>3, <1>4, <1>6, <1>7

\* Sequences of one to four such steps.
LEMMA Few ==
    ASSUME NEW S
    PROVE  /\ << >> \in Seq(S)
           /\ \A a \in S : << a >> \in Seq(S)
           /\ \A a, b \in S : << a, b >> \in Seq(S)
           /\ \A a, b, c, d \in S : << a, b, c, d >> \in Seq(S)
           /\ \A s, t \in Seq(S) : s \o t \in Seq(S)
BY ConcatProperties

\* The ranges of the device, its properties, the end of a run: no step of them
\* changes anything.
LEMMA QuietMethods ==
    /\ get_memory_range \in Seq(Fits)
    /\ get_mcu_info \in Seq(Fits)
    /\ get_exmemory_info \in Seq(Fits)
    /\ configure_memory \in Seq(Fits)
    /\ flash_security_disable \in Seq(Fits)
    /\ reset \in Seq(Fits)
    /\ \A why \in Tags : << Raise(why) >> \in Seq(Fits) /\ << Get(why) >> \in Seq(Fits)
    /\ \A block \in Blocks, mem \in {0, 1} : read_memory(block, mem) \in Seq(Fits)
<1>1. get_memory_range \in Seq(Fits)
  <2>1. {"RAM_START", "RAM_SIZE", "FLASH_START", "FLASH_SIZE"} \subseteq Tags
    BY DEF Tags
  <2>2. /\ Catching(Get("RAM_START"), {"refused"}, 3) \in Fits
        /\ Catching(Get("RAM_SIZE"), {"refused"}, 2) \in Fits
        /\ Catching(Get("FLASH_START"), {"refused"}, 1) \in Fits
        /\ Catching(Get("FLASH_SIZE"), {"refused"}, 0) \in Fits
    BY <2>1, QuietSteps
  <2>. QED
    BY <2>2, Few DEF get_memory_range
<1>2. get_mcu_info \in Seq(Fits)
  <2>1. Catching(Get("INFO"), {"refused"}, 0) \in Fits
    BY QuietSteps DEF Tags
  <2>2. InfoTags \in Nat
    BY MemoryAssumption
  <2>. QED
    BY <2>1, <2>2, IsASeq DEF get_mcu_info
<1>3. /\ get_exmemory_info \in Seq(Fits) /\ configure_memory \in Seq(Fits)
      /\ flash_security_disable \in Seq(Fits) /\ reset \in Seq(Fits)
  <2>1. {"EXTERNAL_MEMORY_ATTRIBUTES", "CONFIGURE_MEMORY", "FLASH_SECURITY_DISABLE",
         "RESET"} \subseteq Tags
    BY DEF Tags
  <2>2. /\ Get("EXTERNAL_MEMORY_ATTRIBUTES") \in Fits
        /\ Command("CONFIGURE_MEMORY") \in Fits /\ Command("FLASH_SECURITY_DISABLE") \in Fits
        /\ Catching(Command("RESET"), {"refused", "broken"}, 0) \in Fits
    BY <2>1, QuietSteps
  <2>. QED
    BY <2>2, Few DEF get_exmemory_info, configure_memory, flash_security_disable, reset
<1>4. \A why \in Tags : << Raise(why) >> \in Seq(Fits) /\ << Get(why) >> \in Seq(Fits)
  BY QuietSteps, Few
<1>5. \A block \in Blocks, mem \in {0, 1} : read_memory(block, mem) \in Seq(Fits)
  <2>1. "argument" \in Tags
    BY DEF Tags
  <2>. QED
    BY <1>4, <2>1, QuietSteps, Few DEF read_memory
<1>. QED
  BY <1>1, <1>2, <1>3, <1>4, <1>5
-----------------------------------------------------------------------------
(* The steps that change the device.                                       *)

\* A cell is in its own sector.
LEMMA OwnSector ==
    ASSUME NEW cells
    PROVE  /\ cells \cap Addr \subseteq Sectors(cells)
           /\ Sectors(cells) \subseteq Addr
BY DEF Sectors

\* More cells, more sectors.
LEMMA MoreSectors ==
    ASSUME NEW cells, NEW more, cells \subseteq more
    PROVE  Sectors(cells) \subseteq Sectors(more)
BY DEF Sectors

\* What each step that writes needs to fit the line.
LEMMA WriteSteps ==
    ASSUME NEW mem \in {0, 1}, NEW block \in Blocks
    PROVE  /\ (Narrow => Sectors(Points(block)) \subseteq May(mem)) =>
                 Erase(mem, block) \in Fits /\ Program(mem, block) \in Fits
           /\ (Narrow => Sectors(Points(block)) \subseteq May(mem) \cup Excess(mem)) =>
                 Erase(mem, block) \in Fits
           /\ (Narrow => Points(block) \cap Addr \subseteq May(0)) =>
                 Fill(block) \in Fits /\ Config(block) \in Fits
           /\ ~Narrow => EraseAll(mem) \in Fits
<1>1. /\ Erase(mem, block) \in Steps /\ Erase(mem, block).do = "erase"
      /\ Erase(mem, block).mem = mem /\ Erase(mem, block).block = block
      /\ Erase(mem, block).arg = "erased"
      /\ Program(mem, block) \in Steps /\ Program(mem, block).do = "program"
      /\ Program(mem, block).mem = mem /\ Program(mem, block).block = block
  BY StepType DEF Erase, Program, HostSteps, Writes, Contents
<1>2. /\ Fill(block) \in Steps /\ Fill(block).do = "program"
      /\ Fill(block).mem = 0 /\ Fill(block).block = block
      /\ Config(block) \in Steps /\ Config(block).do = "program"
      /\ Config(block).mem = 0 /\ Config(block).block = block
  BY StepType DEF Fill, Config, HostSteps, Writes, Contents
<1>3. EraseAll(mem) \in Steps /\ EraseAll(mem).do = "eraseAll"
  BY StepType, BlockTypes DEF EraseAll, HostSteps, Writes, Contents
<1>4. Points(block) \cap Addr \subseteq Sectors(Points(block))
  BY OwnSector
<1>5. ASSUME Narrow => Sectors(Points(block)) \subseteq May(mem)
      PROVE  Erase(mem, block) \in Fits /\ Program(mem, block) \in Fits
  <2>1. Narrow => Stays(Erase(mem, block)) /\ Stays(Program(mem, block))
    BY <1>1, <1>4, <1>5 DEF Stays
  <2>. QED
    BY <1>1, <2>1 DEF Fits
<1>6. ASSUME Narrow => Points(block) \cap Addr \subseteq May(0)
      PROVE  Fill(block) \in Fits /\ Config(block) \in Fits
  <2>1. Narrow => Stays(Fill(block)) /\ Stays(Config(block))
    BY <1>2, <1>6 DEF Stays
  <2>. QED
    BY <1>2, <2>1 DEF Fits
<1>7. ~Narrow => EraseAll(mem) \in Fits
  BY <1>3 DEF Fits
<1>8. ASSUME Narrow => Sectors(Points(block)) \subseteq May(mem) \cup Excess(mem)
      PROVE  Erase(mem, block) \in Fits
  <2>1. Narrow => Stays(Erase(mem, block))
    BY <1>1, <1>8 DEF Stays
  <2>. QED
    BY <1>1, <2>1 DEF Fits
<1>. QED
  BY <1>5, <1>6, <1>7, <1>8

\* The arguments of a subcommand have their types.
LEMMA ArgTypes ==
    ASSUME TypeInv, NEW name \in Subcommands
    PROVE  /\ Arg(name) \in Arguments /\ inv.given \subseteq Subcommands
           /\ Arg(name).block \in Blocks /\ Arg(name).mem \in {0, 1}
           /\ Arg(name).exconf.start \in Nat /\ Arg(name).exconf.words \in Nat
           /\ (name = "fill" => Arg(name).mem = 0)
<1>1. inv.args \in [Subcommands -> Arguments] /\ inv.given \subseteq Subcommands
  BY InvocationsAssumption DEF TypeInv
<1>2. Arg(name) \in Arguments
  BY <1>1 DEF Arg
<1>3. name = "fill" => Arg(name).mem = 0
  BY InvocationsAssumption DEF TypeInv, Arg
<1>. QED
  BY <1>1, <1>2, <1>3 DEF Arguments

-----------------------------------------------------------------------------
(* The subcommands.                                                        *)

\* A subcommand may change the sectors of its block.
LEMMA BlockMay ==
    ASSUME TypeInv, NEW name \in inv.given, name \in {"write", "fill", "erase"}
    PROVE  Sectors(Points(Arg(name).block)) \subseteq May(Arg(name).mem)
<1>1. Asked(name, Arg(name).mem) = Sectors(Points(Arg(name).block))
  BY DEF Asked
<1>. QED
  BY <1>1, OwnSector DEF May

\* fill programs the first eighth of the range it checks and erases, if it erases.
LEMMA FillMay ==
    ASSUME TypeInv, "fill" \in inv.given
    PROVE  /\ FillBlock(Arg("fill").block) \in Blocks
           /\ ~Arg("fill").noErase =>
                 Sectors(Points(FillBlock(Arg("fill").block))) = Excess(0)
           /\ Points(Arg("fill").block) \cap Addr \subseteq May(0)
<1>1. PICK b \in Blocks : b = Arg("fill").block
  BY ArgTypes DEF TypeInv, Subcommands
<1>2. /\ b.start \in Nat /\ b.end \in Nat /\ b.length \in Nat
      /\ b.end = b.start + b.length
  BY DEF Blocks
<1>3. FillBlock(b) \in Blocks
  BY <1>2 DEF FillBlock, Block, Blocks
<1>4. ~Arg("fill").noErase => Sectors(Points(FillBlock(b))) = Excess(0)
  BY <1>1 DEF Excess
<1>5. Arg("fill").mem = 0
  BY ArgTypes DEF Subcommands
<1>6. Points(b) \cap Addr \subseteq May(0)
  BY <1>1, <1>5, BlockMay, OwnSector
<1>. QED
  BY <1>1, <1>3, <1>4, <1>6

\* The words of the configuration are next to each other.
LEMMA SetupFits ==
    ASSUME TypeInv, NEW name \in inv.given
    PROVE  Setup(Arg(name)) \in Seq(Fits)
<1>1. name \in Subcommands
  BY ArgTypes, InvocationsAssumption DEF TypeInv
<1>2. PICK start \in Nat, words \in Nat :
         Arg(name).exconf.start = start /\ Arg(name).exconf.words = words
  BY <1>1, ArgTypes
<1>3. CASE Arg(name).mem # 0 /\ Arg(name).exconf.given
  <2>. DEFINE word(i) == Block(start + 4 * (i - 1), start + 4 * i)
  <2>1. ExconfCells(Arg(name)) = Points(Block(start, start + 4 * words))
    BY <1>2, <1>3 DEF ExconfCells
  <2>2. Points(Block(start, start + 4 * words)) \cap Addr \subseteq May(0)
    BY <2>1 DEF May
  <2>3. ASSUME NEW i \in 1 .. words
        PROVE  Config(word(i)) \in Fits
    <3>1. word(i) \in Blocks
      BY DEF Block, Blocks
    <3>2. Points(word(i)) \subseteq Points(Block(start, start + 4 * words))
      BY DEF Points, Block
    <3>3. Points(word(i)) \cap Addr \subseteq May(0)
      BY <2>2, <3>2
    <3>. HIDE DEF word
    <3>. QED
      BY <3>1, <3>3, WriteSteps
  <2>4. [i \in 1 .. words |-> Config(word(i))] \in Seq(Fits)
    <3>. HIDE DEF word
    <3>. QED
      BY <2>3, IsASeq
  <2>5. setup_external_memory(Arg(name).exconf) \in Seq(Fits)
    BY <1>2, <2>4, QuietMethods, Few DEF setup_external_memory
  <2>. QED
    BY <1>2, <1>3, <2>5 DEF Setup
<1>4. CASE ~(Arg(name).mem # 0 /\ Arg(name).exconf.given)
  BY <1>2, <1>4, Few DEF Setup
<1>. QED
  BY <1>3, <1>4

\* info and read change nothing but by the configuration of an external memory.
LEMMA ReadingFits ==
    ASSUME TypeInv, NEW range, NEW other
    PROVE  /\ "info" \in inv.given => info(Arg("info")) \in Seq(Fits)
           /\ "read" \in inv.given => read(Arg("read"), range, other) \in Seq(Fits)
<1>1. "info" \in inv.given => info(Arg("info")) \in Seq(Fits)
  BY SetupFits, QuietMethods, Few DEF info
<1>2. ASSUME "read" \in inv.given
      PROVE  read(Arg("read"), range, other) \in Seq(Fits)
  <2>1. Arg("read").block \in Blocks /\ Arg("read").mem \in {0, 1}
    BY ArgTypes DEF Subcommands
  <2>2. Setup(Arg("read")) \in Seq(Fits)
    BY <1>2, SetupFits
  <2>3. /\ << Raise("argument") >> \in Seq(Fits) /\ << Raise("range") >> \in Seq(Fits)
        /\ read_memory(Arg("read").block, Arg("read").mem) \in Seq(Fits)
        /\ read_memory(Arg("read").block, 0) \in Seq(Fits)
    BY <2>1, QuietMethods DEF Tags
  <2>4. Setup(Arg("read")) \o read_memory(Arg("read").block, Arg("read").mem) \in Seq(Fits)
    BY <2>2, <2>3, Few
  <2>. QED
    BY <2>3, <2>4 DEF read
<1>. QED
  BY <1>1, <1>2

\* write and write_memory stay in the sectors of the block.
LEMMA WriteFits ==
    ASSUME TypeInv, "write" \in inv.given, NEW range, NEW other
    PROVE  write(Arg("write"), range, other) \in Seq(Fits)
<1>. DEFINE a == Arg("write")
<1>1. a.block \in Blocks /\ a.mem \in {0, 1}
  BY ArgTypes DEF Subcommands
<1>2. Erase(a.mem, a.block) \in Fits /\ Program(a.mem, a.block) \in Fits
  BY <1>1, BlockMay, WriteSteps
<1>3. /\ << Raise("argument") >> \in Seq(Fits) /\ << Raise("range") >> \in Seq(Fits)
      /\ << Get("RAM_START") >> \in Seq(Fits) /\ Get("MAX_PACKET_SIZE") \in Fits
  BY QuietMethods, QuietSteps DEF Tags
<1>4. Setup(a) \in Seq(Fits) /\ << >> \in Seq(Fits)
  BY SetupFits, Few
<1>. HIDE DEF a
<1>5. flash_erase_region(a.block, a.mem) \in Seq(Fits)
  BY <1>2, Few DEF flash_erase_region
<1>6. write_memory(a.block, a.mem) \in Seq(Fits)
  BY <1>2, <1>3, Few DEF write_memory
<1>7. PICK first \in Seq(Fits) :
         first = IF a.noErase THEN << >> ELSE flash_erase_region(a.block, a.mem)
  BY <1>4, <1>5
<1>8. /\ Setup(a) \o first \o write_memory(a.block, a.mem) \in Seq(Fits)
      /\ first \o << Get("RAM_START") >> \o write_memory(a.block, a.mem) \in Seq(Fits)
      /\ << Get("RAM_START") >> \o write_memory(a.block, a.mem) \in Seq(Fits)
  BY <1>3, <1>4, <1>6, <1>7, Few
<1>9. CASE a.mem # 0
  <2>1. write(a, range, other) = IF a.block.length = 0 THEN << Raise("argument") >>
                                 ELSE Setup(a) \o first \o write_memory(a.block, a.mem)
    BY <1>7, <1>9, Zenon DEF write
  <2>. QED
    BY <1>3, <1>8, <2>1 DEF a
<1>10. CASE a.mem = 0
  <2>1. write(a, range, other) =
          IF a.block.length = 0 THEN << Raise("argument") >>
          ELSE IF IsIn(a.block, other)
          THEN first \o << Get("RAM_START") >> \o write_memory(a.block, a.mem)
          ELSE IF IsIn(a.block, range)
          THEN << Get("RAM_START") >> \o write_memory(a.block, a.mem)
          ELSE << Raise("range") >>
    BY <1>7, <1>10, Zenon DEF write
  <2>. QED
    BY <1>3, <1>8, <2>1 DEF a
<1>. QED
  BY <1>9, <1>10 DEF a
\* fill programs its block, and erases the sectors of the range it checks.
LEMMA FillFits ==
    ASSUME TypeInv, "fill" \in inv.given, NEW range, NEW other
    PROVE  fill(Arg("fill"), range, other) \in Seq(Fits)
<1>. DEFINE a == Arg("fill")
<1>1. a.block \in Blocks
  BY ArgTypes DEF Subcommands
<1>2. (~a.noErase => Erase(0, FillBlock(a.block)) \in Fits) /\ Fill(a.block) \in Fits
  BY <1>1, FillMay, WriteSteps
<1>3. << Raise("argument") >> \in Seq(Fits) /\ << Raise("range") >> \in Seq(Fits)
  BY QuietMethods DEF Tags
<1>. HIDE DEF a
<1>4. /\ ~a.noErase => flash_erase_region(FillBlock(a.block), 0) \in Seq(Fits)
      /\ << >> \in Seq(Fits)
      /\ fill_memory(a.block, a.unitMatches) \in Seq(Fits)
  BY <1>2, <1>3, Few DEF flash_erase_region, fill_memory
<1>5. PICK first \in Seq(Fits) :
         first = IF a.noErase THEN << >> ELSE flash_erase_region(FillBlock(a.block), 0)
  BY <1>4
<1>6. first \o fill_memory(a.block, a.unitMatches) \in Seq(Fits)
  BY <1>4, <1>5, Few
<1>7. fill(a, range, other) =
        IF a.block.length = 0 THEN << Raise("argument") >>
        ELSE IF IsIn(FillBlock(a.block), other)
        THEN first \o fill_memory(a.block, a.unitMatches)
        ELSE IF IsIn(FillBlock(a.block), range)
        THEN fill_memory(a.block, a.unitMatches)
        ELSE << Raise("range") >>
  BY <1>5, Zenon DEF fill
<1>. QED
  BY <1>3, <1>4, <1>6, <1>7 DEF a

\* erase stays in the sectors of its block, or is a mass erase.
LEMMA EraseFits ==
    ASSUME TypeInv, "erase" \in inv.given
    PROVE  erase(Arg("erase")) \in Seq(Fits)
<1>. DEFINE a == Arg("erase")
<1>1. a.block \in Blocks /\ a.mem \in {0, 1}
  BY ArgTypes DEF Subcommands
<1>2. Erase(a.mem, a.block) \in Fits
  BY <1>1, BlockMay, WriteSteps
<1>3. a.all => EraseAll(a.mem) \in Fits /\ EraseAll(0) \in Fits
  <2>1. a.all => ~Narrow
    BY DEF Narrow, Whole
  <2>. QED
    BY <1>1, <2>1, WriteSteps
<1>4. /\ << Raise("argument") >> \in Seq(Fits) /\ << Raise("unsupported") >> \in Seq(Fits)
      /\ << Get("AVAILABLE_COMMANDS") >> \in Seq(Fits)
  BY QuietMethods DEF Tags
<1>5. Setup(a) \in Seq(Fits)
  BY SetupFits
<1>. HIDE DEF a
<1>6. CASE ~a.all
  <2>1. flash_erase_region(a.block, a.mem) \in Seq(Fits)
    BY <1>2, Few DEF flash_erase_region
  <2>2. Setup(a) \o flash_erase_region(a.block, a.mem) \in Seq(Fits)
    BY <1>5, <2>1, Few
  <2>3. erase(a) = IF ~a.address THEN << Raise("argument") >>
                   ELSE Setup(a) \o flash_erase_region(a.block, a.mem)
    BY <1>6, Zenon DEF erase
  <2>. QED
    BY <1>4, <2>2, <2>3 DEF a
<1>7. CASE a.all
  <2>1. flash_erase_all_unsecure \in Seq(Fits) /\ flash_erase_all(a.mem) \in Seq(Fits)
    BY <1>3, <1>7, Few DEF flash_erase_all_unsecure, flash_erase_all
  <2>2. PICK mass \in Seq(Fits) :
          mass = IF "FLASH_ERASE_ALL_UNSECURE" \in Available /\ a.mem = 0
                 THEN flash_erase_all_unsecure
                 ELSE IF "FLASH_ERASE_ALL" \in Available THEN flash_erase_all(a.mem)
                 ELSE << Raise("unsupported") >>
    BY <1>4, <2>1
  <2>3. erase(a) = Setup(a) \o (<< Get("AVAILABLE_COMMANDS") >> \o mass)
    BY <1>7, <2>2, Zenon DEF erase
  <2>. QED
    BY <1>4, <1>5, <2>2, <2>3, Few DEF a
<1>. QED
  BY <1>6, <1>7

\* unlock erases everything.
LEMMA UnlockFits ==
    ASSUME TypeInv, "unlock" \in inv.given
    PROVE  unlock(Arg("unlock")) \in Seq(Fits)
<1>1. EraseAll(0) \in Fits
  BY WriteSteps, BlockTypes DEF Narrow, Whole
<1>2. flash_erase_all_unsecure \in Seq(Fits)
  BY <1>1, Few DEF flash_erase_all_unsecure
<1>. QED
  BY <1>2, QuietMethods DEF unlock

\* A decision is replaced by steps that fit, whatever the host knows.
LEMMA ExpandFits ==
    ASSUME TypeInv, NEW name \in inv.given \ {"reset"}
    PROVE  Expand(name, Arg(name)) \in Seq(Fits)
<1>1. name \in Subcommands \ {"reset"}
  BY ArgTypes, InvocationsAssumption DEF TypeInv
<1>2. CASE name = "info"
  <2>1. Expand(name, Arg(name)) = info(Arg("info"))
    BY <1>2, Zenon DEF Expand
  <2>. QED
    BY <1>2, <2>1, ReadingFits
<1>3. CASE name = "write"
  <2>1. Expand(name, Arg(name)) = write(Arg("write"), memory, flash)
    BY <1>3, Zenon DEF Expand
  <2>. QED
    BY <1>3, <2>1, WriteFits
<1>4. CASE name = "read"
  <2>1. Expand(name, Arg(name)) = read(Arg("read"), memory, flash)
    BY <1>4, Zenon DEF Expand
  <2>. QED
    BY <1>4, <2>1, ReadingFits
<1>5. CASE name = "fill"
  <2>1. Expand(name, Arg(name)) = fill(Arg("fill"), memory, flash)
    BY <1>5, Zenon DEF Expand
  <2>. QED
    BY <1>5, <2>1, FillFits
<1>6. CASE name = "erase"
  <2>1. Expand(name, Arg(name)) = erase(Arg("erase"))
    BY <1>6, Zenon DEF Expand
  <2>. QED
    BY <1>6, <2>1, EraseFits
<1>7. CASE name = "unlock"
  <2>1. Expand(name, Arg(name)) = unlock(Arg("unlock"))
    BY <1>7, Zenon DEF Expand
  <2>. QED
    BY <1>7, <2>1, UnlockFits
<1>. QED
  BY <1>1, <1>2, <1>3, <1>4, <1>5, <1>6, <1>7 DEF Subcommands
-----------------------------------------------------------------------------
(* The invariant holds.                                                    *)

\* What fits depends on the command line alone.
LEMMA FitsConstant ==
    ASSUME inv' = inv
    PROVE  /\ Fits' = Fits
           /\ Narrow' = Narrow
           /\ \A mem : May(mem)' = May(mem) /\ Excess(mem)' = Excess(mem)
<1>1. Narrow' = Narrow
  BY DEF Narrow, Whole, Arg
<1>2. \A name, mem : Asked(name, mem)' = Asked(name, mem)
  BY Zenon DEF Asked, Arg
<1>3. \A name : ExconfCells(Arg(name))' = ExconfCells(Arg(name))
  BY Zenon DEF ExconfCells, Arg
<1>4. \A mem : May(mem)' = May(mem) /\ Excess(mem)' = Excess(mem)
  BY <1>2, <1>3 DEF May, Excess, Arg
<1>5. \A s : Stays(s)' = Stays(s)
  BY <1>4 DEF Stays
<1>. QED
  BY <1>1, <1>4, <1>5 DEF Fits
\* What main does for one subcommand it was given.
LEMMA SubcommandFits ==
    ASSUME NEW name \in inv.given \cap Subcommands
    PROVE  Subcommand(name) \in Seq(Fits)
<1>1. Say(name) \in Fits /\ (name # "reset" => Decide(name) \in Fits)
  BY QuietSteps
<1>2. CASE name \in {"write", "fill"}
  <2>1. Subcommand(name) = get_memory_range \o << Decide(name), Say(name) >>
    BY <1>2, Zenon DEF Subcommand
  <2>. QED
    BY <1>1, <1>2, <2>1, QuietMethods, Few
<1>3. CASE name = "read"
  <2>1. Subcommand(name) = get_memory_range \o << Decide(name) >>
    BY <1>3, Zenon DEF Subcommand
  <2>. QED
    BY <1>1, <1>3, <2>1, QuietMethods, Few
<1>4. CASE name = "info"
  <2>1. Subcommand(name) = << Decide(name) >>
    BY <1>4, Zenon DEF Subcommand
  <2>. QED
    BY <1>1, <1>4, <2>1, Few
<1>5. CASE name = "reset"
  <2>1. Subcommand(name) = reset \o << Say(name) >>
    BY <1>5, Zenon DEF Subcommand
  <2>. QED
    BY <1>1, <2>1, QuietMethods, Few
<1>6. CASE name \in {"erase", "unlock"}
  <2>1. Subcommand(name) = << Decide(name), Say(name) >>
    <3>1. CASE name = "erase"
      BY <3>1, Zenon DEF Subcommand
    <3>2. CASE name = "unlock"
      BY <3>2, Zenon DEF Subcommand
    <3>. QED
      BY <1>6, <3>1, <3>2
  <2>. QED
    BY <1>1, <1>6, <2>1, Few
<1>. QED
  BY <1>2, <1>3, <1>4, <1>5, <1>6 DEF Subcommands

\* main goes through the subcommands it was given.
LEMMA MainFits == main(inv.given) \in Seq(Fits)
<1>. DEFINE If(name) == IF name \in inv.given THEN Subcommand(name) ELSE << >>
<1>1. \A name \in Subcommands : If(name) \in Seq(Fits)
  BY SubcommandFits, Few
<1>2. main(inv.given) = If("info") \o If("write") \o If("read") \o If("fill")
                        \o If("erase") \o If("unlock") \o If("reset")
  BY DEF main
<1>. HIDE DEF If
<1>3. /\ If("info") \in Seq(Fits) /\ If("write") \in Seq(Fits) /\ If("read") \in Seq(Fits)
      /\ If("fill") \in Seq(Fits) /\ If("erase") \in Seq(Fits)
      /\ If("unlock") \in Seq(Fits) /\ If("reset") \in Seq(Fits)
  BY <1>1 DEF Subcommands
<1>. QED
  BY <1>2, <1>3, Few

\* A run begins with steps that fit, and with a device nothing was done to.
LEMMA InitInv == Init => CliInv
<1>. SUFFICES ASSUME Init
              PROVE  CliInv
  OBVIOUS
<1>1. inv.origin \in Seq({s \in Steps : s.do \notin {"decide", "say"}})
  BY InvocationsAssumption DEF Init
<1>2. inv.origin \in Seq(Fits)
  <2>1. CASE inv.origin = << >>
    BY <2>1, Few
  <2>2. CASE inv.origin # << >>
    <3>1. {s \in Steps : s.do \notin {"decide", "say"}} \subseteq Fits
      BY <2>2 DEF Fits, Narrow
    <3>. QED
      BY <1>1, <3>1, SeqMonotonic
  <2>. QED
    BY <2>1, <2>2
<1>3. todo \in Seq(Fits)
  BY <1>2, MainFits, Few DEF Init
<1>4. content \in [{0, 1} -> [Addr -> Contents]]
  BY DEF Init, Contents
<1>5. Kept
  BY DEF Init, Kept
<1>. QED
  BY <1>3, <1>4, <1>5 DEF Init, CliInv, TypeInv

\* The cells a step reaches, by its kind.
LEMMA ReachedCells ==
    ASSUME NEW step, NEW n
    PROVE  /\ step.do = "erase" => Reached(step, n) \subseteq
                 Sectors(Points(Block(step.block.start, step.block.start + n)))
           /\ step.do = "program" => Reached(step, n) =
                 Points(Block(step.block.start, step.block.start + n))
           /\ step.do \notin Writes => Reached(step, n) = {}
<1>1. ASSUME step.do = "erase"
      PROVE  Reached(step, n) \subseteq
                 Sectors(Points(Block(step.block.start, step.block.start + n)))
  <2>1. Reached(step, n) =
          Sectors(Points(Block(step.block.start, step.block.start + n)))
            \cap FlashCells(step.mem)
    BY <1>1, Zenon DEF Reached
  <2>. QED
    BY <2>1
<1>2. ASSUME step.do = "program"
      PROVE  Reached(step, n) = Points(Block(step.block.start, step.block.start + n))
  BY <1>2, Zenon DEF Reached
<1>3. ASSUME step.do \notin Writes
      PROVE  Reached(step, n) = {}
  <2>1. step.do # "erase" /\ step.do # "eraseAll" /\ step.do # "program"
    BY <1>3 DEF Writes
  <2>. QED
    BY <2>1, Zenon DEF Reached
<1>. QED
  BY <1>1, <1>2, <1>3

\* No part of a step that fits reaches a cell the line may not change, but for
\* the excess of fill, which is erased.
LEMMA ReachedMay ==
    ASSUME NEW step \in Fits, Narrow, NEW n \in 0 .. Size(step)
    PROVE  \/ Reached(step, n) \cap Addr \subseteq May(step.mem)
           \/ /\ step.do = "erase" /\ step.arg = "erased"
              /\ Reached(step, n) \cap Addr \subseteq May(step.mem) \cup Excess(step.mem)
<1>1. Stays(step) /\ step \in Steps
  BY DEF Fits
<1>2. step.do # "eraseAll" /\ step.block \in Blocks
  BY <1>1 DEF Stays, Steps
<1>. DEFINE part == Points(Block(step.block.start, step.block.start + n))
<1>3. part \subseteq Points(step.block)
  <2>1. PICK b \in Blocks : b = step.block
    BY <1>2
  <2>2. n \in 0 .. b.length /\ b.end = b.start + b.length
        /\ b.start \in Nat /\ b.length \in Nat
    BY <1>2, <2>1 DEF Size, Blocks
  <2>3. Points(Block(b.start, b.start + n)) \subseteq Points(b)
    BY <2>2 DEF Points, Block
  <2>. QED
    BY <2>1, <2>3
<1>. HIDE DEF part
<1>4. CASE step.do = "erase"
  <2>1. Reached(step, n) \subseteq Sectors(part)
    BY <1>4, ReachedCells DEF part
  <2>. QED
    BY <1>1, <1>3, <1>4, <2>1, MoreSectors DEF Stays
<1>5. CASE step.do = "program"
  <2>1. Reached(step, n) = part
    BY <1>5, ReachedCells DEF part
  <2>. QED
    BY <1>1, <1>3, <1>5, <2>1 DEF Stays
<1>6. CASE step.do \notin Writes
  BY <1>6, ReachedCells
<1>. QED
  BY <1>2, <1>4, <1>5, <1>6 DEF Writes

\* Doing a step or a part of it keeps the memories to what the line may change.
LEMMA DoesKept ==
    ASSUME TypeInv, Kept, NEW step \in Fits, NEW n \in 0 .. Size(step), Does(step, n),
           inv' = inv
    PROVE  content' \in [{0, 1} -> [Addr -> Contents]] /\ Kept'
<1>1. step.mem \in {0, 1} /\ (step.do \in Writes => step.arg \in Contents)
  BY DEF Fits, Steps
<1>2. Reached(step, n) # {} => step.arg \in Contents
  BY <1>1, ReachedCells
<1>3. PICK R : R = Reached(step, n)
  OBVIOUS
<1>4. PICK cells \in [Addr -> Contents] :
        /\ content' = [content EXCEPT ![step.mem] = cells]
        /\ \A a \in Addr : a \notin R => cells[a] = content[step.mem][a]
        /\ step.do = "erase" => \A a \in Addr : a \in R => cells[a] = step.arg
  <2>. DEFINE cells == [a \in Addr |->
                 IF a \notin R THEN content[step.mem][a]
                 ELSE IF /\ step.do = "program"
                         /\ a \in FlashCells(step.mem)
                         /\ content[step.mem][a] # "erased" THEN "spoilt"
                 ELSE step.arg]
  <2>1. cells \in [Addr -> Contents]
    BY <1>1, <1>2, <1>3 DEF TypeInv, Contents
  <2>2. content' = [content EXCEPT ![step.mem] = cells]
    BY <1>3 DEF Does
  <2>3. /\ \A a \in Addr : a \notin R => cells[a] = content[step.mem][a]
        /\ step.do = "erase" => \A a \in Addr : a \in R => cells[a] = step.arg
    OBVIOUS
  <2>. QED
    BY <2>1, <2>2, <2>3
<1>5. content' \in [{0, 1} -> [Addr -> Contents]]
  BY <1>1, <1>4 DEF TypeInv
<1>6. ASSUME Narrow, NEW mem \in {0, 1}, NEW a \in Addr, content'[mem][a] # "old"
      PROVE  a \in May(mem) \/ (content'[mem][a] = "erased" /\ a \in Excess(mem))
  <2>1. \/ R \cap Addr \subseteq May(step.mem)
        \/ /\ step.do = "erase" /\ step.arg = "erased"
           /\ R \cap Addr \subseteq May(step.mem) \cup Excess(step.mem)
    BY <1>3, <1>6, ReachedMay
  <2>2. content[mem][a] # "old" =>
          a \in May(mem) \/ (content[mem][a] = "erased" /\ a \in Excess(mem))
    BY <1>6 DEF Kept
  <2>3. /\ mem # step.mem \/ a \notin R => content'[mem][a] = content[mem][a]
        /\ mem = step.mem => content'[mem] = cells
    BY <1>1, <1>4 DEF TypeInv
  <2>4. CASE mem # step.mem \/ a \notin R
    BY <1>6, <2>2, <2>3, <2>4
  <2>5. CASE mem = step.mem /\ a \in R
    <3>1. step.do = "erase" => content'[mem][a] = step.arg
      BY <1>4, <1>6, <2>3, <2>5
    <3>. QED
      BY <1>6, <2>1, <2>5, <3>1
  <2>. QED
    BY <2>4, <2>5
<1>. QED
  BY <1>5, <1>6, FitsConstant DEF Kept
\* What is left of steps that fit.
LEMMA Rest ==
    ASSUME TypeInv, todo # << >>
    PROVE  /\ Head(todo) \in Fits /\ Tail(todo) \in Seq(Fits)
           /\ \A n \in Nat : SubSeq(todo, 2 + n, Len(todo)) \in Seq(Fits)
<1>1. todo \in Seq(Fits)
  BY DEF TypeInv
<1>. QED
  BY <1>1

\* A step of the host or of the device preserves the invariant.
LEMMA StepInv == CliInv /\ [Next]_vars => CliInv'
<1>. SUFFICES ASSUME CliInv, [Next]_vars
              PROVE  CliInv'
  OBVIOUS
<1>. USE DEF CliInv
<1>0. \A s \in Fits : s \in Steps /\ s.skip \in Nat /\ Size(s) \in Nat
  BY DEF Fits, Steps, Size, Blocks
<1>1. CASE CallOk
  <2>1. PICK step \in Fits :
          /\ step = Head(todo) /\ Does(step, Size(step)) /\ Learn(step)
          /\ inv' = inv /\ said' = said /\ todo # << >>
    BY <1>1, Rest DEF CallOk
  <2>2. content' \in [{0, 1} -> [Addr -> Contents]] /\ Kept'
    BY <1>0, <2>1, DoesKept
  <2>3. /\ todo' \in Seq(Fits)
        /\ memory' \in {None, Ram} /\ flash' \in {None, Flash}
        /\ exit' \in {"running", "done", "error"}
    BY <2>1, Rest, Few DEF Learn, Stop, TypeInv
  <2>. QED
    BY <2>1, <2>2, <2>3, FitsConstant DEF TypeInv
<1>2. ASSUME NEW kind, CallFails(kind)
      PROVE  CliInv'
  <2>1. PICK step \in Fits :
          /\ step = Head(todo)
          /\ \E n \in 0 .. Size(step) : Does(step, n)
          /\ IF kind \in step.caught
             THEN todo' = SubSeq(todo, 2 + step.skip, Len(todo)) /\ UNCHANGED exit
             ELSE Stop("error")
          /\ UNCHANGED <<inv, memory, flash, said>> /\ todo # << >>
    <3>1. Head(todo) \in Fits
      BY <1>2, Rest DEF CallFails
    <3>. QED
      BY <1>2, <3>1, Zenon DEF CallFails
  <2>2. content' \in [{0, 1} -> [Addr -> Contents]] /\ Kept'
    BY <2>1, DoesKept
  <2>3. todo' \in Seq(Fits) /\ exit' \in {"running", "done", "error"}
    BY <1>0, <2>1, Rest, Few DEF Stop, TypeInv
  <2>. QED
    BY <2>1, <2>2, <2>3, FitsConstant DEF TypeInv
<1>3. CASE DecideStep
  <2>1. PICK step \in Fits :
          /\ step = Head(todo) /\ step.do = "decide" /\ todo # << >>
          /\ todo' = Expand(step.arg, Arg(step.arg)) \o Tail(todo)
          /\ UNCHANGED <<inv, host, content>>
    BY <1>3, Rest, Zenon DEF DecideStep, Arg
  <2>2. step.arg \in inv.given \ {"reset"}
    BY <2>1 DEF Fits
  <2>3. todo' \in Seq(Fits)
    BY <2>1, <2>2, ExpandFits, Rest, Few
  <2>. QED
    BY <2>1, <2>3, FitsConstant DEF TypeInv, Kept, host
<1>4. CASE SayStep
  <2>1. PICK step \in Fits :
          /\ step = Head(todo) /\ step.do = "say" /\ todo' = Tail(todo)
          /\ said' = said \cup {step.arg} /\ todo # << >>
          /\ UNCHANGED <<inv, memory, flash, exit, content>>
    BY <1>4, Rest DEF SayStep
  <2>2. step.arg \in Subcommands
    BY <2>1 DEF Fits, Steps
  <2>. QED
    BY <2>1, <2>2, Rest, FitsConstant DEF TypeInv, Kept
<1>5. CASE RaiseStep
  BY <1>5, Few, FitsConstant DEF RaiseStep, Stop, TypeInv, Kept
<1>6. CASE Close
  BY <1>6, FitsConstant DEF Close, TypeInv, Kept
<1>7. CASE UNCHANGED vars
  BY <1>7, FitsConstant DEF vars, host, TypeInv, Kept
<1>. QED
  BY <1>1, <1>2, <1>3, <1>4, <1>5, <1>6, <1>7 DEF Next

\* For every memory, every sector size and every command line: the steps left fit the
\* line, and nothing outside the cells it may change was changed (cli.py:566-611).
THEOREM CliInvariant == Spec => []CliInv
BY InitInv, StepInv, PTL DEF Spec

\* Type correctness of a run: every step has the block and the argument its kind needs.
THEOREM TypeCorrect == Spec => []TypeOK
<1>1. CliInv => TypeOK
  <2>1. Fits \subseteq Steps
    BY DEF Fits
  <2>2. todo \in Seq(Fits) => todo \in Seq(Steps)
    BY <2>1, SeqMonotonic
  <2>. QED
    BY <2>2 DEF CliInv, TypeInv, TypeOK
<1>. QED
  BY <1>1, CliInvariant, PTL

\* Short of a mass erase no run, wherever it fails, changes a cell outside the sectors
\* of the blocks it was given and the place of the configuration words
\* (cli.py:60-190, mboot.py:421-518), but for what fill erases, and does not program,
\* in excess of its block (cli.py:126).
THEOREM NothingElseHolds == Spec => []NothingElse
<1>1. CliInv => NothingElse
  BY DEF CliInv, Kept, Narrow, NothingElse, May
<1>. QED
  BY <1>1, CliInvariant, PTL

-----------------------------------------------------------------------------
(* What is left to do never programs flash that was not erased.            *)

\* Step k of t has its turn only if step j was done before: nothing that fails before
\* k skips j and not k.
Ahead(t, j, k) ==
    \A i \in 1 .. j : t[i].caught # {} => i + t[i].skip \notin j .. k - 1

\* Nothing between j and k changes the device, now or once it is expanded.
Calm(t, j, k) == \A i \in j + 1 .. k - 1 : t[i].do \notin Writes \cup {"decide"}

\* The step programs flash.
Touches(s) == s.do = "program" /\ Points(s.block) \cap FlashCells(s.mem) # {}

\* e erases what s programs.
Covers(e, s) ==
    /\ e.do = "erase" /\ e.arg = "erased" /\ e.mem = s.mem
    /\ Points(s.block) \subseteq Points(e.block)

Erased(s, c) == \A a \in Points(s.block) \cap FlashCells(s.mem) : c[s.mem][a] = "erased"

\* What step k programs is erased by a step before it.
Ready(t, k) ==
    Touches(t[k]) =>
        \E j \in 1 .. k - 1 : Ahead(t, j, k) /\ Calm(t, j, k) /\ Covers(t[j], t[k])

\* The step that learns one of the two ranges.
Tells(s, range) == s.do \notin HostSteps /\ s.arg = range

\* The range of flash is learnt after that of RAM.
Informed(t, k, m) ==
    Tells(t[k], "FLASH_SIZE") =>
        m # None \/ \E j \in 1 .. k - 1 : Ahead(t, j, k) /\ Tells(t[j], "RAM_SIZE")

Clean(s) == s.do \in Writes => s.arg # "spoilt"

\* Steps that need nothing that was done before, but for what the host knows.
Sound(t, m) == \A k \in DOMAIN t : Clean(t[k]) /\ Ready(t, k) /\ Informed(t, k, m)

\* No failure skips more than the sequence.
Closed(t) == \A k \in DOMAIN t : t[k].caught # {} => k + t[k].skip <= Len(t)

\* Steps that are left, when the device holds c and the host knows m.
Orderly(t, c, m) ==
    \A k \in DOMAIN t :
        /\ Clean(t[k]) /\ Informed(t, k, m)
        /\ Ready(t, k) \/ (Erased(t[k], c) /\ Calm(t, 0, k))

Unspoilt(c) == \A mem \in {0, 1}, a \in Addr : c[mem][a] # "spoilt"

\* The ranges the host knows: that of flash after that of RAM, and none without a size.
Ordered == (flash # None => memory # None) /\ (memory # None => memory.length # 0)

SpoilInv == AutoErase => Orderly(todo, content, memory) /\ Ordered /\ Unspoilt(content)

-----------------------------------------------------------------------------
(* Sequences of steps.                                                     *)

\* d steps in front of a sequence, none of them skipping into it, leave a step its turn.
LEMMA AheadOn ==
    ASSUME NEW u, NEW t, NEW d \in Nat, NEW k \in Nat \ {0},
           \A i \in 1 .. k : u[d + i] = t[i] /\ t[i].skip \in Nat,
           \A i \in 1 .. d : u[i].skip \in Nat /\ (u[i].caught # {} => i + u[i].skip <= d),
           NEW j \in 1 .. k - 1, Ahead(t, j, k)
    PROVE  Ahead(u, d + j, d + k)
<1>1. SUFFICES ASSUME NEW i \in 1 .. d + j, u[i].caught # {}
               PROVE  i + u[i].skip \notin d + j .. d + k - 1
  BY DEF Ahead
<1>2. CASE i <= d
  BY <1>1, <1>2
<1>3. CASE i > d
  <2>1. PICK h \in 1 .. j : i = d + h
    BY <1>3
  <2>2. u[i] = t[h] /\ t[h].skip \in Nat
    BY <2>1
  <2>3. h + t[h].skip \notin j .. k - 1
    BY <1>1, <2>2 DEF Ahead
  <2>. QED
    BY <2>1, <2>2, <2>3
<1>. QED
  BY <1>2, <1>3

\* d steps in front of a sequence take nothing from it, if no failure among them skips
\* into it.
LEMMA Shift ==
    ASSUME NEW u, NEW t, NEW d \in Nat, NEW k \in Nat \ {0},
           \A i \in 1 .. k : u[d + i] = t[i] /\ t[i].skip \in Nat,
           \A i \in 1 .. d : u[i].skip \in Nat /\ (u[i].caught # {} => i + u[i].skip <= d)
    PROVE  /\ Clean(t[k]) => Clean(u[d + k])
           /\ Ready(t, k) => Ready(u, d + k)
           /\ \A m : Informed(t, k, m) => Informed(u, d + k, m)
<1>1. u[d + k] = t[k]
  OBVIOUS
<1>2. ASSUME NEW j \in 1 .. k - 1, Ahead(t, j, k)
      PROVE  Ahead(u, d + j, d + k)
  BY <1>2, AheadOn
<1>3. ASSUME NEW j \in 1 .. k - 1, Calm(t, j, k)
      PROVE  Calm(u, d + j, d + k)
  <2>1. SUFFICES ASSUME NEW i \in d + j + 1 .. d + k - 1
                 PROVE  u[i].do \notin Writes \cup {"decide"}
    BY DEF Calm
  <2>2. PICK h \in j + 1 .. k - 1 : i = d + h
    OBVIOUS
  <2>3. u[i] = t[h]
    BY <2>2
  <2>. QED
    BY <1>3, <2>3 DEF Calm
<1>4. ASSUME Ready(t, k), Touches(u[d + k])
      PROVE  \E j \in 1 .. d + k - 1 :
                Ahead(u, j, d + k) /\ Calm(u, j, d + k) /\ Covers(u[j], u[d + k])
  <2>1. PICK j \in 1 .. k - 1 : Ahead(t, j, k) /\ Calm(t, j, k) /\ Covers(t[j], t[k])
    BY <1>1, <1>4, Zenon DEF Ready
  <2>2. u[d + j] = t[j] /\ d + j \in 1 .. d + k - 1
    OBVIOUS
  <2>. QED
    BY <1>1, <1>2, <1>3, <2>1, <2>2, Zenon
<1>5. ASSUME NEW m, Informed(t, k, m), Tells(u[d + k], "FLASH_SIZE"), m = None
      PROVE  \E j \in 1 .. d + k - 1 : Ahead(u, j, d + k) /\ Tells(u[j], "RAM_SIZE")
  <2>1. PICK j \in 1 .. k - 1 : Ahead(t, j, k) /\ Tells(t[j], "RAM_SIZE")
    BY <1>1, <1>5, Zenon DEF Informed
  <2>2. u[d + j] = t[j] /\ d + j \in 1 .. d + k - 1
    OBVIOUS
  <2>. QED
    BY <1>2, <2>1, <2>2, Zenon
<1>6. Clean(t[k]) => Clean(u[d + k])
  BY <1>1
<1>7. ASSUME Ready(t, k)
      PROVE  Ready(u, d + k)
  BY <1>4, <1>7 DEF Ready
<1>8. ASSUME NEW m, Informed(t, k, m)
      PROVE  Informed(u, d + k, m)
  BY <1>5, <1>8 DEF Informed
<1>. QED
  BY <1>6, <1>7, <1>8

\* What follows n steps, seen without them.
LEMMA Drop ==
    ASSUME NEW u, NEW t, NEW n \in Nat, NEW k \in Nat \ {0},
           \A i \in 1 .. k : u[i] = t[n + i] /\ u[i].skip \in Nat
    PROVE  /\ \A j \in 1 .. k - 1 :
                 /\ Ahead(t, n + j, n + k) => Ahead(u, j, k)
                 /\ Calm(t, n + j, n + k) => Calm(u, j, k)
           /\ \A j \in 0 .. n : Calm(t, j, n + k) => Calm(u, 0, k)
<1>1. ASSUME NEW j \in 1 .. k - 1, Ahead(t, n + j, n + k)
      PROVE  Ahead(u, j, k)
  <2>1. SUFFICES ASSUME NEW i \in 1 .. j, u[i].caught # {}
                 PROVE  i + u[i].skip \notin j .. k - 1
    BY DEF Ahead
  <2>2. PICK h \in 1 .. n + j : h = n + i
    OBVIOUS
  <2>3. u[i] = t[h] /\ u[i].skip \in Nat
    BY <2>2
  <2>4. h + t[h].skip \notin n + j .. n + k - 1
    BY <1>1, <2>1, <2>3 DEF Ahead
  <2>. QED
    BY <2>2, <2>3, <2>4
<1>2. ASSUME NEW j \in 0 .. k - 1, NEW l \in 0 .. n + j, Calm(t, l, n + k)
      PROVE  Calm(u, j, k)
  <2>1. SUFFICES ASSUME NEW i \in j + 1 .. k - 1
                 PROVE  u[i].do \notin Writes \cup {"decide"}
    BY DEF Calm
  <2>2. PICK h \in l + 1 .. n + k - 1 : h = n + i
    OBVIOUS
  <2>3. u[i] = t[h]
    BY <2>2
  <2>. QED
    BY <1>2, <2>3 DEF Calm
<1>3. \A j \in 1 .. k - 1 : Calm(t, n + j, n + k) => Calm(u, j, k)
  BY <1>2
<1>4. \A j \in 0 .. n : Calm(t, j, n + k) => Calm(u, 0, k)
  BY <1>2
<1>. QED
  BY <1>1, <1>3, <1>4

\* One sequence after another.
LEMMA SoundConcat ==
    ASSUME NEW s \in Seq(Steps), NEW t \in Seq(Steps), NEW m,
           Closed(s), Sound(s, m), Sound(t, m)
    PROVE  /\ s \o t \in Seq(Steps) /\ Sound(s \o t, m)
           /\ Closed(t) => Closed(s \o t)
<1>1. PICK u \in Seq(Steps) : u = s \o t
  BY ConcatProperties
<1>2. PICK d \in Nat : d = Len(s)
  OBVIOUS
<1>3. PICK l \in Nat : l = Len(t)
  OBVIOUS
<1>4. /\ DOMAIN s = 1 .. d /\ DOMAIN t = 1 .. l
      /\ Len(u) = d + l /\ DOMAIN u = 1 .. d + l
      /\ \A i \in 1 .. d : u[i] = s[i]
      /\ \A i \in 1 .. l : u[d + i] = t[i]
  BY <1>1, <1>2, <1>3
<1>5. /\ \A i \in 1 .. d : s[i].skip \in Nat
      /\ \A i \in 1 .. l : t[i].skip \in Nat
  <2>1. \A x \in Steps : x.skip \in Nat
    BY DEF Steps
  <2>2. (\A i \in 1 .. d : s[i] \in Steps) /\ (\A i \in 1 .. l : t[i] \in Steps)
    BY <1>4
  <2>. QED
    BY <2>1, <2>2
<1>6. \A i \in 1 .. d : s[i].caught # {} => i + s[i].skip <= d
  BY <1>2, <1>4 DEF Closed
<1>7. ASSUME Closed(t)
      PROVE  Closed(u)
  <2>0. \A i \in 1 .. l : t[i].caught # {} => i + t[i].skip <= l
    BY <1>3, <1>4, <1>7 DEF Closed
  <2>1. SUFFICES ASSUME NEW i \in 1 .. d + l, u[i].caught # {}
                 PROVE  i + u[i].skip <= d + l
    BY <1>4 DEF Closed
  <2>2. CASE i <= d
    BY <1>4, <1>5, <1>6, <2>1, <2>2
  <2>3. CASE i > d
    <3>1. PICK h \in 1 .. l : i = d + h
      BY <2>3
    <3>2. u[i] = t[h]
      BY <1>4, <3>1
    <3>3. h + t[h].skip <= l /\ t[h].skip \in Nat
      BY <1>5, <2>0, <2>1, <3>2
    <3>. QED
      BY <3>1, <3>2, <3>3
  <2>. QED
    BY <2>2, <2>3
<1>8. ASSUME NEW k \in 1 .. d + l
      PROVE  Clean(u[k]) /\ Ready(u, k) /\ Informed(u, k, m)
  <2>1. CASE k <= d
    <3>1. /\ Clean(s[k]) => Clean(u[k])
          /\ Ready(s, k) => Ready(u, k)
          /\ Informed(s, k, m) => Informed(u, k, m)
      <4>1. PICK z \in Nat : z = 0
        OBVIOUS
      <4>2. \A i \in 1 .. k : u[z + i] = s[i] /\ s[i].skip \in Nat
        BY <1>4, <1>5, <2>1, <4>1
      <4>3. k \in Nat \ {0} /\ z + k = k
        BY <4>1
      <4>4. \A i \in 1 .. z :
               u[i].skip \in Nat /\ (u[i].caught # {} => i + u[i].skip <= z)
        BY <4>1
      <4>. QED
        BY <4>2, <4>3, <4>4, Shift, Zenon
    <3>2. Clean(s[k]) /\ Ready(s, k) /\ Informed(s, k, m)
      BY <1>4, <2>1 DEF Sound
    <3>. QED
      BY <3>1, <3>2
  <2>2. CASE k > d
    <3>1. PICK h \in 1 .. l : k = d + h
      BY <2>2
    <3>2. /\ Clean(t[h]) => Clean(u[d + h])
          /\ Ready(t, h) => Ready(u, d + h)
          /\ Informed(t, h, m) => Informed(u, d + h, m)
      <4>1. \A i \in 1 .. h : u[d + i] = t[i] /\ t[i].skip \in Nat
        BY <1>4, <1>5
      <4>2. \A i \in 1 .. d :
               u[i].skip \in Nat /\ (u[i].caught # {} => i + u[i].skip <= d)
        BY <1>4, <1>5, <1>6
      <4>3. h \in Nat \ {0}
        OBVIOUS
      <4>. QED
        BY <4>1, <4>2, <4>3, Shift, Zenon
    <3>3. Clean(t[h]) /\ Ready(t, h) /\ Informed(t, h, m)
      BY <1>4 DEF Sound
    <3>. QED
      BY <3>1, <3>2, <3>3
  <2>. QED
    BY <2>1, <2>2
<1>9. Sound(u, m)
  BY <1>4, <1>8 DEF Sound
<1>. QED
  BY <1>1, <1>7, <1>9

\* Steps that need nothing can follow anything.
LEMMA SoundOrderly ==
    ASSUME NEW t
    PROVE  /\ Sound(t, None) => \A m : Sound(t, m)
           /\ \A c, m : Sound(t, m) => Orderly(t, c, m)
<1>1. ASSUME NEW k, NEW m, Informed(t, k, None)
      PROVE  Informed(t, k, m)
  BY <1>1, Zenon DEF Informed
<1>2. Sound(t, None) => \A m : Sound(t, m)
  BY <1>1 DEF Sound
<1>3. \A c, m : Sound(t, m) => Orderly(t, c, m)
  BY DEF Sound, Orderly
<1>. QED
  BY <1>2, <1>3

\* No step leaves nothing to do.
LEMMA NothingLeft ==
    \A c, m : Orderly(<< >>, c, m) /\ Sound(<< >>, m) /\ Closed(<< >>)
BY DEF Orderly, Sound, Closed

\* What comes after a decision relies on nothing that was done before it.
LEMMA DecideRest ==
    ASSUME NEW t \in Seq(Steps), t # << >>, NEW c, NEW m, Orderly(t, c, m),
           Head(t).do = "decide"
    PROVE  Sound(Tail(t), m)
<1>0. Tail(t) \in Seq(Steps)
  OBVIOUS
<1>1. PICK u \in Seq(Steps) : u = Tail(t)
  BY <1>0
<1>2. /\ t[1].do = "decide"
      /\ \A k \in DOMAIN u : k \in Nat \ {0} /\ 1 + k \in DOMAIN t
      /\ \A k \in DOMAIN u : \A i \in 1 .. k : u[i] = t[1 + i] /\ u[i] \in Steps
  BY <1>1
<1>3. \A x \in Steps : x.skip \in Nat
  BY DEF Steps
<1>4. ASSUME NEW k \in DOMAIN u
      PROVE  Clean(u[k]) /\ Ready(u, k) /\ Informed(u, k, m)
  <2>1. /\ k \in Nat \ {0} /\ 1 + k \in DOMAIN t /\ u[k] = t[1 + k]
        /\ \A i \in 1 .. k : u[i] = t[1 + i] /\ u[i].skip \in Nat
    BY <1>2, <1>3
  <2>2. \A j \in 1 .. k - 1 :
           /\ Ahead(t, 1 + j, 1 + k) => Ahead(u, j, k)
           /\ Calm(t, 1 + j, 1 + k) => Calm(u, j, k)
    BY <2>1, Drop
  <2>3. /\ Clean(t[1 + k]) /\ Informed(t, 1 + k, m)
        /\ Ready(t, 1 + k) \/ Calm(t, 0, 1 + k)
    BY <2>1 DEF Orderly
  <2>4. ~ Calm(t, 0, 1 + k)
    <3>1. 1 \in 0 + 1 .. (1 + k) - 1
      BY <2>1
    <3>. QED
      BY <1>2, <3>1 DEF Calm
  <2>5. \A j \in 1 .. (1 + k) - 1 : j = 1 \/ \E h \in 1 .. k - 1 : j = 1 + h
    <3>. TAKE j \in 1 .. (1 + k) - 1
    <3>1. j # 1 => j - 1 \in 1 .. k - 1 /\ j = 1 + (j - 1)
      BY <2>1
    <3>. QED
      BY <3>1
  <2>6. ASSUME Touches(u[k])
        PROVE  \E j \in 1 .. k - 1 : Ahead(u, j, k) /\ Calm(u, j, k) /\ Covers(u[j], u[k])
    <3>1. PICK j \in 1 .. (1 + k) - 1 :
            Ahead(t, j, 1 + k) /\ Calm(t, j, 1 + k) /\ Covers(t[j], t[1 + k])
      BY <2>1, <2>3, <2>4, <2>6 DEF Ready
    <3>2. j # 1
      BY <1>2, <3>1 DEF Covers
    <3>3. PICK h \in 1 .. k - 1 : j = 1 + h
      BY <2>5, <3>2
    <3>4. u[h] = t[1 + h]
      BY <2>1
    <3>. QED
      BY <2>1, <2>2, <3>1, <3>3, <3>4
  <2>7. ASSUME Tells(u[k], "FLASH_SIZE"), m = None
        PROVE  \E j \in 1 .. k - 1 : Ahead(u, j, k) /\ Tells(u[j], "RAM_SIZE")
    <3>1. PICK j \in 1 .. (1 + k) - 1 : Ahead(t, j, 1 + k) /\ Tells(t[j], "RAM_SIZE")
      BY <2>1, <2>3, <2>7 DEF Informed
    <3>2. j # 1
      BY <1>2, <3>1 DEF Tells, HostSteps
    <3>3. PICK h \in 1 .. k - 1 : j = 1 + h
      BY <2>5, <3>2
    <3>4. u[h] = t[1 + h]
      BY <2>1
    <3>. QED
      BY <2>1, <2>2, <3>1, <3>3, <3>4
  <2>8. Ready(u, k)
    BY <2>6 DEF Ready
  <2>9. Informed(u, k, m)
    BY <2>7 DEF Informed
  <2>. QED
    BY <2>1, <2>3, <2>8, <2>9
<1>. QED
  BY <1>1, <1>4 DEF Sound

\* What is left after n steps, the first of which was done or failed: it relies on
\* nothing that was not done.
LEMMA OrderlyRest ==
    ASSUME NEW t \in Seq(Steps), NEW u \in Seq(Steps), NEW n \in Nat \ {0},
           \A k \in DOMAIN u : n + k \in DOMAIN t /\ u[k] = t[n + k],
           NEW c, NEW m, NEW c2, NEW m2, Orderly(t, c, m),
           t[1].do \notin Writes => c2 = c,
           m # None => m2 # None,
           \A k \in DOMAIN u, j \in 1 .. n :
              Ahead(t, j, n + k) /\ Covers(t[j], u[k]) => Erased(u[k], c2),
           \A k \in DOMAIN u, j \in 1 .. n :
              Ahead(t, j, n + k) /\ Tells(t[j], "RAM_SIZE") => m2 # None
    PROVE  Orderly(u, c2, m2)
<1>1. \A x \in Steps : x.skip \in Nat
  BY DEF Steps
<1>2. SUFFICES ASSUME NEW k \in DOMAIN u
               PROVE  /\ Clean(u[k]) /\ Informed(u, k, m2)
                      /\ Ready(u, k) \/ (Erased(u[k], c2) /\ Calm(u, 0, k))
  BY DEF Orderly
<1>3. /\ k \in Nat \ {0} /\ n + k \in DOMAIN t /\ u[k] = t[n + k]
      /\ \A i \in 1 .. k : u[i] = t[n + i] /\ u[i].skip \in Nat
  <2>1. k \in Nat \ {0} /\ \A i \in 1 .. k : i \in DOMAIN u /\ u[i] \in Steps
    OBVIOUS
  <2>. QED
    BY <1>1, <2>1
<1>4. /\ \A j \in 1 .. k - 1 :
            /\ Ahead(t, n + j, n + k) => Ahead(u, j, k)
            /\ Calm(t, n + j, n + k) => Calm(u, j, k)
      /\ \A j \in 0 .. n : Calm(t, j, n + k) => Calm(u, 0, k)
  BY <1>3, Drop, Zenon
<1>5. /\ Clean(u[k]) /\ Informed(t, n + k, m)
      /\ Ready(t, n + k) \/ (Erased(u[k], c) /\ Calm(t, 0, n + k))
  BY <1>3 DEF Orderly
<1>6. \A j \in 1 .. (n + k) - 1 : j \in 1 .. n \/ \E h \in 1 .. k - 1 : j = n + h
  <2>. TAKE j \in 1 .. (n + k) - 1
  <2>1. j > n => j - n \in 1 .. k - 1 /\ j = n + (j - n)
    BY <1>3
  <2>. QED
    BY <2>1
<1>7. ASSUME Tells(u[k], "FLASH_SIZE"), m2 = None
      PROVE  \E j \in 1 .. k - 1 : Ahead(u, j, k) /\ Tells(u[j], "RAM_SIZE")
  <2>1. PICK j \in 1 .. (n + k) - 1 : Ahead(t, j, n + k) /\ Tells(t[j], "RAM_SIZE")
    BY <1>3, <1>5, <1>7 DEF Informed
  <2>2. PICK h \in 1 .. k - 1 : j = n + h
    BY <1>6, <1>7, <2>1
  <2>3. u[h] = t[n + h]
    BY <1>3
  <2>. QED
    BY <1>4, <2>1, <2>2, <2>3
<1>8. Informed(u, k, m2)
  BY <1>7 DEF Informed
<1>9. CASE Erased(u[k], c) /\ Calm(t, 0, n + k)
  <2>1. 1 \in 0 + 1 .. (n + k) - 1
    BY <1>3
  <2>2. t[1].do \notin Writes
    BY <1>9, <2>1 DEF Calm
  <2>3. Erased(u[k], c2)
    BY <1>9, <2>2
  <2>4. Calm(u, 0, k)
    BY <1>4, <1>9
  <2>. QED
    BY <1>5, <1>8, <2>3, <2>4
<1>10. CASE Ready(t, n + k)
  <2>1. CASE ~ Touches(u[k])
    BY <1>5, <1>8, <2>1 DEF Ready
  <2>2. CASE Touches(u[k])
    <3>1. PICK j \in 1 .. (n + k) - 1 :
            Ahead(t, j, n + k) /\ Calm(t, j, n + k) /\ Covers(t[j], u[k])
      BY <1>3, <1>10, <2>2 DEF Ready
    <3>2. CASE j \in 1 .. n
      <4>1. Erased(u[k], c2)
        BY <3>1, <3>2
      <4>2. Calm(u, 0, k)
        BY <1>4, <3>1, <3>2
      <4>. QED
        BY <1>5, <1>8, <4>1, <4>2
    <3>3. CASE \E h \in 1 .. k - 1 : j = n + h
      <4>1. PICK h \in 1 .. k - 1 : j = n + h
        BY <3>3
      <4>2. u[h] = t[n + h]
        BY <1>3
      <4>3. Ahead(u, h, k) /\ Calm(u, h, k) /\ Covers(u[h], u[k])
        BY <1>4, <3>1, <4>1, <4>2
      <4>4. Ready(u, k)
        BY <4>3 DEF Ready
      <4>. QED
        BY <1>5, <1>8, <4>4
    <3>. QED
      BY <1>6, <3>2, <3>3
  <2>. QED
    BY <2>1, <2>2
<1>. QED
  BY <1>5, <1>9, <1>10

-----------------------------------------------------------------------------
(* The sequences of the methods.                                           *)

\* A step after which nothing has to be done.
Plain(s) == ~ Touches(s) /\ Clean(s) /\ ~ Tells(s, "FLASH_SIZE")

\* Steps that neither program flash nor learn its range.
LEMMA PlainSound ==
    ASSUME NEW t \in Seq(Steps),
           \A k \in DOMAIN t : Plain(t[k]) /\ (t[k].caught = {} \/ t[k].skip = 0)
    PROVE  Sound(t, None) /\ Closed(t)
<1>1. ASSUME NEW k \in DOMAIN t
      PROVE  Clean(t[k]) /\ Ready(t, k) /\ Informed(t, k, None)
  BY DEF Plain, Ready, Informed
<1>2. ASSUME NEW k \in DOMAIN t, t[k].caught # {}
      PROVE  k + t[k].skip <= Len(t)
  BY <1>2
<1>. QED
  BY <1>1, <1>2 DEF Sound, Closed

\* A region is erased, then perhaps something is asked, then it is programmed.
LEMMA EraseFirst ==
    ASSUME NEW t \in Seq(Steps), NEW n \in Nat, n = Len(t), n >= 2,
           \A k \in 1 .. n : t[k].caught = {},
           \A k \in 1 .. n : Clean(t[k]) /\ ~ Tells(t[k], "FLASH_SIZE"),
           \A k \in 2 .. n - 1 : t[k].do \notin Writes \cup {"decide"},
           t[1].do # "program", Covers(t[1], t[n])
    PROVE  Sound(t, None) /\ Closed(t)
<1>1. \A k : Ahead(t, 1, k)
  <2>1. t[1].caught = {}
    OBVIOUS
  <2>. QED
    BY <2>1 DEF Ahead
<1>2. Calm(t, 1, n)
  BY DEF Calm
<1>3. ASSUME NEW k \in 1 .. n
      PROVE  Ready(t, k)
  <2>1. CASE k = n
    <3>1. 1 \in 1 .. k - 1
      BY <2>1
    <3>2. Ahead(t, 1, k) /\ Calm(t, 1, k) /\ Covers(t[1], t[k])
      BY <1>1, <1>2, <2>1
    <3>. QED
      BY <3>1, <3>2, Zenon DEF Ready
  <2>2. CASE k # n
    <3>1. t[k].do # "program"
      BY <2>2 DEF Writes
    <3>. QED
      BY <3>1 DEF Ready, Touches
  <2>. QED
    BY <2>1, <2>2
<1>4. \A k \in 1 .. n : Informed(t, k, None)
  BY DEF Informed
<1>. QED
  BY <1>3, <1>4 DEF Sound, Closed

\* Steps that can come after anything, and before anything.
Safe(t) == t \in Seq(Steps) /\ Sound(t, None) /\ Closed(t)

\* One such sequence after another.
LEMMA SafeConcat ==
    /\ Safe(<< >>)
    /\ \A s, t : Safe(s) /\ Safe(t) => Safe(s \o t)
<1>1. Safe(<< >>)
  BY NothingLeft, Few DEF Safe
<1>2. ASSUME NEW s, NEW t, Safe(s), Safe(t)
      PROVE  Safe(s \o t)
  BY <1>2, SoundConcat DEF Safe
<1>. QED
  BY <1>1, <1>2

\* One or two plain steps.
LEMMA PlainSafe ==
    /\ \A s \in Steps : Plain(s) /\ (s.caught = {} \/ s.skip = 0) => Safe(<< s >>)
    /\ \A s, t \in Steps :
          Plain(s) /\ Plain(t) /\ s.caught = {} /\ t.caught = {} => Safe(<< s, t >>)
<1>1. ASSUME NEW s \in Steps, Plain(s), s.caught = {} \/ s.skip = 0
      PROVE  Safe(<< s >>)
  <2>1. << s >> \in Seq(Steps) /\ \A k \in DOMAIN << s >> : << s >>[k] = s
    OBVIOUS
  <2>. QED
    BY <1>1, <2>1, PlainSound DEF Safe
<1>2. ASSUME NEW s \in Steps, NEW t \in Steps, Plain(s), Plain(t), s.caught = {}, t.caught = {}
      PROVE  Safe(<< s, t >>)
  <2>1. << s, t >> \in Seq(Steps)
    OBVIOUS
  <2>2. \A k \in DOMAIN << s, t >> : << s, t >>[k] \in {s, t}
    OBVIOUS
  <2>3. \A k \in DOMAIN << s, t >> :
          /\ Plain(<< s, t >>[k])
          /\ << s, t >>[k].caught = {} \/ << s, t >>[k].skip = 0
    BY <1>2, <2>2
  <2>. QED
    BY <2>1, <2>3, PlainSound DEF Safe
<1>. QED
  BY <1>1, <1>2

\* A step made by Step has no except clause around it.
LEMMA StepCaught ==
    \A do, mem, block, arg : Step(do, mem, block, arg).caught = {}
BY DEF Step

\* The calls and steps of the host that change nothing.
LEMMA PlainSteps ==
    /\ \A tag \in Tags \ {"FLASH_SIZE"} :
          /\ Get(tag) \in Steps /\ Plain(Get(tag)) /\ Get(tag).caught = {}
          /\ Command(tag) \in Steps /\ Plain(Command(tag)) /\ Command(tag).caught = {}
          /\ Raise(tag) \in Steps /\ Plain(Raise(tag)) /\ Raise(tag).caught = {}
          /\ Get(tag).do = "get" /\ Command(tag).do = "command"
          /\ ~ Tells(Get(tag), "FLASH_SIZE")
    /\ \A mem \in {0, 1}, block \in Blocks :
          /\ ReadBack(mem, block) \in Steps /\ Plain(ReadBack(mem, block))
          /\ ReadBack(mem, block).caught = {}
    /\ \A name \in Subcommands :
          /\ Say(name) \in Steps /\ Plain(Say(name)) /\ Say(name).caught = {}
          /\ Decide(name) \in Steps /\ Plain(Decide(name)) /\ Decide(name).caught = {}
<1>0. NoBlock \in Blocks
  BY BlockTypes
<1>1. ASSUME NEW tag \in Tags \ {"FLASH_SIZE"}
      PROVE  /\ Get(tag) \in Steps /\ Plain(Get(tag)) /\ Get(tag).caught = {}
             /\ Command(tag) \in Steps /\ Plain(Command(tag)) /\ Command(tag).caught = {}
             /\ Raise(tag) \in Steps /\ Plain(Raise(tag)) /\ Raise(tag).caught = {}
             /\ Get(tag).do = "get" /\ Command(tag).do = "command"
             /\ ~ Tells(Get(tag), "FLASH_SIZE")
  <2>1. /\ Get(tag) \in Steps /\ Get(tag).do = "get" /\ Get(tag).arg = tag
        /\ Command(tag) \in Steps /\ Command(tag).do = "command" /\ Command(tag).arg = tag
        /\ Raise(tag) \in Steps /\ Raise(tag).do = "raise"
    BY <1>0, StepType DEF Get, Command, Raise, HostSteps, Writes
  <2>2. Get(tag).caught = {} /\ Command(tag).caught = {} /\ Raise(tag).caught = {}
    BY StepCaught DEF Get, Command, Raise
  <2>. QED
    BY <2>1, <2>2 DEF Plain, Touches, Clean, Tells, HostSteps, Writes
<1>2. ASSUME NEW mem \in {0, 1}, NEW block \in Blocks
      PROVE  /\ ReadBack(mem, block) \in Steps /\ Plain(ReadBack(mem, block))
             /\ ReadBack(mem, block).caught = {}
  <2>1. /\ ReadBack(mem, block) \in Steps /\ ReadBack(mem, block).do = "read"
        /\ ReadBack(mem, block).arg = "none"
    BY StepType DEF ReadBack, HostSteps, Writes, Tags
  <2>2. ReadBack(mem, block).caught = {}
    BY StepCaught DEF ReadBack
  <2>. QED
    BY <2>1, <2>2 DEF Plain, Touches, Clean, Tells, Writes
<1>3. ASSUME NEW name \in Subcommands
      PROVE  /\ Say(name) \in Steps /\ Plain(Say(name)) /\ Say(name).caught = {}
             /\ Decide(name) \in Steps /\ Plain(Decide(name)) /\ Decide(name).caught = {}
  <2>1. /\ Say(name) \in Steps /\ Say(name).do = "say"
        /\ Decide(name) \in Steps /\ Decide(name).do = "decide"
    BY <1>0, StepType DEF Say, Decide, HostSteps, Writes
  <2>2. Say(name).caught = {} /\ Decide(name).caught = {}
    BY StepCaught DEF Say, Decide
  <2>. QED
    BY <2>1, <2>2 DEF Plain, Touches, Clean, Tells, HostSteps, Writes
<1>. QED
  BY <1>1, <1>2, <1>3

\* The steps that write.
LEMMA PlainWrites ==
    ASSUME NEW mem \in {0, 1}, NEW block \in Blocks
    PROVE  /\ Erase(mem, block) \in Steps /\ Plain(Erase(mem, block))
           /\ Erase(mem, block).caught = {} /\ Erase(mem, block).do = "erase"
           /\ EraseAll(mem) \in Steps /\ Plain(EraseAll(mem)) /\ EraseAll(mem).caught = {}
           /\ Program(mem, block) \in Steps /\ Program(mem, block).caught = {}
           /\ Clean(Program(mem, block)) /\ ~ Tells(Program(mem, block), "FLASH_SIZE")
           /\ Fill(block) \in Steps /\ Fill(block).caught = {}
           /\ Clean(Fill(block)) /\ ~ Tells(Fill(block), "FLASH_SIZE")
           /\ Config(block) \in Steps /\ Config(block).caught = {}
           /\ Clean(Config(block)) /\ ~ Tells(Config(block), "FLASH_SIZE")
           /\ \A part \in Blocks : Points(part) \subseteq Points(block) =>
                 /\ Covers(Erase(mem, block), Program(mem, part))
                 /\ mem = 0 => Covers(Erase(mem, block), Fill(part))
           /\ Points(block) \cap Points(Flash) = {} =>
                 /\ mem = 0 => Plain(Program(mem, block))
                 /\ Plain(Fill(block)) /\ Plain(Config(block))
<1>0. NoBlock \in Blocks
  BY BlockTypes
<1>1. /\ Erase(mem, block) \in Steps /\ Erase(mem, block).do = "erase"
      /\ Erase(mem, block).mem = mem /\ Erase(mem, block).block = block
      /\ Erase(mem, block).arg = "erased"
      /\ EraseAll(mem) \in Steps /\ EraseAll(mem).do = "eraseAll"
      /\ EraseAll(mem).arg = "erased"
  BY <1>0, StepType DEF Erase, EraseAll, HostSteps, Writes, Contents
<1>2. ASSUME NEW b \in Blocks
      PROVE  /\ Program(mem, b) \in Steps /\ Program(mem, b).do = "program"
             /\ Program(mem, b).mem = mem /\ Program(mem, b).block = b
             /\ Program(mem, b).arg = "data"
             /\ Fill(b) \in Steps /\ Fill(b).do = "program" /\ Fill(b).mem = 0
             /\ Fill(b).block = b /\ Fill(b).arg = "pattern"
             /\ Config(b) \in Steps /\ Config(b).do = "program" /\ Config(b).mem = 0
             /\ Config(b).block = b /\ Config(b).arg = "config"
  <2>1. /\ Program(mem, b) \in Steps /\ Program(mem, b).do = "program"
        /\ Program(mem, b).mem = mem /\ Program(mem, b).block = b
        /\ Program(mem, b).arg = "data"
    BY StepType DEF Program, HostSteps, Writes, Contents
  <2>2. /\ Fill(b) \in Steps /\ Fill(b).do = "program" /\ Fill(b).mem = 0
        /\ Fill(b).block = b /\ Fill(b).arg = "pattern"
        /\ Config(b) \in Steps /\ Config(b).do = "program" /\ Config(b).mem = 0
        /\ Config(b).block = b /\ Config(b).arg = "config"
    BY StepType DEF Fill, Config, HostSteps, Writes, Contents
  <2>. QED
    BY <2>1, <2>2
<1>3. /\ Erase(mem, block).caught = {} /\ EraseAll(mem).caught = {}
      /\ Program(mem, block).caught = {} /\ Fill(block).caught = {}
      /\ Config(block).caught = {}
  BY StepCaught DEF Erase, EraseAll, Program, Fill, Config
<1>4. /\ Plain(Erase(mem, block)) /\ Plain(EraseAll(mem))
      /\ Clean(Program(mem, block)) /\ ~ Tells(Program(mem, block), "FLASH_SIZE")
      /\ Clean(Fill(block)) /\ ~ Tells(Fill(block), "FLASH_SIZE")
      /\ Clean(Config(block)) /\ ~ Tells(Config(block), "FLASH_SIZE")
  BY <1>1, <1>2 DEF Plain, Touches, Clean, Tells
<1>5. ASSUME NEW part \in Blocks, Points(part) \subseteq Points(block)
      PROVE  /\ Covers(Erase(mem, block), Program(mem, part))
             /\ mem = 0 => Covers(Erase(mem, block), Fill(part))
  BY <1>1, <1>2, <1>5 DEF Covers
<1>6. ASSUME Points(block) \cap Points(Flash) = {}
      PROVE  /\ mem = 0 => Plain(Program(mem, block))
             /\ Plain(Fill(block)) /\ Plain(Config(block))
  <2>1. FlashCells(0) = Points(Flash)
    BY DEF FlashCells
  <2>2. ~ Touches(Fill(block)) /\ ~ Touches(Config(block))
    BY <1>2, <1>6, <2>1 DEF Touches
  <2>3. mem = 0 => ~ Touches(Program(mem, block))
    BY <1>2, <1>6, <2>1 DEF Touches
  <2>. QED
    BY <1>4, <2>2, <2>3 DEF Plain
<1>. QED
  BY <1>1, <1>2, <1>3, <1>4, <1>5, <1>6

\* What erases a block before it programs the whole or a part of it.
LEMMA EraseProgramSafe ==
    ASSUME NEW mem \in {0, 1}, NEW block \in Blocks, NEW part \in Blocks,
           Points(part) \subseteq Points(block)
    PROVE  /\ Safe(<< Erase(mem, block), Get("MAX_PACKET_SIZE"), Program(mem, part) >>)
           /\ Safe(<< Erase(mem, block), Get("RAM_START"), Get("MAX_PACKET_SIZE"),
                      Program(mem, part) >>)
           /\ mem = 0 => Safe(<< Erase(mem, block), Fill(part) >>)
<1>1. PICK e \in Steps :
        /\ e = Erase(mem, block) /\ e.caught = {} /\ Plain(e) /\ e.do = "erase"
        /\ Covers(e, Program(mem, part))
        /\ mem = 0 => Covers(e, Fill(part))
  BY PlainWrites
<1>2. PICK p \in Steps :
        p = Program(mem, part) /\ p.caught = {} /\ Clean(p) /\ ~ Tells(p, "FLASH_SIZE")
  BY PlainWrites
<1>3. PICK f \in Steps :
        f = Fill(part) /\ f.caught = {} /\ Clean(f) /\ ~ Tells(f, "FLASH_SIZE")
  BY PlainWrites
<1>4. {"RAM_START", "MAX_PACKET_SIZE"} \subseteq Tags \ {"FLASH_SIZE"}
  BY DEF Tags
<1>5. PICK g \in Steps :
        /\ g = Get("MAX_PACKET_SIZE") /\ g.caught = {} /\ Plain(g)
        /\ g.do \notin Writes \cup {"decide"}
  BY <1>4, PlainSteps DEF Writes
<1>6. PICK r \in Steps :
        /\ r = Get("RAM_START") /\ r.caught = {} /\ Plain(r)
        /\ r.do \notin Writes \cup {"decide"}
  BY <1>4, PlainSteps DEF Writes
<1>7. \A s : Plain(s) => Clean(s) /\ ~ Tells(s, "FLASH_SIZE")
  BY DEF Plain
<1>8. Safe(<< e, g, p >>)
  <2>a. PICK t : t = << e, g, p >>
    OBVIOUS
  <2>1. t \in Seq(Steps) /\ Len(t) = 3 /\ t[1] = e /\ t[2] = g /\ t[3] = p
    BY <2>a
  <2>0. PICK n \in Nat : n = 3
    OBVIOUS
  <2>2. \A k \in 1 .. n :
          t[k].caught = {} /\ Clean(t[k]) /\ ~ Tells(t[k], "FLASH_SIZE")
    BY <1>1, <1>2, <1>5, <1>7, <2>1, <2>0
  <2>3. \A k \in 2 .. n - 1 : t[k].do \notin Writes \cup {"decide"}
    BY <1>5, <2>1, <2>0
  <2>4. t[1].do # "program" /\ Covers(t[1], t[n])
    BY <1>1, <1>2, <2>1, <2>0
  <2>. QED
    <3>1. n = Len(t) /\ n >= 2
      BY <2>1, <2>0
    <3>2. Sound(t, None) /\ Closed(t)
      BY <2>1, <2>2, <2>3, <2>4, <3>1, EraseFirst
    <3>. QED
      BY <2>a, <2>1, <3>2 DEF Safe
<1>9. Safe(<< e, r, g, p >>)
  <2>a. PICK t : t = << e, r, g, p >>
    OBVIOUS
  <2>1. /\ t \in Seq(Steps) /\ Len(t) = 4
        /\ t[1] = e /\ t[2] = r /\ t[3] = g /\ t[4] = p
    BY <2>a
  <2>0. PICK n \in Nat : n = 4
    OBVIOUS
  <2>2. \A k \in 1 .. n :
          t[k].caught = {} /\ Clean(t[k]) /\ ~ Tells(t[k], "FLASH_SIZE")
    BY <1>1, <1>2, <1>5, <1>6, <1>7, <2>1, <2>0
  <2>3. \A k \in 2 .. n - 1 : t[k].do \notin Writes \cup {"decide"}
    BY <1>5, <1>6, <2>1, <2>0
  <2>4. t[1].do # "program" /\ Covers(t[1], t[n])
    BY <1>1, <1>2, <2>1, <2>0
  <2>. QED
    <3>1. n = Len(t) /\ n >= 2
      BY <2>1, <2>0
    <3>2. Sound(t, None) /\ Closed(t)
      BY <2>1, <2>2, <2>3, <2>4, <3>1, EraseFirst
    <3>. QED
      BY <2>a, <2>1, <3>2 DEF Safe
<1>10. ASSUME mem = 0
       PROVE  Safe(<< e, f >>)
  <2>a. PICK t : t = << e, f >>
    OBVIOUS
  <2>1. t \in Seq(Steps) /\ Len(t) = 2 /\ t[1] = e /\ t[2] = f
    BY <2>a
  <2>0. PICK n \in Nat : n = 2
    OBVIOUS
  <2>2. \A k \in 1 .. n :
          t[k].caught = {} /\ Clean(t[k]) /\ ~ Tells(t[k], "FLASH_SIZE")
    BY <1>1, <1>3, <1>7, <2>1, <2>0
  <2>3. \A k \in 2 .. n - 1 : t[k].do \notin Writes \cup {"decide"}
    BY <2>0
  <2>4. t[1].do # "program" /\ Covers(t[1], t[n])
    BY <1>1, <1>3, <1>10, <2>1, <2>0
  <2>. QED
    <3>1. n = Len(t) /\ n >= 2
      BY <2>1, <2>0
    <3>2. Sound(t, None) /\ Closed(t)
      BY <2>1, <2>2, <2>3, <2>4, <3>1, EraseFirst
    <3>. QED
      BY <2>a, <2>1, <3>2 DEF Safe
<1>. QED
  BY <1>1, <1>2, <1>3, <1>5, <1>6, <1>8, <1>9, <1>10

\* The four properties of the ranges: those of flash are asked only after the size of
\* RAM was told, since a refusal skips the rest.
LEMMA RangesSafe == Safe(get_memory_range)
<1>1. {"RAM_START", "RAM_SIZE", "FLASH_START", "FLASH_SIZE"} \subseteq Tags
  BY DEF Tags
<1>2. ASSUME NEW tag \in Tags, NEW n \in Nat
      PROVE  LET s == Catching(Get(tag), {"refused"}, n)
             IN  s \in Steps /\ s.do = "get" /\ s.arg = tag /\ s.skip = n
  <2>1. Get(tag) \in Steps /\ Get(tag).do = "get" /\ Get(tag).arg = tag
    BY StepType, BlockTypes DEF Get, HostSteps, Writes
  <2>. QED
    BY <2>1 DEF Catching, Steps
<1>3. PICK a \in Steps : a = Catching(Get("RAM_START"), {"refused"}, 3) /\ a.do = "get"
                         /\ a.arg = "RAM_START" /\ a.skip = 3
  BY <1>1, <1>2
<1>4. PICK b \in Steps : b = Catching(Get("RAM_SIZE"), {"refused"}, 2) /\ b.do = "get"
                         /\ b.arg = "RAM_SIZE" /\ b.skip = 2
  BY <1>1, <1>2
<1>5. PICK c \in Steps : c = Catching(Get("FLASH_START"), {"refused"}, 1) /\ c.do = "get"
                         /\ c.arg = "FLASH_START" /\ c.skip = 1
  BY <1>1, <1>2
<1>6. PICK d \in Steps : d = Catching(Get("FLASH_SIZE"), {"refused"}, 0) /\ d.do = "get"
                         /\ d.arg = "FLASH_SIZE" /\ d.skip = 0
  BY <1>1, <1>2
<1>a. PICK t : t = << a, b, c, d >>
  OBVIOUS
<1>7. /\ t \in Seq(Steps) /\ Len(t) = 4
      /\ t[1] = a /\ t[2] = b /\ t[3] = c /\ t[4] = d
  BY <1>a
<1>8. \A k \in 1 .. 4 : Clean(t[k]) /\ ~ Touches(t[k]) /\ k + t[k].skip <= 4
  BY <1>3, <1>4, <1>5, <1>6, <1>7 DEF Clean, Touches, Writes
<1>9. \A k \in 1 .. 3 : ~ Tells(t[k], "FLASH_SIZE")
  BY <1>3, <1>4, <1>5, <1>7 DEF Tells
<1>10. Ahead(t, 2, 4)
  <2>1. \A i \in 1 .. 2 : i + t[i].skip = 4
    BY <1>3, <1>4, <1>7
  <2>. QED
    BY <2>1 DEF Ahead
<1>11. Tells(t[2], "RAM_SIZE")
  BY <1>4, <1>7 DEF Tells, HostSteps
<1>12. ASSUME NEW k \in 1 .. 4
       PROVE  Informed(t, k, None)
  <2>1. CASE k = 4
    <3>1. 2 \in 1 .. k - 1
      BY <2>1
    <3>. QED
      BY <1>10, <1>11, <2>1, <3>1 DEF Informed
  <2>2. CASE k # 4
    <3>1. k \in 1 .. 3
      BY <2>2
    <3>. QED
      BY <1>9, <3>1 DEF Informed
  <2>. QED
    BY <2>1, <2>2
<1>13. \A k \in 1 .. 4 : Ready(t, k)
  BY <1>8 DEF Ready
<1>14. Safe(t)
  BY <1>7, <1>8, <1>12, <1>13 DEF Safe, Sound, Closed
<1>. QED
  BY <1>3, <1>4, <1>5, <1>6, <1>a, <1>14 DEF get_memory_range

\* The methods that change nothing.
LEMMA QuietSafe ==
    /\ Safe(get_mcu_info) /\ Safe(get_exmemory_info) /\ Safe(configure_memory)
    /\ Safe(flash_security_disable) /\ Safe(reset)
    /\ \A why \in Tags \ {"FLASH_SIZE"} : Safe(<< Raise(why) >>) /\ Safe(<< Get(why) >>)
    /\ \A block \in Blocks, mem \in {0, 1} : Safe(read_memory(block, mem))
<1>1. ASSUME NEW s \in Steps, Plain(s), NEW kinds \in SUBSET {"refused", "broken"}
      PROVE  LET c == Catching(s, kinds, 0) IN c \in Steps /\ Plain(c) /\ c.skip = 0
  <2>1. /\ Catching(s, kinds, 0) \in Steps /\ Catching(s, kinds, 0).do = s.do
        /\ Catching(s, kinds, 0).mem = s.mem /\ Catching(s, kinds, 0).block = s.block
        /\ Catching(s, kinds, 0).arg = s.arg /\ Catching(s, kinds, 0).skip = 0
    BY DEF Catching, Steps
  <2>. QED
    BY <1>1, <2>1 DEF Plain, Touches, Clean, Tells
<1>2. {"INFO", "EXTERNAL_MEMORY_ATTRIBUTES", "CONFIGURE_MEMORY", "FLASH_SECURITY_DISABLE",
       "RESET", "argument"} \subseteq Tags \ {"FLASH_SIZE"}
  BY DEF Tags
<1>3. \A why \in Tags \ {"FLASH_SIZE"} :
        Safe(<< Raise(why) >>) /\ Safe(<< Get(why) >>) /\ Safe(<< Command(why) >>)
  BY PlainSteps, PlainSafe
<1>4. /\ Safe(get_exmemory_info) /\ Safe(configure_memory) /\ Safe(flash_security_disable)
  BY <1>2, <1>3 DEF get_exmemory_info, configure_memory, flash_security_disable
<1>5. Safe(reset)
  <2>1. Command("RESET") \in Steps /\ Plain(Command("RESET"))
    BY <1>2, PlainSteps
  <2>2. PICK c \in Steps :
          c = Catching(Command("RESET"), {"refused", "broken"}, 0) /\ Plain(c) /\ c.skip = 0
    BY <1>1, <2>1
  <2>. QED
    BY <2>2, PlainSafe DEF reset
<1>6. Safe(get_mcu_info)
  <2>1. Get("INFO") \in Steps /\ Plain(Get("INFO"))
    BY <1>2, PlainSteps
  <2>2. PICK c \in Steps :
          c = Catching(Get("INFO"), {"refused"}, 0) /\ Plain(c) /\ c.skip = 0
    BY <1>1, <2>1
  <2>3. InfoTags \in Nat
    BY MemoryAssumption
  <2>4. get_mcu_info = [i \in 1 .. InfoTags |-> c]
    BY <2>2 DEF get_mcu_info
  <2>5. get_mcu_info \in Seq(Steps)
    BY <2>3, <2>4, IsASeq
  <2>6. \A k \in DOMAIN get_mcu_info : get_mcu_info[k] = c
    BY <2>4
  <2>. QED
    BY <2>2, <2>5, <2>6, PlainSound DEF Safe
<1>7. \A block \in Blocks, mem \in {0, 1} : Safe(read_memory(block, mem))
  <2>. TAKE block \in Blocks, mem \in {0, 1}
  <2>1. Safe(<< ReadBack(mem, block) >>) /\ Safe(<< Raise("argument") >>)
    BY <1>2, <1>3, PlainSteps, PlainSafe
  <2>. QED
    BY <2>1 DEF read_memory
<1>. QED
  BY <1>3, <1>4, <1>5, <1>6, <1>7

-----------------------------------------------------------------------------
(* The subcommands, when the erasing is left to the tool.                  *)

\* Steps one after the other, in one sequence.
LEMMA Joined ==
    ASSUME NEW S
    PROVE  /\ \A a, b \in S : << a >> \o << b >> = << a, b >>
           /\ \A a, b, c \in S : << a >> \o << b, c >> = << a, b, c >>
<1>1. ASSUME NEW a \in S, NEW b \in S
      PROVE  << a >> \o << b >> = << a, b >>
  <2>1. PICK s \in Seq(S) : s = << a >> /\ Len(s) = 1 /\ s[1] = a
    <3>1. << a >> \in Seq(S) /\ Len(<< a >>) = 1
      OBVIOUS
    <3>. QED
      BY <3>1
  <2>2. PICK t \in Seq(S) : t = << b >> /\ Len(t) = 1 /\ t[1] = b
    <3>1. << b >> \in Seq(S) /\ Len(<< b >>) = 1
      OBVIOUS
    <3>. QED
      BY <3>1
  <2>3. PICK u : u = << a, b >>
    OBVIOUS
  <2>4. u \in Seq(S) /\ Len(u) = 2 /\ u[1] = a /\ u[2] = b
    BY <2>3
  <2>5. PICK v \in Seq(S) : v = s \o t
    BY ConcatProperties
  <2>6. Len(v) = 2 /\ v[1] = a /\ v[2] = b
    BY <2>1, <2>2, <2>5
  <2>7. \A i \in 1 .. Len(u) : u[i] = v[i]
    BY <2>4, <2>6
  <2>8. u = v
    BY <2>4, <2>6, <2>7, SeqEqual
  <2>. QED
    BY <2>1, <2>2, <2>3, <2>5, <2>8
<1>2. ASSUME NEW a \in S, NEW b \in S, NEW c \in S
      PROVE  << a >> \o << b, c >> = << a, b, c >>
  <2>1. PICK s \in Seq(S) : s = << a >> /\ Len(s) = 1 /\ s[1] = a
    <3>1. << a >> \in Seq(S) /\ Len(<< a >>) = 1
      OBVIOUS
    <3>. QED
      BY <3>1
  <2>2. PICK t \in Seq(S) : t = << b, c >> /\ Len(t) = 2 /\ t[1] = b /\ t[2] = c
    <3>1. << b, c >> \in Seq(S) /\ Len(<< b, c >>) = 2
      OBVIOUS
    <3>. QED
      BY <3>1
  <2>3. PICK u : u = << a, b, c >>
    OBVIOUS
  <2>4. u \in Seq(S) /\ Len(u) = 3 /\ u[1] = a /\ u[2] = b /\ u[3] = c
    BY <2>3
  <2>5. PICK v \in Seq(S) : v = s \o t
    BY ConcatProperties
  <2>6. Len(v) = 3 /\ v[1] = a /\ v[2] = b /\ v[3] = c
    BY <2>1, <2>2, <2>5
  <2>7. \A i \in 1 .. Len(u) : u[i] = v[i]
    BY <2>4, <2>6
  <2>8. u = v
    BY <2>4, <2>6, <2>7, SeqEqual
  <2>. QED
    BY <2>1, <2>2, <2>3, <2>5, <2>8
<1>. QED
  BY <1>1, <1>2, Zenon

\* Two steps and two steps.
LEMMA JoinedFour ==
    ASSUME NEW S, NEW a \in S, NEW b \in S, NEW c \in S, NEW d \in S
    PROVE  << a, b >> \o << c, d >> = << a, b, c, d >>
<1>1. PICK s \in Seq(S) : s = << a, b >> /\ Len(s) = 2 /\ s[1] = a /\ s[2] = b
  <2>1. << a, b >> \in Seq(S) /\ Len(<< a, b >>) = 2
    OBVIOUS
  <2>. QED
    BY <2>1
<1>2. PICK t \in Seq(S) : t = << c, d >> /\ Len(t) = 2 /\ t[1] = c /\ t[2] = d
  <2>1. << c, d >> \in Seq(S) /\ Len(<< c, d >>) = 2
    OBVIOUS
  <2>. QED
    BY <2>1
<1>3. PICK u : u = << a, b, c, d >>
  OBVIOUS
<1>4. u \in Seq(S) /\ Len(u) = 4 /\ u[1] = a /\ u[2] = b /\ u[3] = c /\ u[4] = d
  BY <1>3
<1>5. PICK v \in Seq(S) : v = s \o t
  BY ConcatProperties
<1>6. Len(v) = 4 /\ v[1] = a /\ v[2] = b /\ v[3] = c /\ v[4] = d
  BY <1>1, <1>2, <1>5
<1>7. \A i \in 1 .. Len(u) : u[i] = v[i]
  BY <1>4, <1>6
<1>8. u = v
  BY <1>4, <1>6, <1>7, SeqEqual
<1>. QED
  BY <1>1, <1>2, <1>3, <1>5, <1>8

\* The configuration words go to RAM.
LEMMA SetupSafe ==
    ASSUME TypeInv, AutoErase, NEW name \in inv.given
    PROVE  Safe(Setup(Arg(name)))
<1>1. name \in Subcommands
  BY ArgTypes, InvocationsAssumption DEF TypeInv
<1>2. PICK start \in Nat, words \in Nat :
         Arg(name).exconf.start = start /\ Arg(name).exconf.words = words
  BY <1>1, ArgTypes
<1>3. CASE Arg(name).mem # 0 /\ Arg(name).exconf.given
  <2>. DEFINE word(i) == Block(start + 4 * (i - 1), start + 4 * i)
  <2>1. ExconfCells(Arg(name)) = Points(Block(start, start + 4 * words))
    BY <1>2, <1>3 DEF ExconfCells
  <2>2. Points(Block(start, start + 4 * words)) \cap Points(Flash) = {}
    BY <2>1 DEF AutoErase
  <2>3. ASSUME NEW i \in 1 .. words
        PROVE  Config(word(i)) \in Steps /\ Plain(Config(word(i)))
               /\ Config(word(i)).caught = {}
    <3>1. word(i) \in Blocks
      BY DEF Block, Blocks
    <3>2. Points(word(i)) \subseteq Points(Block(start, start + 4 * words))
      BY DEF Points, Block
    <3>3. Points(word(i)) \cap Points(Flash) = {}
      BY <2>2, <3>2
    <3>. HIDE DEF word
    <3>. QED
      BY <3>1, <3>3, PlainWrites
  <2>4. PICK t : t = [i \in 1 .. words |-> Config(word(i))]
    OBVIOUS
  <2>5. t \in Seq(Steps)
    <3>. HIDE DEF word
    <3>. QED
      BY <2>3, <2>4, IsASeq
  <2>6. \A k \in DOMAIN t : Plain(t[k]) /\ t[k].caught = {}
    <3>. HIDE DEF word
    <3>. QED
      BY <2>3, <2>4
  <2>7. Safe(t)
    BY <2>5, <2>6, PlainSound DEF Safe
  <2>8. setup_external_memory(Arg(name).exconf) = t \o configure_memory
    BY <1>2, <2>4 DEF setup_external_memory
  <2>. QED
    BY <1>2, <1>3, <2>7, <2>8, QuietSafe, SafeConcat DEF Setup
<1>4. CASE ~(Arg(name).mem # 0 /\ Arg(name).exconf.given)
  BY <1>2, <1>4, SafeConcat DEF Setup
<1>. QED
  BY <1>3, <1>4

\* What is found in RAM is not in flash: the range of flash is known by then, and that
\* of RAM with it.
LEMMA OnlyRam ==
    ASSUME TypeInv, Ordered, NEW block \in Blocks,
           ~ IsIn(block, flash), IsIn(block, memory)
    PROVE  Points(block) \cap Points(Flash) = {}
<1>1. None.length = 0
  BY DEF None
<1>2. flash # None
  BY <1>1 DEF IsIn
<1>3. memory = Ram /\ Ram.length # 0
  BY <1>2 DEF Ordered, TypeInv
<1>4. Contains(Ram, block)
  BY <1>3 DEF IsIn
<1>5. Ram \in Blocks /\ Points(Flash) \cap Points(Ram) = {}
  BY MemoryAssumption
<1>6. Points(block) \subseteq Points(Ram)
  BY <1>4, <1>5 DEF Contains, Points, Blocks
<1>. QED
  BY <1>5, <1>6

\* write erases what it writes, or writes to RAM.
LEMMA WriteSafe ==
    ASSUME TypeInv, AutoErase, Ordered, "write" \in inv.given
    PROVE  Safe(write(Arg("write"), memory, flash))
<1>. DEFINE a == Arg("write")
<1>1. a.block \in Blocks /\ a.mem \in {0, 1} /\ ~ a.noErase
  BY ArgTypes DEF Subcommands, AutoErase
<1>2. Safe(Setup(a))
  BY SetupSafe
<1>3. {"RAM_START", "MAX_PACKET_SIZE", "argument", "range"} \subseteq Tags \ {"FLASH_SIZE"}
  BY DEF Tags
<1>4. Safe(<< Raise("argument") >>) /\ Safe(<< Raise("range") >>)
  BY <1>3, QuietSafe
<1>5. /\ Safe(<< Get("RAM_START") >>)
      /\ Get("RAM_START") \in Steps
      /\ Get("MAX_PACKET_SIZE") \in Steps /\ Plain(Get("MAX_PACKET_SIZE"))
      /\ Get("MAX_PACKET_SIZE").caught = {}
  BY <1>3, QuietSafe, PlainSteps
<1>. HIDE DEF a
<1>6. PICK e \in Steps : e = Erase(a.mem, a.block)
  BY <1>1, PlainWrites
<1>7. PICK p \in Steps : p = Program(a.mem, a.block) /\ p.caught = {}
  BY <1>1, PlainWrites
<1>8. PICK g \in Steps : g = Get("MAX_PACKET_SIZE") /\ Plain(g) /\ g.caught = {}
  BY <1>5
<1>9. PICK r \in Steps : r = Get("RAM_START")
  BY <1>5
<1>10. CASE a.block.length = 0
  <2>1. write(a, memory, flash) = << Raise("argument") >>
    BY <1>10, Zenon DEF write
  <2>. QED
    BY <1>4, <2>1 DEF a
<1>11. CASE a.block.length # 0
  <2>1. write_memory(a.block, a.mem) = << g, p >>
    BY <1>7, <1>8, <1>11 DEF write_memory
  <2>2. flash_erase_region(a.block, a.mem) = << e >>
    BY <1>6 DEF flash_erase_region
  <2>3. Safe(<< e, g, p >>) /\ Safe(<< e, r, g, p >>)
    BY <1>1, <1>6, <1>7, <1>8, <1>9, EraseProgramSafe
  <2>4. CASE a.mem # 0
    <3>1. write(a, memory, flash) = (Setup(a) \o << e >>) \o << g, p >>
      BY <1>1, <1>11, <2>1, <2>2, <2>4, Zenon DEF write
    <3>2. (Setup(a) \o << e >>) \o << g, p >> = Setup(a) \o (<< e >> \o << g, p >>)
      BY <1>2, ConcatAssociative DEF Safe
    <3>3. << e >> \o << g, p >> = << e, g, p >>
      BY Joined, Zenon
    <3>4. Safe(Setup(a) \o << e, g, p >>)
      BY <1>2, <2>3, SafeConcat
    <3>. QED
      BY <3>1, <3>2, <3>3, <3>4 DEF a
  <2>5. CASE a.mem = 0 /\ IsIn(a.block, flash)
    <3>1. write(a, memory, flash) = (<< e >> \o << r >>) \o << g, p >>
      BY <1>1, <1>9, <1>11, <2>1, <2>2, <2>5, Zenon DEF write
    <3>2. << e >> \o << r >> = << e, r >>
      BY Joined, Zenon
    <3>3. << e, r >> \o << g, p >> = << e, r, g, p >>
      BY JoinedFour, Zenon
    <3>. QED
      BY <2>3, <3>1, <3>2, <3>3 DEF a
  <2>6. CASE a.mem = 0 /\ ~ IsIn(a.block, flash) /\ IsIn(a.block, memory)
    <3>1. write(a, memory, flash) = << r >> \o << g, p >>
      BY <1>9, <1>11, <2>1, <2>6, Zenon DEF write
    <3>2. Points(a.block) \cap Points(Flash) = {}
      BY <1>1, <2>6, OnlyRam
    <3>3. Plain(p)
      BY <1>1, <1>7, <2>6, <3>2, PlainWrites
    <3>4. Safe(<< g, p >>)
      BY <1>7, <1>8, <3>3, PlainSafe
    <3>. QED
      BY <1>5, <1>9, <3>1, <3>4, SafeConcat DEF a
  <2>7. CASE a.mem = 0 /\ ~ IsIn(a.block, flash) /\ ~ IsIn(a.block, memory)
    <3>1. write(a, memory, flash) = << Raise("range") >>
      BY <1>11, <2>7, Zenon DEF write
    <3>. QED
      BY <1>4, <3>1 DEF a
  <2>. QED
    BY <2>4, <2>5, <2>6, <2>7
<1>. QED
  BY <1>10, <1>11

\* fill erases at least what it fills, or fills RAM.
LEMMA FillSafe ==
    ASSUME TypeInv, AutoErase, Ordered, "fill" \in inv.given
    PROVE  Safe(fill(Arg("fill"), memory, flash))
<1>. DEFINE a == Arg("fill")
<1>1. a.block \in Blocks /\ ~ a.noErase
  BY ArgTypes DEF Subcommands, AutoErase
<1>2. FillBlock(a.block) \in Blocks /\ Points(a.block) \subseteq Points(FillBlock(a.block))
  <2>1. PICK b \in Blocks : b = a.block
    BY <1>1
  <2>2. /\ b.start \in Nat /\ b.end \in Nat /\ b.length \in Nat
        /\ b.end = b.start + b.length
    BY DEF Blocks
  <2>3. FillBlock(b) \in Blocks /\ Points(b) \subseteq Points(FillBlock(b))
    BY <2>2 DEF FillBlock, Block, Blocks, Points
  <2>. QED
    BY <2>1, <2>3
<1>3. Safe(<< Raise("argument") >>) /\ Safe(<< Raise("range") >>)
  BY QuietSafe DEF Tags
<1>. HIDE DEF a
<1>4. PICK e \in Steps : e = Erase(0, FillBlock(a.block))
  BY <1>2, PlainWrites
<1>5. PICK f \in Steps : f = Fill(a.block) /\ f.caught = {}
  BY <1>1, PlainWrites
<1>6. Safe(<< e, f >>)
  BY <1>1, <1>2, <1>4, <1>5, EraseProgramSafe
<1>7. Plain(e) /\ e.caught = {}
  BY <1>2, <1>4, PlainWrites
<1>8. Safe(<< e >>)
  BY <1>7, PlainSafe
<1>9. fill_memory(a.block, a.unitMatches) =
        IF a.unitMatches THEN << f >> ELSE << Raise("argument") >>
  BY <1>5 DEF fill_memory
<1>10. fill(a, memory, flash) =
         IF a.block.length = 0 THEN << Raise("argument") >>
         ELSE IF IsIn(FillBlock(a.block), flash)
         THEN << e >> \o fill_memory(a.block, a.unitMatches)
         ELSE IF IsIn(FillBlock(a.block), memory)
         THEN fill_memory(a.block, a.unitMatches)
         ELSE << Raise("range") >>
  BY <1>1, <1>4, Zenon DEF fill, flash_erase_region
<1>11. Safe(<< e >> \o fill_memory(a.block, a.unitMatches))
  <2>1. << e >> \o << f >> = << e, f >>
    BY Joined, Zenon
  <2>2. Safe(<< e >> \o << Raise("argument") >>)
    BY <1>3, <1>8, SafeConcat
  <2>. QED
    BY <1>6, <1>9, <2>1, <2>2
<1>12. ASSUME ~ IsIn(FillBlock(a.block), flash), IsIn(FillBlock(a.block), memory)
       PROVE  Safe(fill_memory(a.block, a.unitMatches))
  <2>1. Points(a.block) \cap Points(Flash) = {}
    BY <1>2, <1>12, OnlyRam
  <2>2. Plain(f)
    BY <1>1, <1>5, <2>1, PlainWrites
  <2>3. Safe(<< f >>)
    BY <1>5, <2>2, PlainSafe
  <2>. QED
    BY <1>3, <1>9, <2>3
<1>. QED
  BY <1>3, <1>10, <1>11, <1>12 DEF a

\* info, read, erase and unlock program nothing but the configuration words.
LEMMA OthersSafe ==
    ASSUME TypeInv, AutoErase
    PROVE  /\ "info" \in inv.given => Safe(info(Arg("info")))
           /\ "read" \in inv.given => Safe(read(Arg("read"), memory, flash))
           /\ "erase" \in inv.given => Safe(erase(Arg("erase")))
           /\ "unlock" \in inv.given => Safe(unlock(Arg("unlock")))
<1>1. "info" \in inv.given => Safe(info(Arg("info")))
  BY SetupSafe, QuietSafe, SafeConcat DEF info
<1>2. {"argument", "range", "unsupported", "AVAILABLE_COMMANDS"} \subseteq Tags \ {"FLASH_SIZE"}
  BY DEF Tags
<1>3. /\ Safe(<< Raise("argument") >>) /\ Safe(<< Raise("range") >>)
      /\ Safe(<< Raise("unsupported") >>) /\ Safe(<< Get("AVAILABLE_COMMANDS") >>)
  BY <1>2, QuietSafe
<1>4. ASSUME "read" \in inv.given
      PROVE  Safe(read(Arg("read"), memory, flash))
  <2>1. Arg("read").block \in Blocks /\ Arg("read").mem \in {0, 1}
    BY ArgTypes DEF Subcommands
  <2>2. /\ Safe(read_memory(Arg("read").block, Arg("read").mem))
        /\ Safe(read_memory(Arg("read").block, 0))
    BY <2>1, QuietSafe
  <2>3. Safe(Setup(Arg("read")) \o read_memory(Arg("read").block, Arg("read").mem))
    BY <1>4, <2>2, SetupSafe, SafeConcat
  <2>. QED
    BY <1>3, <2>2, <2>3 DEF read
<1>5. \A mem \in {0, 1} :
        /\ Safe(flash_erase_all(mem)) /\ Safe(flash_erase_all_unsecure)
        /\ \A block \in Blocks : Safe(flash_erase_region(block, mem))
  <2>. TAKE mem \in {0, 1}
  <2>1. \A block \in Blocks : Safe(<< Erase(mem, block) >>)
    BY PlainWrites, PlainSafe
  <2>2. Safe(<< EraseAll(mem) >>) /\ Safe(<< EraseAll(0) >>)
    BY BlockTypes, PlainWrites, PlainSafe
  <2>. QED
    BY <2>1, <2>2 DEF flash_erase_all, flash_erase_all_unsecure, flash_erase_region
<1>6. ASSUME "erase" \in inv.given
      PROVE  Safe(erase(Arg("erase")))
  <2>. DEFINE a == Arg("erase")
  <2>1. a.block \in Blocks /\ a.mem \in {0, 1} /\ Safe(Setup(a))
    BY <1>6, ArgTypes, SetupSafe DEF Subcommands
  <2>. HIDE DEF a
  <2>2. PICK mass : mass = IF "FLASH_ERASE_ALL_UNSECURE" \in Available /\ a.mem = 0
                           THEN flash_erase_all_unsecure
                           ELSE IF "FLASH_ERASE_ALL" \in Available THEN flash_erase_all(a.mem)
                           ELSE << Raise("unsupported") >>
    OBVIOUS
  <2>3. Safe(mass) /\ Safe(flash_erase_region(a.block, a.mem))
    BY <1>3, <1>5, <2>1, <2>2
  <2>4. erase(a) = IF ~ a.address /\ ~ a.all THEN << Raise("argument") >>
                   ELSE Setup(a) \o (IF ~ a.all THEN flash_erase_region(a.block, a.mem)
                                     ELSE << Get("AVAILABLE_COMMANDS") >> \o mass)
    BY <2>2, Zenon DEF erase
  <2>5. /\ Safe(Setup(a) \o flash_erase_region(a.block, a.mem))
        /\ Safe(Setup(a) \o (<< Get("AVAILABLE_COMMANDS") >> \o mass))
    BY <1>3, <2>1, <2>3, SafeConcat
  <2>. QED
    BY <1>3, <2>4, <2>5 DEF a
<1>7. Safe(unlock(Arg("unlock")))
  BY <1>5, QuietSafe DEF unlock
<1>. QED
  BY <1>1, <1>4, <1>6, <1>7

\* A decision is replaced by steps that erase before they program.
LEMMA ExpandSafe ==
    ASSUME TypeInv, AutoErase, Ordered, NEW name \in inv.given \ {"reset"}
    PROVE  Safe(Expand(name, Arg(name)))
<1>1. name \in Subcommands \ {"reset"}
  BY ArgTypes, InvocationsAssumption DEF TypeInv
<1>2. CASE name = "info"
  <2>1. Expand(name, Arg(name)) = info(Arg("info"))
    BY <1>2, Zenon DEF Expand
  <2>. QED
    BY <1>2, <2>1, OthersSafe
<1>3. CASE name = "write"
  <2>1. Expand(name, Arg(name)) = write(Arg("write"), memory, flash)
    BY <1>3, Zenon DEF Expand
  <2>. QED
    BY <1>3, <2>1, WriteSafe
<1>4. CASE name = "read"
  <2>1. Expand(name, Arg(name)) = read(Arg("read"), memory, flash)
    BY <1>4, Zenon DEF Expand
  <2>. QED
    BY <1>4, <2>1, OthersSafe
<1>5. CASE name = "fill"
  <2>1. Expand(name, Arg(name)) = fill(Arg("fill"), memory, flash)
    BY <1>5, Zenon DEF Expand
  <2>. QED
    BY <1>5, <2>1, FillSafe
<1>6. CASE name = "erase"
  <2>1. Expand(name, Arg(name)) = erase(Arg("erase"))
    BY <1>6, Zenon DEF Expand
  <2>. QED
    BY <1>6, <2>1, OthersSafe
<1>7. CASE name = "unlock"
  <2>1. Expand(name, Arg(name)) = unlock(Arg("unlock"))
    BY <1>7, Zenon DEF Expand
  <2>. QED
    BY <1>7, <2>1, OthersSafe
<1>. QED
  BY <1>1, <1>2, <1>3, <1>4, <1>5, <1>6, <1>7 DEF Subcommands

\* What main does for one subcommand asks for the ranges before it decides.
LEMMA SubcommandSafe ==
    ASSUME NEW name \in Subcommands
    PROVE  Safe(Subcommand(name))
<1>1. /\ Safe(<< Decide(name), Say(name) >>) /\ Safe(<< Decide(name) >>)
      /\ Safe(<< Say(name) >>)
  BY PlainSteps, PlainSafe
<1>2. /\ Safe(get_memory_range \o << Decide(name), Say(name) >>)
      /\ Safe(get_memory_range \o << Decide(name) >>) /\ Safe(reset \o << Say(name) >>)
  BY <1>1, RangesSafe, QuietSafe, SafeConcat
<1>3. CASE name \in {"write", "fill"}
  BY <1>2, <1>3, Zenon DEF Subcommand
<1>4. CASE name = "read"
  BY <1>2, <1>4, Zenon DEF Subcommand
<1>5. CASE name = "info"
  BY <1>1, <1>5, Zenon DEF Subcommand
<1>6. CASE name = "reset"
  BY <1>2, <1>6, Zenon DEF Subcommand
<1>7. CASE name = "erase"
  BY <1>1, <1>7, Zenon DEF Subcommand
<1>8. CASE name = "unlock"
  BY <1>1, <1>8, Zenon DEF Subcommand
<1>. QED
  BY <1>3, <1>4, <1>5, <1>6, <1>7, <1>8 DEF Subcommands

\* main, whatever it was given.
LEMMA MainSafe == Safe(main(inv.given))
<1>. DEFINE If(name) == IF name \in inv.given THEN Subcommand(name) ELSE << >>
<1>1. \A name \in Subcommands : Safe(If(name))
  BY SubcommandSafe, SafeConcat
<1>2. main(inv.given) = If("info") \o If("write") \o If("read") \o If("fill")
                        \o If("erase") \o If("unlock") \o If("reset")
  BY DEF main
<1>. HIDE DEF If
<1>3. /\ Safe(If("info")) /\ Safe(If("write")) /\ Safe(If("read")) /\ Safe(If("fill"))
      /\ Safe(If("erase")) /\ Safe(If("unlock")) /\ Safe(If("reset"))
  BY <1>1 DEF Subcommands
<1>. QED
  BY <1>2, <1>3, SafeConcat

\* The method of -o erases whole sectors, the block it programs among them.
LEMMA OriginSafe ==
    ASSUME inv \in Invocations, AutoErase
    PROVE  Safe(inv.origin)
<1>1. CASE inv.origin = << >>
  BY <1>1, SafeConcat
<1>2. CASE inv.origin # << >>
  <2>1. inv.origin \in Seq({s \in Steps : s.do \notin {"decide", "say"}})
    BY InvocationsAssumption
  <2>2. \E j \in DOMAIN inv.origin : inv.origin[j].do = "erase"
    BY <1>2 DEF AutoErase
  <2>3. \E k \in DOMAIN inv.origin :
           \/ inv.origin = flash_erase_region(inv.origin[k].block, inv.origin[k].mem)
           \/ inv.origin = flash_image(inv.origin[k].block, "erase", inv.origin[k].mem)
    BY <2>2, InvocationsAssumption
  <2>4. PICK s \in Steps :
           \/ inv.origin = flash_erase_region(s.block, s.mem)
           \/ inv.origin = flash_image(s.block, "erase", s.mem)
    BY <2>1, <2>3
  <2>5. PICK block \in Blocks, mem \in {0, 1} :
           \/ inv.origin = flash_erase_region(block, mem)
           \/ inv.origin = flash_image(block, "erase", mem)
    BY <2>4 DEF Steps
  <2>6. CASE inv.origin = flash_erase_region(block, mem)
    BY <2>6, PlainWrites, PlainSafe DEF flash_erase_region
  <2>7. CASE inv.origin = flash_image(block, "erase", mem)
    <3>1. CASE block.length = 0
      <4>1. flash_image(block, "erase", mem) = << Raise("argument") >>
        BY <3>1 DEF flash_image
      <4>. QED
        BY <2>7, <4>1, QuietSafe DEF Tags
    <3>2. CASE block.length # 0
      <4>1. /\ block.start \in Nat /\ block.end \in Nat /\ block.length \in Nat
            /\ block.end = block.start + block.length
        BY DEF Blocks
      <4>2. PICK n \in Nat : n = AlignUp(block.length, SectorSize) /\ block.length <= n
        BY <4>1, AlignUpCovers, MemoryAssumption
      <4>3. PICK rounded : rounded = Block(block.start, block.start + n)
        OBVIOUS
      <4>4. rounded \in Blocks /\ Points(block) \subseteq Points(rounded)
        BY <4>1, <4>2, <4>3 DEF Block, Blocks, Points
      <4>5. Safe(<< Erase(mem, rounded), Get("MAX_PACKET_SIZE"), Program(mem, block) >>)
        BY <4>4, EraseProgramSafe
      <4>6. Safe(<< Get("FLASH_SECTOR_SIZE") >>)
        BY QuietSafe DEF Tags
      <4>7. PICK g \in Steps, e \in Steps, m \in Steps, p \in Steps :
              /\ g = Get("FLASH_SECTOR_SIZE") /\ e = Erase(mem, rounded)
              /\ m = Get("MAX_PACKET_SIZE") /\ p = Program(mem, block)
        <5>1. {"FLASH_SECTOR_SIZE", "MAX_PACKET_SIZE"} \subseteq Tags \ {"FLASH_SIZE"}
          BY DEF Tags
        <5>2. Get("FLASH_SECTOR_SIZE") \in Steps /\ Get("MAX_PACKET_SIZE") \in Steps
          BY <5>1, PlainSteps
        <5>3. Erase(mem, rounded) \in Steps /\ Program(mem, block) \in Steps
          BY <4>4, PlainWrites
        <5>. QED
          BY <5>2, <5>3
      <4>8. inv.origin = << g, e >> \o << m, p >>
        BY <2>7, <3>2, <4>2, <4>3, <4>7 DEF flash_image
      <4>9. << g, e >> \o << m, p >> = << g >> \o << e, m, p >>
        <5>1. << g >> \in Seq(Steps) /\ << e >> \in Seq(Steps) /\ << m, p >> \in Seq(Steps)
          OBVIOUS
        <5>2. << g >> \o << e >> = << g, e >> /\ << e >> \o << m, p >> = << e, m, p >>
          BY Joined, Zenon
        <5>3. (<< g >> \o << e >>) \o << m, p >> = << g >> \o (<< e >> \o << m, p >>)
          BY <5>1, ConcatAssociative
        <5>. QED
          BY <5>2, <5>3, Zenon
      <4>10. Safe(<< g >> \o << e, m, p >>)
        BY <4>5, <4>6, <4>7, SafeConcat
      <4>. QED
        BY <4>8, <4>9, <4>10
    <3>. QED
      BY <3>1, <3>2
  <2>. QED
    BY <2>5, <2>6, <2>7
<1>. QED
  BY <1>1, <1>2

-----------------------------------------------------------------------------
(* The device.                                                             *)

\* What a step that is done, or a part of it, leaves in each cell.
LEMMA DoesCells ==
    ASSUME TypeInv, NEW step \in Steps, NEW n, Does(step, n)
    PROVE  \A mem \in {0, 1}, a \in Addr :
              \/ content'[mem][a] = content[mem][a] /\ (mem # step.mem \/ a \notin Reached(step, n))
              \/ /\ mem = step.mem /\ a \in Reached(step, n)
                 /\ \/ content'[mem][a] = step.arg
                    \/ /\ step.do = "program" /\ a \in FlashCells(mem)
                       /\ content[mem][a] # "erased"
<1>1. PICK R : R = Reached(step, n)
  OBVIOUS
<1>2. PICK F : F = FlashCells(step.mem)
  OBVIOUS
<1>3. step.mem \in {0, 1}
  BY DEF Steps
<1>4. content \in [{0, 1} -> [Addr -> Contents]]
  BY DEF TypeInv
<1>5. content' = [content EXCEPT ![step.mem] = [a \in Addr |->
                    IF a \notin R THEN content[step.mem][a]
                    ELSE IF step.do = "program" /\ a \in F /\ content[step.mem][a] # "erased"
                    THEN "spoilt" ELSE step.arg]]
  BY <1>1, <1>2 DEF Does
<1>. QED
  BY <1>1, <1>2, <1>3, <1>4, <1>5

\* A step that does not write leaves the memories as they are.
LEMMA DoesQuiet ==
    ASSUME TypeInv, NEW step \in Fits, NEW n \in 0 .. Size(step), Does(step, n),
           step.do \notin Writes, Kept, inv' = inv
    PROVE  content' = content
<1>1. Reached(step, n) = {} /\ step \in Steps
  BY ReachedCells DEF Fits
<1>2. content \in [{0, 1} -> [Addr -> Contents]]
  BY DEF TypeInv
<1>3. content' \in [{0, 1} -> [Addr -> Contents]]
  BY DoesKept
<1>4. \A mem \in {0, 1}, a \in Addr : content'[mem][a] = content[mem][a]
  BY <1>1, DoesCells
<1>5. \A mem \in {0, 1} : content'[mem] = content[mem]
  BY <1>2, <1>3, <1>4
<1>. QED
  BY <1>2, <1>3, <1>5

\* Flash is in the address range.
LEMMA FlashInside == \A mem : FlashCells(mem) \subseteq Addr
BY MemoryAssumption DEF FlashCells, Addr

\* An erase that is done erases what it covers.
LEMMA DoesErase ==
    ASSUME TypeInv, NEW e \in Steps, NEW s \in Steps, Covers(e, s), Does(e, Size(e))
    PROVE  Erased(s, content')
<1>1. SUFFICES ASSUME NEW a \in Points(s.block) \cap FlashCells(s.mem)
               PROVE  content'[s.mem][a] = "erased"
  BY DEF Erased
<1>2. e.do = "erase" /\ e.arg = "erased" /\ e.mem = s.mem /\ a \in Points(e.block)
  BY DEF Covers
<1>3. e.block \in Blocks /\ s.mem \in {0, 1}
  BY DEF Steps
<1>4. PICK part : part = Points(Block(e.block.start, e.block.start + Size(e)))
  OBVIOUS
<1>5. a \in part
  <2>1. PICK b \in Blocks : b = e.block
    BY <1>3
  <2>2. Size(e) = b.length
    BY <1>2, <2>1 DEF Size
  <2>3. /\ b.start \in Nat /\ b.end \in Nat /\ b.length \in Nat
        /\ b.end = b.start + b.length
    BY DEF Blocks
  <2>4. Points(Block(b.start, b.start + b.length)) = Points(b)
    BY <2>3 DEF Points, Block
  <2>. QED
    BY <1>2, <1>4, <2>1, <2>2, <2>4
<1>6. a \in Addr
  BY FlashInside
<1>7. a \in Reached(e, Size(e))
  <2>1. Reached(e, Size(e)) = Sectors(part) \cap FlashCells(e.mem)
    BY <1>2, <1>4, Zenon DEF Reached
  <2>2. a \in Sectors(part)
    BY <1>5, <1>6, OwnSector
  <2>. QED
    BY <1>2, <2>1, <2>2
<1>. QED
  BY <1>2, <1>3, <1>6, <1>7, DoesCells

\* A step spoils nothing, if the flash it programs is erased.
LEMMA DoesClean ==
    ASSUME TypeInv, NEW step \in Steps, NEW n \in 0 .. Size(step), Does(step, n),
           Unspoilt(content), Clean(step), step.do = "program" => Erased(step, content)
    PROVE  Unspoilt(content')
<1>1. SUFFICES ASSUME NEW mem \in {0, 1}, NEW a \in Addr
               PROVE  content'[mem][a] # "spoilt"
  BY DEF Unspoilt
<1>2. content[mem][a] # "spoilt"
  BY DEF Unspoilt
<1>3. ASSUME mem = step.mem, a \in Reached(step, n)
      PROVE  step.arg # "spoilt" /\ (step.do = "program" => a \in Points(step.block))
  <2>1. step.do \in Writes
    BY <1>3, ReachedCells
  <2>2. ASSUME step.do = "program"
        PROVE  a \in Points(step.block)
    <3>1. a \in Points(Block(step.block.start, step.block.start + n))
      BY <1>3, <2>2, ReachedCells
    <3>2. PICK b \in Blocks : b = step.block
      BY DEF Steps
    <3>3. n \in 0 .. b.length /\ b.end = b.start + b.length
          /\ b.start \in Nat /\ b.length \in Nat
      BY <2>2, <3>2 DEF Size, Blocks
    <3>4. Points(Block(b.start, b.start + n)) \subseteq Points(b)
      BY <3>3 DEF Points, Block
    <3>. QED
      BY <3>1, <3>2, <3>4
  <2>. QED
    BY <2>1, <2>2 DEF Clean
<1>4. CASE content'[mem][a] = content[mem][a]
  BY <1>2, <1>4
<1>5. CASE mem = step.mem /\ a \in Reached(step, n) /\ content'[mem][a] = step.arg
  BY <1>3, <1>5
<1>6. CASE /\ mem = step.mem /\ a \in Reached(step, n) /\ step.do = "program"
           /\ a \in FlashCells(mem) /\ content[mem][a] # "erased"
  BY <1>3, <1>6 DEF Erased
<1>. QED
  BY <1>4, <1>5, <1>6, DoesCells

-----------------------------------------------------------------------------
(* The invariant holds.                                                    *)

\* Whether the tool is to erase depends on the command line alone.
LEMMA AutoEraseConstant ==
    ASSUME inv' = inv
    PROVE  AutoErase' = AutoErase
<1>1. \A name : ExconfCells(Arg(name))' = ExconfCells(Arg(name))
  BY Zenon DEF ExconfCells, Arg
<1>2. \A name : Arg(name)' = Arg(name)
  BY DEF Arg
<1>. QED
  BY <1>1, <1>2 DEF AutoErase

\* A run begins with steps that erase before they program.
LEMMA InitSpoil == Init => SpoilInv
<1>. SUFFICES ASSUME Init, AutoErase
              PROVE  Orderly(todo, content, memory) /\ Ordered /\ Unspoilt(content)
  BY DEF SpoilInv
<1>1. Safe(todo)
  BY MainSafe, OriginSafe, SafeConcat DEF Init
<1>2. Orderly(todo, content, memory)
  BY <1>1, SoundOrderly DEF Safe
<1>3. Ordered /\ Unspoilt(content)
  BY DEF Init, Ordered, Unspoilt
<1>. QED
  BY <1>2, <1>3

\* The step whose turn it is finds erased what it programs.
LEMMA HeadReady ==
    ASSUME NEW t \in Seq(Steps), t # << >>, NEW c, NEW m, Orderly(t, c, m)
    PROVE  /\ Clean(t[1])
           /\ t[1].do = "program" => Erased(t[1], c)
           /\ Tells(t[1], "FLASH_SIZE") => m # None
<1>1. Clean(t[1]) /\ Informed(t, 1, m) /\ (Ready(t, 1) \/ Erased(t[1], c))
  BY DEF Orderly
<1>2. ASSUME t[1].do = "program"
      PROVE  Erased(t[1], c)
  <2>1. CASE Erased(t[1], c)
    BY <2>1
  <2>2. CASE Ready(t, 1)
    <3>1. ~ Touches(t[1])
      BY <2>2 DEF Ready
    <3>. QED
      BY <1>2, <3>1 DEF Touches, Erased
  <2>. QED
    BY <1>1, <2>1, <2>2
<1>3. Tells(t[1], "FLASH_SIZE") => m # None
  BY <1>1 DEF Informed
<1>. QED
  BY <1>1, <1>2, <1>3

\* The answers about the ranges come in order.
LEMMA LearnOrdered ==
    ASSUME TypeInv, Ordered, NEW step \in Steps, Learn(step), step.do \notin HostSteps,
           Tells(step, "FLASH_SIZE") => memory # None
    PROVE  /\ Ordered'
           /\ memory # None => memory' # None
           /\ todo' = << >> \/ todo' = Tail(todo)
           /\ todo' = << >> \/ (Tells(step, "RAM_SIZE") => memory' # None)
<1>1. None.length = 0
  BY DEF None
<1>2. CASE step.arg \notin {"RAM_SIZE", "FLASH_SIZE"}
  <2>1. todo' = Tail(todo) /\ memory' = memory /\ flash' = flash
    BY <1>2 DEF Learn
  <2>. QED
    BY <1>2, <2>1 DEF Ordered, Tells
<1>3. CASE step.arg = "RAM_SIZE"
  <2>1. CASE MemoryBlock(Ram.start, 0, Ram.length) = None
    <3>1. todo' = << >> /\ memory' = memory /\ flash' = flash
      BY <1>3, <2>1 DEF Learn, Stop
    <3>. QED
      BY <3>1 DEF Ordered
  <2>2. CASE MemoryBlock(Ram.start, 0, Ram.length) # None
    <3>1. todo' = Tail(todo) /\ memory' = Ram /\ flash' = flash
      BY <1>3, <2>2 DEF Learn
    <3>2. Ram.length # 0
      BY <2>2 DEF MemoryBlock
    <3>. QED
      BY <1>1, <3>1, <3>2 DEF Ordered
  <2>. QED
    BY <2>1, <2>2
<1>4. CASE step.arg = "FLASH_SIZE"
  <2>1. memory' = memory /\ (todo' = << >> \/ todo' = Tail(todo))
    BY <1>4 DEF Learn, Stop
  <2>2. memory # None
    BY <1>4 DEF Tells
  <2>3. Ordered'
    BY <2>1, <2>2 DEF Ordered
  <2>. QED
    BY <1>4, <2>1, <2>2, <2>3 DEF Tells
<1>. QED
  BY <1>2, <1>3, <1>4

\* A step that is done leaves steps that rely on nothing that was not done.
LEMMA OkSpoil == CliInv /\ SpoilInv /\ AutoErase /\ CallOk => SpoilInv'
<1>. SUFFICES ASSUME CliInv, SpoilInv, AutoErase, CallOk
              PROVE  Orderly(todo', content', memory') /\ Ordered' /\ Unspoilt(content')
  BY DEF SpoilInv
<1>1. Orderly(todo, content, memory) /\ Ordered /\ Unspoilt(content)
  BY DEF SpoilInv
<1>2. PICK step \in Fits :
        /\ step = Head(todo) /\ Does(step, Size(step)) /\ Learn(step)
        /\ step.do \notin HostSteps
        /\ inv' = inv /\ todo # << >>
  BY Rest DEF CallOk, CliInv
<1>3. step \in Steps /\ Size(step) \in 0 .. Size(step) /\ TypeInv /\ Kept
  <2>1. step \in Steps /\ TypeInv /\ Kept
    BY <1>2 DEF Fits, CliInv
  <2>2. Size(step) \in Nat
    BY <2>1 DEF Steps, Size, Blocks
  <2>. QED
    BY <2>1, <2>2
<1>4. PICK t \in Seq(Steps) : t = todo /\ t # << >> /\ t[1] = step
  <2>1. todo \in Seq(Fits) /\ Fits \subseteq Steps
    BY <1>3 DEF TypeInv, Fits
  <2>2. todo \in Seq(Steps)
    BY <2>1, SeqMonotonic
  <2>. QED
    BY <1>2, <2>2
<1>5. /\ Clean(step)
      /\ step.do = "program" => Erased(step, content)
      /\ Tells(step, "FLASH_SIZE") => memory # None
  BY <1>1, <1>4, HeadReady
<1>6. Unspoilt(content')
  BY <1>1, <1>2, <1>3, <1>5, DoesClean
<1>7. /\ Ordered'
      /\ memory # None => memory' # None
      /\ todo' = << >> \/ todo' = Tail(todo)
      /\ todo' = << >> \/ (Tells(step, "RAM_SIZE") => memory' # None)
  BY <1>1, <1>2, <1>3, <1>5, LearnOrdered
<1>8. CASE todo' = << >>
  BY <1>6, <1>7, <1>8, NothingLeft
<1>9. CASE todo' # << >>
  <2>1. Tail(t) \in Seq(Steps)
    BY <1>4
  <2>2. PICK u \in Seq(Steps) : u = Tail(t)
    BY <2>1
  <2>3. PICK n \in Nat \ {0} : n = 1
    OBVIOUS
  <2>4. \A k \in DOMAIN u : n + k \in DOMAIN t /\ u[k] = t[n + k] /\ u[k] \in Steps
    BY <1>4, <2>2, <2>3
  <2>5. t[1].do \notin Writes => content' = content
    BY <1>2, <1>3, <1>4, DoesQuiet
  <2>6. ASSUME NEW k \in DOMAIN u, NEW j \in 1 .. n, Covers(t[j], u[k])
        PROVE  Erased(u[k], content')
    <3>1. j = 1 /\ u[k] \in Steps
      BY <2>3, <2>4
    <3>2. Covers(step, u[k])
      BY <1>4, <2>6, <3>1
    <3>. QED
      BY <1>2, <1>3, <3>1, <3>2, DoesErase
  <2>7. ASSUME NEW k \in DOMAIN u, NEW j \in 1 .. n, Tells(t[j], "RAM_SIZE")
        PROVE  memory' # None
    <3>1. j = 1
      BY <2>3
    <3>. QED
      BY <1>4, <1>7, <1>9, <2>7, <3>1
  <2>8. Orderly(u, content', memory')
    <3>1. PICK c2 : c2 = content'
      OBVIOUS
    <3>2. PICK m2 : m2 = memory'
      OBVIOUS
    <3>. QED
      BY <1>1, <1>4, <1>7, <2>4, <2>5, <2>6, <2>7, <3>1, <3>2, OrderlyRest
  <2>. QED
    BY <1>4, <1>6, <1>7, <1>9, <2>2, <2>8
<1>. QED
  BY <1>8, <1>9

\* A step that fails skips, with itself, every step that relies on it or on one it skips.
LEMMA FailSpoil ==
    ASSUME NEW kind, CliInv, SpoilInv, AutoErase, CallFails(kind)
    PROVE  SpoilInv'
<1>. SUFFICES Orderly(todo', content', memory') /\ Ordered' /\ Unspoilt(content')
  BY DEF SpoilInv
<1>1. Orderly(todo, content, memory) /\ Ordered /\ Unspoilt(content)
  BY DEF SpoilInv
<1>2. PICK step \in Fits :
        /\ step = Head(todo)
        /\ \E l \in 0 .. Size(step) : Does(step, l)
        /\ IF kind \in step.caught
           THEN todo' = SubSeq(todo, 2 + step.skip, Len(todo)) /\ UNCHANGED exit
           ELSE Stop("error")
        /\ UNCHANGED <<inv, memory, flash, said>> /\ todo # << >>
  <2>1. Head(todo) \in Fits
    BY Rest DEF CallFails, CliInv
  <2>. QED
    BY <2>1, Zenon DEF CallFails
<1>3. step \in Steps /\ step.skip \in Nat /\ TypeInv /\ Kept
  BY <1>2 DEF Fits, Steps, CliInv
<1>4. PICK t \in Seq(Steps) : t = todo /\ t # << >> /\ t[1] = step
  <2>1. todo \in Seq(Fits) /\ Fits \subseteq Steps
    BY <1>3 DEF TypeInv, Fits
  <2>2. todo \in Seq(Steps)
    BY <2>1, SeqMonotonic
  <2>. QED
    BY <1>2, <2>2
<1>5. Clean(step) /\ (step.do = "program" => Erased(step, content))
  BY <1>1, <1>4, HeadReady
<1>6. PICK l \in 0 .. Size(step) : Does(step, l)
  BY <1>2
<1>7. Unspoilt(content')
  BY <1>1, <1>3, <1>5, <1>6, DoesClean
<1>8. Ordered' /\ memory' = memory
  BY <1>1, <1>2 DEF Ordered
<1>9. CASE kind \notin step.caught
  <2>1. todo' = << >>
    BY <1>2, <1>9 DEF Stop
  <2>. QED
    BY <1>7, <1>8, <2>1, NothingLeft
<1>10. CASE kind \in step.caught
  <2>1. PICK n \in Nat \ {0} : n = 1 + step.skip
    BY <1>3
  <2>2. PICK u \in Seq(Steps) : u = SubSeq(t, n + 1, Len(t)) /\ u = todo'
    <3>1. SubSeq(t, n + 1, Len(t)) \in Seq(Steps)
      BY <1>4
    <3>2. todo' = SubSeq(t, n + 1, Len(t))
      <4>1. todo' = SubSeq(t, 2 + step.skip, Len(t))
        BY <1>2, <1>4, <1>10
      <4>2. 2 + step.skip = n + 1
        BY <1>3, <2>1
      <4>. QED
        BY <4>1, <4>2
    <3>. QED
      BY <3>1, <3>2
  <2>3. \A k \in DOMAIN u : k \in Nat \ {0} /\ n + k \in DOMAIN t /\ u[k] = t[n + k]
    BY <1>4, <2>2
  <2>4. t[1].do \notin Writes => content' = content
    BY <1>2, <1>3, <1>4, <1>6, DoesQuiet
  <2>5. \A k \in DOMAIN u, j \in 1 .. n : ~ Ahead(t, j, n + k)
    <3>. SUFFICES ASSUME NEW k \in DOMAIN u, NEW j \in 1 .. n, Ahead(t, j, n + k)
                  PROVE  FALSE
      OBVIOUS
    <3>1. 1 \in 1 .. j /\ t[1].caught # {} /\ 1 + t[1].skip = n
      BY <1>4, <1>10, <2>1
    <3>2. n \in j .. (n + k) - 1
      BY <2>3
    <3>. QED
      BY <3>1, <3>2 DEF Ahead
  <2>6. Orderly(u, content', memory')
    <3>1. PICK c2 : c2 = content'
      OBVIOUS
    <3>. QED
      BY <1>1, <1>4, <1>8, <2>3, <2>4, <2>5, <3>1, OrderlyRest
  <2>. QED
    BY <1>7, <1>8, <2>2, <2>6
<1>. QED
  BY <1>9, <1>10

\* A decision: the steps of the subcommand, then the rest.
LEMMA DecideSpoil == CliInv /\ SpoilInv /\ AutoErase /\ DecideStep => SpoilInv'
<1>. SUFFICES ASSUME CliInv, SpoilInv, AutoErase, DecideStep
              PROVE  SpoilInv'
  OBVIOUS
<1>1. Orderly(todo, content, memory) /\ Ordered /\ Unspoilt(content)
  BY DEF SpoilInv
<1>2. PICK step \in Fits :
        /\ step = Head(todo) /\ step.do = "decide" /\ todo # << >>
        /\ todo' = Expand(step.arg, Arg(step.arg)) \o Tail(todo)
        /\ UNCHANGED <<inv, host, content>>
  BY Rest, Zenon DEF DecideStep, Arg, CliInv
<1>3. todo \in Seq(Steps)
  <2>1. todo \in Seq(Fits) /\ Fits \subseteq Steps
    BY DEF CliInv, TypeInv, Fits
  <2>. QED
    BY <2>1, SeqMonotonic
<1>4. step.arg \in inv.given \ {"reset"}
  BY <1>2 DEF Fits
<1>5. Safe(Expand(step.arg, Arg(step.arg)))
  BY <1>1, <1>4, ExpandSafe DEF CliInv
<1>6. Sound(Tail(todo), memory) /\ Tail(todo) \in Seq(Steps)
  BY <1>1, <1>2, <1>3, DecideRest
<1>7. Sound(Expand(step.arg, Arg(step.arg)) \o Tail(todo), memory)
  BY <1>5, <1>6, SoundConcat, SoundOrderly DEF Safe
<1>8. Orderly(todo', content, memory)
  BY <1>2, <1>7, SoundOrderly
<1>9. memory' = memory /\ flash' = flash /\ content' = content
  BY <1>2 DEF host
<1>. QED
  BY <1>1, <1>8, <1>9 DEF SpoilInv, Ordered

\* A step preserves the invariant.
LEMMA StepSpoil == CliInv /\ SpoilInv /\ [Next]_vars => SpoilInv'
<1>. SUFFICES ASSUME CliInv, SpoilInv, [Next]_vars
              PROVE  SpoilInv'
  OBVIOUS
<1>0. inv' = inv
  <2>1. CallOk => inv' = inv
    BY DEF CallOk
  <2>2. \A kind : CallFails(kind) => inv' = inv
    BY DEF CallFails
  <2>3. DecideStep \/ SayStep \/ RaiseStep \/ Close \/ UNCHANGED vars => inv' = inv
    BY DEF DecideStep, SayStep, RaiseStep, Close, vars
  <2>. QED
    BY <2>1, <2>2, <2>3 DEF Next
<1>. SUFFICES ASSUME AutoErase
              PROVE  SpoilInv'
  BY <1>0, AutoEraseConstant DEF SpoilInv
<1>1. Orderly(todo, content, memory) /\ Ordered /\ Unspoilt(content)
  BY DEF SpoilInv
<1>2. CASE CallOk
  BY <1>2, OkSpoil
<1>3. ASSUME NEW kind, CallFails(kind)
      PROVE  SpoilInv'
  BY <1>3, FailSpoil
<1>4. CASE DecideStep
  BY <1>4, DecideSpoil
<1>5. CASE SayStep
  <2>1. /\ todo # << >> /\ Head(todo).do = "say" /\ todo' = Tail(todo)
        /\ memory' = memory /\ flash' = flash /\ content' = content
    BY <1>5 DEF SayStep
  <2>2. todo \in Seq(Steps)
    <3>1. todo \in Seq(Fits) /\ Fits \subseteq Steps
      BY DEF CliInv, TypeInv, Fits
    <3>. QED
      BY <3>1, SeqMonotonic
  <2>3. PICK t \in Seq(Steps) : t = todo /\ t # << >> /\ t[1].do = "say"
    BY <2>1, <2>2
  <2>4. Tail(t) \in Seq(Steps)
    BY <2>3
  <2>5. PICK u \in Seq(Steps) : u = Tail(t)
    BY <2>4
  <2>6. PICK n \in Nat \ {0} : n = 1
    OBVIOUS
  <2>7. \A k \in DOMAIN u : n + k \in DOMAIN t /\ u[k] = t[n + k]
    BY <2>3, <2>5, <2>6
  <2>8. \A k \in DOMAIN u, j \in 1 .. n :
           ~ Covers(t[j], u[k]) /\ ~ Tells(t[j], "RAM_SIZE")
    BY <2>3, <2>6 DEF Covers, Tells, HostSteps
  <2>9. Orderly(u, content, memory)
    BY <1>1, <2>3, <2>7, <2>8, OrderlyRest
  <2>. QED
    BY <1>1, <2>1, <2>3, <2>5, <2>9 DEF SpoilInv, Ordered
<1>6. CASE RaiseStep
  <2>1. todo' = << >> /\ memory' = memory /\ flash' = flash /\ content' = content
    BY <1>6 DEF RaiseStep, Stop
  <2>. QED
    BY <1>1, <2>1, NothingLeft DEF SpoilInv, Ordered
<1>7. CASE Close \/ UNCHANGED vars
  <2>1. todo' = todo /\ memory' = memory /\ flash' = flash /\ content' = content
    BY <1>7 DEF Close, vars, host
  <2>. QED
    BY <1>1, <2>1 DEF SpoilInv, Ordered
<1>. QED
  BY <1>2, <1>3, <1>4, <1>5, <1>6, <1>7 DEF Next

\* write, fill and flash_image never program flash that was not erased, whichever ranges
\* the device tells and wherever a call fails, in any combination, if the erasing is left
\* to the tool and the configuration words go to RAM (cli.py:60-190, mboot.py:421-518).
THEOREM NoOverprogramHolds == Spec => []NoOverprogram
<1>1. SpoilInv => NoOverprogram
  BY DEF SpoilInv, NoOverprogram, Unspoilt
<1>2. Init => CliInv /\ SpoilInv
  BY InitInv, InitSpoil
<1>3. CliInv /\ SpoilInv /\ [Next]_vars => (CliInv /\ SpoilInv)'
  BY StepInv, StepSpoil
<1>. QED
  BY <1>1, <1>2, <1>3, PTL DEF Spec

-----------------------------------------------------------------------------
(* What is said is done.                                                    *)

\* The subcommands that say what the memory then holds, and what that is.
Makers     == {"write", "fill", "erase"}
Mark(name) == CASE name = "write" -> "data" [] name = "fill" -> "pattern" [] OTHER -> "erased"

\* No subcommand that comes after it is bound to undo what it did.
Alone(name) ==
    /\ name = "write" => inv.given \cap {"fill", "erase", "unlock"} = {} /\ Apart
    /\ name = "fill" => inv.given \cap {"erase", "unlock"} = {}
    /\ name = "erase" => "unlock" \notin inv.given /\ ~ Arg("erase").all

Says(s, name) == s.do = "say" /\ s.arg = name

\* The step, and what it expands to, leave what the subcommand did, and do not say it.
Spares(s, name) ==
    /\ ~ Says(s, name)
    /\ s.do = "decide" => name = "write" /\ s.arg = "read"
    /\ s.do \in Writes =>
          /\ s.do = "program"
          /\ s.mem # Arg(name).mem \/ Points(s.block) \cap Points(Arg(name).block) = {}

\* Once the step is done, what the subcommand is for is done.
Makes(s, name) ==
    \/ s.do = "raise"
    \/ s.do = "decide" /\ s.arg = name
    \/ /\ s.do \in {"erase", "program"} /\ s.arg = Mark(name)
       /\ s.mem = Arg(name).mem /\ s.block = Arg(name).block

\* The device holds what the subcommand is for.
Told(name, c) ==
    /\ Points(Arg(name).block) \subseteq Addr
    /\ \A a \in Points(Arg(name).block) : c[Arg(name).mem][a] = Mark(name)

\* Step j makes it, and nothing between j and k undoes it.
MadeAt(t, j, k, name) ==
    /\ Makes(t[j], name) /\ Ahead(t, j, k)
    /\ \A i \in j + 1 .. k - 1 : Spares(t[i], name)

After(t, k, name) == \A i \in k + 1 .. Len(t) : Spares(t[i], name)

\* When its turn comes, what is said is done, and stays.
Announced(t, name, c) ==
    \A k \in DOMAIN t : Says(t[k], name) =>
        /\ After(t, k, name)
        /\ \/ Told(name, c) /\ \A i \in 1 .. k - 1 : Spares(t[i], name)
           \/ \E j \in 1 .. k - 1 : MadeAt(t, j, k, name)

\* What was said is done, and stays; so will be what is yet to be said.
Honest(name, t, c, s) ==
    /\ Announced(t, name, c)
    /\ name \in s => Told(name, c) /\ \A i \in DOMAIN t : Spares(t[i], name)

TellInv ==
    AutoErase /\ inv.origin = << >> =>
        \A name \in Makers : Alone(name) => Honest(name, todo, content, said)

-----------------------------------------------------------------------------
(* Sequences of steps, and what they say.                                   *)

\* The first steps are taken away: what they made is done.
LEMMA AnnouncedRest ==
    ASSUME NEW t \in Seq(Steps), NEW u \in Seq(Steps), NEW n \in Nat \ {0},
           Len(t) = n + Len(u), \A k \in DOMAIN u : u[k] = t[n + k],
           NEW name, NEW c, NEW c2, Announced(t, name, c),
           \A k \in DOMAIN u, j \in 1 .. n :
              Makes(t[j], name) /\ Ahead(t, j, n + k) => Told(name, c2),
           Told(name, c) /\ Spares(t[1], name) => Told(name, c2)
    PROVE  Announced(u, name, c2)
<1>1. SUFFICES ASSUME NEW k \in DOMAIN u, Says(u[k], name)
               PROVE  /\ After(u, k, name)
                      /\ \/ Told(name, c2) /\ \A i \in 1 .. k - 1 : Spares(u[i], name)
                         \/ \E j \in 1 .. k - 1 : MadeAt(u, j, k, name)
  BY DEF Announced
<1>2. PICK l \in Nat : l = Len(u)
  OBVIOUS
<1>3. /\ DOMAIN u = 1 .. l /\ DOMAIN t = 1 .. n + l /\ Len(t) = n + l
      /\ k \in 1 .. l /\ k \in Nat \ {0} /\ n + k \in DOMAIN t
      /\ \A i \in 1 .. l : u[i] = t[n + i] /\ u[i] \in Steps
  <2>1. DOMAIN u = 1 .. l /\ DOMAIN t = 1 .. n + l /\ Len(t) = n + l
    BY <1>2
  <2>2. k \in 1 .. l /\ k \in Nat \ {0} /\ n + k \in DOMAIN t
    BY <1>1, <2>1
  <2>3. \A i \in 1 .. l : u[i] = t[n + i] /\ u[i] \in Steps
    <3>1. \A i \in DOMAIN u : u[i] \in Steps
      OBVIOUS
    <3>. QED
      BY <2>1, <3>1
  <2>. QED
    BY <2>1, <2>2, <2>3
<1>4. \A x \in Steps : x.skip \in Nat
  BY DEF Steps
<1>5. /\ After(t, n + k, name)
      /\ \/ Told(name, c) /\ \A i \in 1 .. (n + k) - 1 : Spares(t[i], name)
         \/ \E j \in 1 .. (n + k) - 1 : MadeAt(t, j, n + k, name)
  <2>1. Says(t[n + k], name)
    BY <1>1, <1>3
  <2>. QED
    BY <1>3, <2>1 DEF Announced
<1>6. After(u, k, name)
  <2>1. SUFFICES ASSUME NEW i \in k + 1 .. l PROVE Spares(u[i], name)
    BY <1>2 DEF After
  <2>2. n + i \in (n + k) + 1 .. n + l /\ i \in 1 .. l
    BY <1>3
  <2>. QED
    BY <1>3, <1>5, <2>2 DEF After
<1>7. ASSUME NEW j \in 0 .. n, \A i \in j + 1 .. (n + k) - 1 : Spares(t[i], name)
      PROVE  \A i \in 1 .. k - 1 : Spares(u[i], name)
  <2>. SUFFICES ASSUME NEW i \in 1 .. k - 1 PROVE Spares(u[i], name)
    OBVIOUS
  <2>1. n + i \in j + 1 .. (n + k) - 1 /\ i \in 1 .. l
    BY <1>3
  <2>. QED
    BY <1>3, <1>7, <2>1
<1>8. CASE Told(name, c) /\ \A i \in 1 .. (n + k) - 1 : Spares(t[i], name)
  <2>1. 1 \in 1 .. (n + k) - 1 /\ 0 \in 0 .. n /\ 0 + 1 = 1
    BY <1>3
  <2>2. Told(name, c2)
    BY <1>8, <2>1
  <2>3. \A i \in 1 .. k - 1 : Spares(u[i], name)
    BY <1>7, <1>8, <2>1
  <2>. QED
    BY <1>6, <2>2, <2>3
<1>9. CASE \E j \in 1 .. (n + k) - 1 : MadeAt(t, j, n + k, name)
  <2>1. PICK j \in 1 .. (n + k) - 1 : MadeAt(t, j, n + k, name)
    BY <1>9
  <2>2. /\ Makes(t[j], name) /\ Ahead(t, j, n + k)
        /\ \A i \in j + 1 .. (n + k) - 1 : Spares(t[i], name)
    BY <2>1 DEF MadeAt
  <2>3. CASE j <= n
    <3>1. j \in 1 .. n /\ j \in 0 .. n
      BY <2>3
    <3>2. Told(name, c2)
      BY <1>1, <2>2, <3>1
    <3>3. \A i \in 1 .. k - 1 : Spares(u[i], name)
      BY <1>7, <2>2, <3>1
    <3>. QED
      BY <1>6, <3>2, <3>3
  <2>4. CASE j > n
    <3>1. PICK h \in 1 .. k - 1 : j = n + h
      BY <1>3, <2>4
    <3>2. \A i \in 1 .. k : u[i] = t[n + i] /\ u[i].skip \in Nat
      BY <1>3, <1>4
    <3>3. Ahead(u, h, k)
      BY <1>3, <2>2, <3>1, <3>2, Drop
    <3>4. u[h] = t[j]
      BY <1>3, <3>1
    <3>5. \A i \in h + 1 .. k - 1 : Spares(u[i], name)
      <4>. SUFFICES ASSUME NEW i \in h + 1 .. k - 1 PROVE Spares(u[i], name)
        OBVIOUS
      <4>1. n + i \in j + 1 .. (n + k) - 1 /\ i \in 1 .. l
        BY <1>3, <3>1
      <4>. QED
        BY <1>3, <2>2, <4>1
    <3>6. MadeAt(u, h, k, name)
      BY <2>2, <3>3, <3>4, <3>5 DEF MadeAt
    <3>. QED
      BY <1>6, <3>6
  <2>. QED
    BY <2>3, <2>4
<1>. QED
  BY <1>5, <1>8, <1>9

\* Steps a decision is replaced by: they decide and say nothing.  Bare ones are in the
\* scope of no except clause.
Inner == {s \in Steps : s.do \notin {"decide", "say"}}
Bare  == {s \in Inner : s.caught = {}}

\* The last step makes it.
Ends(t, name) == t # << >> /\ Makes(t[Len(t)], name)

\* A decision is replaced by steps the last of which makes what it decided on.
LEMMA AnnouncedDecided ==
    ASSUME NEW t \in Seq(Steps), t # << >>, t[1].do = "decide",
           NEW s \in Seq(Inner), Closed(s), NEW name, NEW c, Announced(t, name, c),
           t[1].arg = name => s \in Seq(Bare) /\ Ends(s, name),
           Spares(t[1], name) => \A i \in DOMAIN s : Spares(s[i], name)
    PROVE  Announced(s \o Tail(t), name, c)
<1>1. PICK l \in Nat : l + 1 = Len(t)
  <2>1. Len(t) \in Nat /\ Len(t) # 0
    OBVIOUS
  <2>. QED
    BY <2>1
<1>2. PICK d \in Nat : d = Len(s)
  OBVIOUS
<1>3. s \in Seq(Steps) /\ Tail(t) \in Seq(Steps)
  <2>1. Inner \subseteq Steps
    BY DEF Inner
  <2>. QED
    BY <2>1, SeqMonotonic
<1>4. PICK r \in Seq(Steps) : r = Tail(t)
  BY <1>3
<1>5. PICK u \in Seq(Steps) : u = s \o r
  BY <1>3, ConcatProperties
<1>6. /\ Len(r) = l /\ DOMAIN r = 1 .. l /\ DOMAIN t = 1 .. l + 1
      /\ \A i \in 1 .. l : r[i] = t[1 + i] /\ r[i] \in Steps
  BY <1>1, <1>4
<1>7. /\ DOMAIN s = 1 .. d /\ Len(u) = d + l /\ DOMAIN u = 1 .. d + l
      /\ \A i \in 1 .. d : u[i] = s[i] /\ s[i] \in Inner
      /\ \A i \in 1 .. l : u[d + i] = r[i]
  <2>1. DOMAIN s = 1 .. d /\ \A i \in 1 .. d : s[i] \in Inner
    BY <1>2
  <2>2. Len(u) = d + l /\ DOMAIN u = 1 .. d + l
    <3>1. Len(s \o r) = Len(s) + Len(r)
      BY <1>3, <1>4, ConcatProperties, Zenon
    <3>. QED
      BY <1>2, <1>5, <1>6, <3>1
  <2>3. \A i \in 1 .. d : u[i] = s[i]
    BY <1>2, <1>3, <1>5, <1>6
  <2>4. \A i \in 1 .. l : u[d + i] = r[i]
    BY <1>2, <1>3, <1>5, <1>6
  <2>. QED
    BY <2>1, <2>2, <2>3, <2>4
<1>8. \A x \in Steps : x.skip \in Nat
  BY DEF Steps
<1>9. \A i \in 1 .. d : u[i].skip \in Nat /\ (u[i].caught # {} => i + u[i].skip <= d)
  BY <1>2, <1>7, <1>8 DEF Closed, Inner
<1>10. SUFFICES ASSUME NEW k \in 1 .. d + l, Says(u[k], name)
                PROVE  /\ After(u, k, name)
                       /\ \/ Told(name, c) /\ \A i \in 1 .. k - 1 : Spares(u[i], name)
                          \/ \E j \in 1 .. k - 1 : MadeAt(u, j, k, name)
  BY <1>4, <1>5, <1>7, Zenon DEF Announced
<1>11. PICK h \in 1 .. l : k = d + h
  <2>1. ~ (k <= d)
    <3>. SUFFICES ASSUME k <= d PROVE FALSE
      OBVIOUS
    <3>1. k \in 1 .. d
      OBVIOUS
    <3>2. u[k] \in Inner
      BY <1>7, <3>1
    <3>. QED
      BY <1>10, <3>2 DEF Inner, Says
  <2>. QED
    BY <2>1
<1>12. /\ After(t, 1 + h, name)
       /\ \/ Told(name, c) /\ \A i \in 1 .. (1 + h) - 1 : Spares(t[i], name)
          \/ \E j \in 1 .. (1 + h) - 1 : MadeAt(t, j, 1 + h, name)
  <2>1. 1 + h \in DOMAIN t /\ Says(t[1 + h], name)
    BY <1>6, <1>7, <1>10, <1>11
  <2>. QED
    BY <2>1 DEF Announced
<1>13. After(u, k, name)
  <2>1. SUFFICES ASSUME NEW i \in k + 1 .. d + l PROVE Spares(u[i], name)
    BY <1>7 DEF After
  <2>2. PICK g \in 1 .. l : i = d + g
    BY <1>11
  <2>3. 1 + g \in (1 + h) + 1 .. Len(t)
    BY <1>1, <1>11, <2>2
  <2>4. u[d + g] = r[g] /\ r[g] = t[1 + g]
    BY <1>6, <1>7
  <2>. QED
    BY <1>12, <2>2, <2>3, <2>4 DEF After
<1>14. ASSUME NEW g \in 0 .. h - 1, \A i \in g + 2 .. (1 + h) - 1 : Spares(t[i], name)
       PROVE  \A i \in d + g + 1 .. k - 1 : Spares(u[i], name)
  <2>. SUFFICES ASSUME NEW i \in d + g + 1 .. k - 1 PROVE Spares(u[i], name)
    OBVIOUS
  <2>1. PICK f \in 1 .. l : i = d + f
    BY <1>11
  <2>2. 1 + f \in g + 2 .. (1 + h) - 1
    BY <1>11, <2>1
  <2>3. u[d + f] = r[f] /\ r[f] = t[1 + f]
    BY <1>6, <1>7
  <2>. QED
    BY <1>14, <2>1, <2>2, <2>3
<1>15. CASE Told(name, c) /\ \A i \in 1 .. (1 + h) - 1 : Spares(t[i], name)
  <2>1. Spares(t[1], name)
    BY <1>15
  <2>2. \A i \in 1 .. d : Spares(u[i], name)
    BY <1>7, <2>1
  <2>3. \A i \in d + 1 .. k - 1 : Spares(u[i], name)
    <3>1. PICK g \in 0 .. h - 1 : g = 0
      OBVIOUS
    <3>2. d + g + 1 = d + 1 /\ \A i \in g + 2 .. (1 + h) - 1 : i \in 1 .. (1 + h) - 1
      BY <3>1
    <3>3. \A i \in g + 2 .. (1 + h) - 1 : Spares(t[i], name)
      BY <1>15, <3>2
    <3>4. \A i \in d + g + 1 .. k - 1 : Spares(u[i], name)
      BY <1>14, <3>3
    <3>. QED
      BY <3>2, <3>4
  <2>4. \A i \in 1 .. k - 1 : i \in 1 .. d \/ i \in d + 1 .. k - 1
    OBVIOUS
  <2>5. \A i \in 1 .. k - 1 : Spares(u[i], name)
    BY <2>2, <2>3, <2>4
  <2>. QED
    BY <1>13, <1>15, <2>5
<1>16. CASE \E j \in 1 .. (1 + h) - 1 : MadeAt(t, j, 1 + h, name)
  <2>1. PICK j \in 1 .. (1 + h) - 1 : MadeAt(t, j, 1 + h, name)
    BY <1>16
  <2>2. /\ Makes(t[j], name) /\ Ahead(t, j, 1 + h)
        /\ \A i \in j + 1 .. (1 + h) - 1 : Spares(t[i], name)
    BY <2>1 DEF MadeAt
  <2>3. CASE j = 1
    <3>1. t[1].arg = name
      BY <2>2, <2>3 DEF Makes
    <3>2. s \in Seq(Bare) /\ Ends(s, name)
      BY <3>1
    <3>3. d \in 1 .. d /\ Makes(u[d], name)
      BY <1>2, <1>7, <3>2 DEF Ends
    <3>4. \A i \in 1 .. d : s[i].caught = {}
      <4>1. \A i \in 1 .. d : s[i] \in Bare
        BY <1>2, <3>2
      <4>. QED
        BY <4>1 DEF Bare
    <3>5. Ahead(u, d, k)
      BY <1>7, <3>4 DEF Ahead
    <3>6. \A i \in d + 1 .. k - 1 : Spares(u[i], name)
      <4>1. PICK g \in 0 .. h - 1 : g = 0
        OBVIOUS
      <4>2. d + g + 1 = d + 1 /\ g + 2 = j + 1
        BY <2>3, <4>1
      <4>3. \A i \in g + 2 .. (1 + h) - 1 : Spares(t[i], name)
        BY <2>2, <4>2
      <4>4. \A i \in d + g + 1 .. k - 1 : Spares(u[i], name)
        BY <1>14, <4>3
      <4>. QED
        BY <4>2, <4>4
    <3>7. d \in 1 .. k - 1
      BY <1>11, <3>3
    <3>. QED
      BY <1>13, <3>3, <3>5, <3>6, <3>7 DEF MadeAt
  <2>4. CASE j # 1
    <3>1. PICK g \in 1 .. h - 1 : j = 1 + g
      BY <2>4
    <3>2. /\ h \in Nat \ {0}
          /\ \A i \in 1 .. h : r[i] = t[1 + i] /\ r[i].skip \in Nat
          /\ \A i \in 1 .. h : u[d + i] = r[i] /\ r[i].skip \in Nat
      BY <1>6, <1>7, <1>8
    <3>3. Ahead(r, g, h)
      BY <2>2, <3>1, <3>2, Drop
    <3>4. Ahead(u, d + g, d + h)
      BY <1>9, <3>2, <3>3, AheadOn
    <3>5. u[d + g] = t[j] /\ d + g \in 1 .. k - 1
      <4>1. g \in 1 .. l /\ d + g \in 1 .. k - 1
        BY <1>11
      <4>2. u[d + g] = r[g] /\ r[g] = t[1 + g]
        BY <1>6, <1>7, <4>1
      <4>. QED
        BY <3>1, <4>1, <4>2
    <3>6. \A i \in (d + g) + 1 .. k - 1 : Spares(u[i], name)
      <4>1. g \in 0 .. h - 1 /\ j + 1 = g + 2
        BY <3>1
      <4>. QED
        BY <1>14, <2>2, <4>1
    <3>7. MadeAt(u, d + g, k, name)
      BY <1>11, <2>2, <3>4, <3>5, <3>6 DEF MadeAt
    <3>. QED
      BY <1>13, <3>5, <3>7
  <2>. QED
    BY <2>3, <2>4
<1>. QED
  BY <1>12, <1>15, <1>16

-----------------------------------------------------------------------------
(* The steps of the subcommands, and where they end.                        *)

\* Steps that are no decision, say nothing and change nothing.
Quiet == {s \in Inner : s.do \notin Writes}

\* They spare whatever was said.
LEMMA QuietSpares ==
    ASSUME NEW name
    PROVE  Quiet \subseteq {s \in Steps : Spares(s, name)}
BY DEF Quiet, Inner, Spares, Says

\* The calls and steps of the host: no except clause, no change.
LEMMA BareSteps ==
    /\ \A tag \in Tags : {Get(tag), Command(tag), Raise(tag)} \subseteq Bare \cap Quiet
    /\ \A mem \in {0, 1}, block \in Blocks : ReadBack(mem, block) \in Bare \cap Quiet
    /\ \A mem \in {0, 1}, block \in Blocks :
          {Erase(mem, block), EraseAll(mem), Program(mem, block), Fill(block), Config(block)}
             \subseteq Bare
    /\ \A tag \in Tags, kinds \in SUBSET {"refused", "broken"}, n \in Nat :
          {Catching(Get(tag), kinds, n), Catching(Command(tag), kinds, n)} \subseteq Quiet
<1>0. NoBlock \in Blocks
  BY BlockTypes
<1>1. ASSUME NEW tag \in Tags
      PROVE  /\ Get(tag) \in Steps /\ Get(tag).do = "get" /\ Get(tag).caught = {}
             /\ Command(tag) \in Steps /\ Command(tag).do = "command"
             /\ Command(tag).caught = {}
             /\ Raise(tag) \in Steps /\ Raise(tag).do = "raise" /\ Raise(tag).caught = {}
  <2>1. /\ Get(tag) \in Steps /\ Get(tag).do = "get"
        /\ Command(tag) \in Steps /\ Command(tag).do = "command"
        /\ Raise(tag) \in Steps /\ Raise(tag).do = "raise"
    BY <1>0, StepType DEF Get, Command, Raise, HostSteps, Writes
  <2>2. Get(tag).caught = {} /\ Command(tag).caught = {} /\ Raise(tag).caught = {}
    BY StepCaught DEF Get, Command, Raise
  <2>. QED
    BY <2>1, <2>2
<1>2. \A tag \in Tags : {Get(tag), Command(tag), Raise(tag)} \subseteq Bare \cap Quiet
  BY <1>1 DEF Bare, Quiet, Inner, Writes
<1>3. ASSUME NEW mem \in {0, 1}, NEW block \in Blocks
      PROVE  ReadBack(mem, block) \in Bare \cap Quiet
  <2>1. ReadBack(mem, block) \in Steps /\ ReadBack(mem, block).do = "read"
    BY StepType DEF ReadBack, HostSteps, Writes, Tags
  <2>2. ReadBack(mem, block).caught = {}
    BY StepCaught DEF ReadBack
  <2>. QED
    BY <2>1, <2>2 DEF Bare, Quiet, Inner, Writes
<1>4. ASSUME NEW mem \in {0, 1}, NEW block \in Blocks
      PROVE  {Erase(mem, block), EraseAll(mem), Program(mem, block), Fill(block), Config(block)}
                \subseteq Bare
  <2>1. /\ Erase(mem, block) \in Steps /\ Erase(mem, block).do = "erase"
        /\ EraseAll(mem) \in Steps /\ EraseAll(mem).do = "eraseAll"
    BY <1>0, StepType DEF Erase, EraseAll, HostSteps, Writes, Contents
  <2>2. /\ Program(mem, block) \in Steps /\ Program(mem, block).do = "program"
        /\ Fill(block) \in Steps /\ Fill(block).do = "program"
        /\ Config(block) \in Steps /\ Config(block).do = "program"
    BY StepType DEF Program, Fill, Config, HostSteps, Writes, Contents
  <2>3. /\ Erase(mem, block).caught = {} /\ EraseAll(mem).caught = {}
        /\ Program(mem, block).caught = {} /\ Fill(block).caught = {}
        /\ Config(block).caught = {}
    BY StepCaught DEF Erase, EraseAll, Program, Fill, Config
  <2>. QED
    BY <2>1, <2>2, <2>3 DEF Bare, Inner
<1>5. ASSUME NEW tag \in Tags, NEW kinds \in SUBSET {"refused", "broken"}, NEW n \in Nat
      PROVE  {Catching(Get(tag), kinds, n), Catching(Command(tag), kinds, n)} \subseteq Quiet
  <2>1. /\ Catching(Get(tag), kinds, n) \in Steps
        /\ Catching(Get(tag), kinds, n).do = "get"
        /\ Catching(Command(tag), kinds, n) \in Steps
        /\ Catching(Command(tag), kinds, n).do = "command"
    BY <1>1, CatchingType
  <2>. QED
    BY <2>1 DEF Quiet, Inner, Writes
<1>. QED
  BY <1>2, <1>3, <1>4, <1>5

\* The methods that change nothing are made of such steps.
LEMMA QuietIn ==
    /\ get_memory_range \in Seq(Quiet) /\ reset \in Seq(Quiet)
    /\ get_mcu_info \in Seq(Quiet) /\ get_exmemory_info \in Seq(Quiet)
    /\ configure_memory \in Seq(Bare \cap Quiet)
    /\ flash_security_disable \in Seq(Quiet)
    /\ \A block \in Blocks, mem \in {0, 1} : read_memory(block, mem) \in Seq(Bare \cap Quiet)
<1>1. get_memory_range \in Seq(Quiet)
  <2>1. {"RAM_START", "RAM_SIZE", "FLASH_START", "FLASH_SIZE"} \subseteq Tags
    BY DEF Tags
  <2>2. /\ Catching(Get("RAM_START"), {"refused"}, 3) \in Quiet
        /\ Catching(Get("RAM_SIZE"), {"refused"}, 2) \in Quiet
        /\ Catching(Get("FLASH_START"), {"refused"}, 1) \in Quiet
        /\ Catching(Get("FLASH_SIZE"), {"refused"}, 0) \in Quiet
    BY <2>1, BareSteps
  <2>. QED
    BY <2>2, Few DEF get_memory_range
<1>2. get_mcu_info \in Seq(Quiet)
  <2>1. Catching(Get("INFO"), {"refused"}, 0) \in Quiet
    BY BareSteps DEF Tags
  <2>. QED
    BY <2>1, MemoryAssumption, IsASeq DEF get_mcu_info
<1>3. /\ get_exmemory_info \in Seq(Quiet) /\ configure_memory \in Seq(Bare \cap Quiet)
      /\ flash_security_disable \in Seq(Quiet) /\ reset \in Seq(Quiet)
  <2>1. {"EXTERNAL_MEMORY_ATTRIBUTES", "CONFIGURE_MEMORY", "FLASH_SECURITY_DISABLE",
         "RESET"} \subseteq Tags
    BY DEF Tags
  <2>2. /\ Get("EXTERNAL_MEMORY_ATTRIBUTES") \in Quiet
        /\ Command("CONFIGURE_MEMORY") \in Bare \cap Quiet
        /\ Command("FLASH_SECURITY_DISABLE") \in Quiet
        /\ Catching(Command("RESET"), {"refused", "broken"}, 0) \in Quiet
    BY <2>1, BareSteps
  <2>. QED
    BY <2>2, Few DEF get_exmemory_info, configure_memory, flash_security_disable, reset
<1>4. \A block \in Blocks, mem \in {0, 1} : read_memory(block, mem) \in Seq(Bare \cap Quiet)
  <2>. TAKE block \in Blocks, mem \in {0, 1}
  <2>1. Raise("argument") \in Bare \cap Quiet /\ ReadBack(mem, block) \in Bare \cap Quiet
    BY BareSteps DEF Tags
  <2>. QED
    BY <2>1, Few DEF read_memory
<1>. QED
  BY <1>1, <1>2, <1>3, <1>4

\* The configuration of the external memory: words that are programmed, and a command.
LEMMA SetupIn ==
    ASSUME TypeInv, NEW name \in inv.given, NEW S,
           Bare \cap Quiet \subseteq S,
           \A block \in Blocks :
              Arg(name).mem # 0 /\ Points(block) \subseteq ExconfCells(Arg(name))
                 => Config(block) \in S
    PROVE  Setup(Arg(name)) \in Seq(S)
<1>1. name \in Subcommands
  BY ArgTypes, InvocationsAssumption DEF TypeInv
<1>2. PICK start \in Nat, words \in Nat :
         Arg(name).exconf.start = start /\ Arg(name).exconf.words = words
  BY <1>1, ArgTypes
<1>3. CASE Arg(name).mem # 0 /\ Arg(name).exconf.given
  <2>. DEFINE word(i) == Block(start + 4 * (i - 1), start + 4 * i)
  <2>1. ExconfCells(Arg(name)) = Points(Block(start, start + 4 * words))
    BY <1>2, <1>3 DEF ExconfCells
  <2>2. ASSUME NEW i \in 1 .. words
        PROVE  Config(word(i)) \in S
    <3>1. word(i) \in Blocks
      BY DEF Block, Blocks
    <3>2. Points(word(i)) \subseteq Points(Block(start, start + 4 * words))
      BY DEF Points, Block
    <3>. HIDE DEF word
    <3>. QED
      BY <1>3, <2>1, <3>1, <3>2
  <2>3. PICK t : t = [i \in 1 .. words |-> Config(word(i))]
    OBVIOUS
  <2>4. t \in Seq(S)
    <3>. HIDE DEF word
    <3>. QED
      BY <2>2, <2>3, IsASeq
  <2>5. setup_external_memory(Arg(name).exconf) = t \o configure_memory
    BY <1>2, <2>3 DEF setup_external_memory
  <2>6. configure_memory \in Seq(S)
    BY QuietIn, SeqMonotonic
  <2>. QED
    BY <1>2, <1>3, <2>4, <2>5, <2>6, Few DEF Setup
<1>4. CASE ~(Arg(name).mem # 0 /\ Arg(name).exconf.given)
  BY <1>2, <1>4, Few DEF Setup
<1>. QED
  BY <1>3, <1>4

\* Steps without an except clause, the last of which makes it.
Final(t, name) == t \in Seq(Bare) /\ Ends(t, name)

\* Whatever comes before, the last step is the same.
LEMMA FinalConcat ==
    ASSUME NEW name
    PROVE  /\ \A s \in Bare : Makes(s, name) => Final(<< s >>, name)
           /\ \A s, t : s \in Seq(Bare) /\ Final(t, name) => Final(s \o t, name)
<1>1. ASSUME NEW s \in Bare, Makes(s, name)
      PROVE  Final(<< s >>, name)
  <2>1. PICK t \in Seq(Bare) : t = << s >> /\ Len(t) = 1 /\ t[1] = s /\ t # << >>
    <3>1. << s >> \in Seq(Bare) /\ Len(<< s >>) = 1 /\ << s >>[1] = s
      OBVIOUS
    <3>. QED
      BY <3>1
  <2>. QED
    BY <1>1, <2>1 DEF Final, Ends
<1>2. ASSUME NEW s \in Seq(Bare), NEW t, Final(t, name)
      PROVE  Final(s \o t, name)
  <2>1. t \in Seq(Bare) /\ t # << >> /\ Makes(t[Len(t)], name)
    BY <1>2 DEF Final, Ends
  <2>2. PICK d \in Nat : d = Len(s)
    OBVIOUS
  <2>3. PICK l \in Nat \ {0} : l = Len(t)
    <3>1. Len(t) \in Nat /\ Len(t) # 0
      BY <2>1
    <3>. QED
      BY <3>1
  <2>4. PICK u \in Seq(Bare) : u = s \o t
    BY <2>1, ConcatProperties
  <2>5. Len(u) = d + l
    <3>1. Len(s \o t) = Len(s) + Len(t)
      BY <2>1, ConcatProperties, Zenon
    <3>. QED
      BY <2>2, <2>3, <2>4, <3>1
  <2>6. u[d + l] = t[l]
    BY <2>1, <2>2, <2>3, <2>4
  <2>7. u # << >>
    BY <2>5
  <2>. QED
    BY <2>1, <2>3, <2>4, <2>5, <2>6, <2>7 DEF Final, Ends
<1>. QED
  BY <1>1, <1>2

\* An error ends the run before anything is said.
LEMMA RaiseFinal ==
    ASSUME NEW why \in Tags, NEW name
    PROVE  Final(<< Raise(why) >>, name)
<1>1. Raise(why) \in Bare
  BY BareSteps
<1>2. Raise(why).do = "raise"
  BY DEF Raise, Step
<1>. QED
  BY <1>1, <1>2, FinalConcat DEF Makes

\* write programs its block in the end.
LEMMA WriteFinal ==
    ASSUME TypeInv, "write" \in inv.given
    PROVE  Final(write(Arg("write"), memory, flash), "write")
<1>. DEFINE a == Arg("write")
<1>1. a.block \in Blocks /\ a.mem \in {0, 1}
  BY ArgTypes DEF Subcommands
<1>2. Setup(a) \in Seq(Bare)
  <2>1. \A block \in Blocks : Config(block) \in Bare
    BY BareSteps
  <2>. QED
    BY <2>1, SetupIn
<1>3. {"RAM_START", "MAX_PACKET_SIZE", "argument", "range"} \subseteq Tags
  BY DEF Tags
<1>4. Final(<< Raise("argument") >>, "write") /\ Final(<< Raise("range") >>, "write")
  BY <1>3, RaiseFinal
<1>5. Get("RAM_START") \in Bare /\ Get("MAX_PACKET_SIZE") \in Bare
  BY <1>3, BareSteps
<1>6. Erase(a.mem, a.block) \in Bare /\ Program(a.mem, a.block) \in Bare
  BY <1>1, BareSteps
<1>7. Makes(Program(a.mem, a.block), "write")
  <2>1. /\ Program(a.mem, a.block).do = "program" /\ Program(a.mem, a.block).arg = "data"
        /\ Program(a.mem, a.block).mem = a.mem /\ Program(a.mem, a.block).block = a.block
    BY DEF Program, Step
  <2>. QED
    BY <2>1 DEF Makes, Mark
<1>8. PICK w : w = << Get("MAX_PACKET_SIZE"), Program(a.mem, a.block) >>
               /\ Final(w, "write")
  <2>1. PICK g \in Bare, p \in Bare :
          g = Get("MAX_PACKET_SIZE") /\ p = Program(a.mem, a.block) /\ Makes(p, "write")
    BY <1>5, <1>6, <1>7
  <2>2. << g >> \o << p >> = << g, p >>
    BY Joined, Zenon
  <2>3. Final(<< g >> \o << p >>, "write")
    <3>1. << g >> \in Seq(Bare)
      OBVIOUS
    <3>. QED
      BY <2>1, <3>1, FinalConcat
  <2>. QED
    BY <2>1, <2>2, <2>3
<1>9. PICK e \in Seq(Bare) :
        e = IF a.noErase THEN << >> ELSE flash_erase_region(a.block, a.mem)
  <2>1. << Erase(a.mem, a.block) >> \in Seq(Bare) /\ << >> \in Seq(Bare)
    BY <1>6
  <2>. QED
    BY <2>1 DEF flash_erase_region
<1>10. PICK r \in Seq(Bare) : r = << Get("RAM_START") >>
  BY <1>5, Few
<1>. HIDE DEF a
<1>11. CASE a.block.length = 0
  <2>1. write(a, memory, flash) = << Raise("argument") >>
    BY <1>11, Zenon DEF write
  <2>. QED
    BY <1>4, <2>1 DEF a
<1>12. CASE a.block.length # 0
  <2>1. write_memory(a.block, a.mem) = w
    BY <1>8, <1>12 DEF write_memory
  <2>2. /\ Setup(a) \o e \in Seq(Bare) /\ e \o r \in Seq(Bare)
    BY <1>2, ConcatProperties
  <2>3. /\ Final((Setup(a) \o e) \o w, "write") /\ Final((e \o r) \o w, "write")
        /\ Final(r \o w, "write")
    BY <1>8, <2>2, FinalConcat
  <2>4. CASE a.mem # 0
    <3>1. write(a, memory, flash) = (Setup(a) \o e) \o w
      BY <1>9, <1>12, <2>1, <2>4, Zenon DEF write
    <3>. QED
      BY <2>3, <3>1 DEF a
  <2>5. CASE a.mem = 0 /\ IsIn(a.block, flash)
    <3>1. write(a, memory, flash) = (e \o r) \o w
      BY <1>9, <1>10, <1>12, <2>1, <2>5, Zenon DEF write
    <3>. QED
      BY <2>3, <3>1 DEF a
  <2>6. CASE a.mem = 0 /\ ~ IsIn(a.block, flash) /\ IsIn(a.block, memory)
    <3>1. write(a, memory, flash) = r \o w
      BY <1>10, <1>12, <2>1, <2>6, Zenon DEF write
    <3>. QED
      BY <2>3, <3>1 DEF a
  <2>7. CASE a.mem = 0 /\ ~ IsIn(a.block, flash) /\ ~ IsIn(a.block, memory)
    <3>1. write(a, memory, flash) = << Raise("range") >>
      BY <1>12, <2>7, Zenon DEF write
    <3>. QED
      BY <1>4, <3>1 DEF a
  <2>. QED
    BY <2>4, <2>5, <2>6, <2>7
<1>. QED
  BY <1>11, <1>12

\* fill fills its block in the end.
LEMMA FillFinal ==
    ASSUME TypeInv, "fill" \in inv.given
    PROVE  Final(fill(Arg("fill"), memory, flash), "fill")
<1>. DEFINE a == Arg("fill")
<1>1. a.block \in Blocks /\ a.mem = 0
  <2>1. a.block \in Blocks
    BY ArgTypes DEF Subcommands
  <2>2. a.mem = 0
    BY InvocationsAssumption DEF TypeInv, Arg
  <2>. QED
    BY <2>1, <2>2
<1>2. {"argument", "range"} \subseteq Tags
  BY DEF Tags
<1>3. Final(<< Raise("argument") >>, "fill") /\ Final(<< Raise("range") >>, "fill")
  BY <1>2, RaiseFinal
<1>4. FillBlock(a.block) \in Blocks
  BY <1>1 DEF FillBlock, Block, Blocks
<1>5. Erase(0, FillBlock(a.block)) \in Bare /\ Fill(a.block) \in Bare
  BY <1>1, <1>4, BareSteps
<1>6. Final(<< Fill(a.block) >>, "fill")
  <2>1. /\ Fill(a.block).do = "program" /\ Fill(a.block).arg = "pattern"
        /\ Fill(a.block).mem = 0 /\ Fill(a.block).block = a.block
    BY DEF Fill, Step
  <2>2. Makes(Fill(a.block), "fill")
    BY <1>1, <2>1 DEF Makes, Mark
  <2>. QED
    BY <1>5, <2>2, FinalConcat
<1>7. PICK f : f = fill_memory(a.block, a.unitMatches) /\ Final(f, "fill")
  BY <1>3, <1>6 DEF fill_memory
<1>8. PICK e \in Seq(Bare) :
        e = IF a.noErase THEN << >> ELSE flash_erase_region(FillBlock(a.block), 0)
  <2>1. << Erase(0, FillBlock(a.block)) >> \in Seq(Bare) /\ << >> \in Seq(Bare)
    BY <1>5
  <2>. QED
    BY <2>1 DEF flash_erase_region
<1>9. Final(e \o f, "fill")
  BY <1>7, FinalConcat
<1>. HIDE DEF a
<1>10. fill(a, memory, flash) \in {<< Raise("argument") >>, e \o f, f, << Raise("range") >>}
  BY <1>7, <1>8, Zenon DEF fill
<1>. QED
  BY <1>3, <1>7, <1>9, <1>10 DEF a

\* erase erases its region in the end, unless it is to erase everything.
LEMMA EraseFinal ==
    ASSUME TypeInv, "erase" \in inv.given
    PROVE  /\ erase(Arg("erase")) \in Seq(Bare)
           /\ ~ Arg("erase").all => Final(erase(Arg("erase")), "erase")
<1>. DEFINE a == Arg("erase")
<1>1. a.block \in Blocks /\ a.mem \in {0, 1}
  BY ArgTypes DEF Subcommands
<1>2. Setup(a) \in Seq(Bare)
  <2>1. \A block \in Blocks : Config(block) \in Bare
    BY BareSteps
  <2>. QED
    BY <2>1, SetupIn
<1>3. {"argument", "unsupported", "AVAILABLE_COMMANDS"} \subseteq Tags
  BY DEF Tags
<1>4. Final(<< Raise("argument") >>, "erase")
  BY <1>3, RaiseFinal
<1>5. /\ << Raise("unsupported") >> \in Seq(Bare) /\ << Raise("argument") >> \in Seq(Bare)
      /\ << Get("AVAILABLE_COMMANDS") >> \in Seq(Bare)
  <2>1. /\ Raise("unsupported") \in Bare /\ Raise("argument") \in Bare
        /\ Get("AVAILABLE_COMMANDS") \in Bare
    BY <1>3, BareSteps
  <2>. QED
    BY <2>1, Few
<1>6. /\ flash_erase_all_unsecure \in Seq(Bare) /\ flash_erase_all(a.mem) \in Seq(Bare)
  <2>1. EraseAll(0) \in Bare /\ EraseAll(a.mem) \in Bare
    BY <1>1, BareSteps
  <2>. QED
    BY <2>1, Few DEF flash_erase_all_unsecure, flash_erase_all
<1>7. Final(flash_erase_region(a.block, a.mem), "erase")
  <2>1. Erase(a.mem, a.block) \in Bare
    BY <1>1, BareSteps
  <2>2. /\ Erase(a.mem, a.block).do = "erase" /\ Erase(a.mem, a.block).arg = "erased"
        /\ Erase(a.mem, a.block).mem = a.mem /\ Erase(a.mem, a.block).block = a.block
    BY DEF Erase, Step
  <2>3. Makes(Erase(a.mem, a.block), "erase")
    BY <2>2 DEF Makes, Mark
  <2>. QED
    BY <2>1, <2>3, FinalConcat DEF flash_erase_region
<1>. HIDE DEF a
<1>8. PICK mass \in Seq(Bare) :
        mass = IF "FLASH_ERASE_ALL_UNSECURE" \in Available /\ a.mem = 0
               THEN flash_erase_all_unsecure
               ELSE IF "FLASH_ERASE_ALL" \in Available THEN flash_erase_all(a.mem)
               ELSE << Raise("unsupported") >>
  BY <1>5, <1>6
<1>9. erase(a) = IF ~ a.address /\ ~ a.all THEN << Raise("argument") >>
                 ELSE Setup(a) \o (IF ~ a.all THEN flash_erase_region(a.block, a.mem)
                                   ELSE << Get("AVAILABLE_COMMANDS") >> \o mass)
  BY <1>8, Zenon DEF erase
<1>10. /\ Final(Setup(a) \o flash_erase_region(a.block, a.mem), "erase")
       /\ Setup(a) \o (<< Get("AVAILABLE_COMMANDS") >> \o mass) \in Seq(Bare)
  <2>1. << Get("AVAILABLE_COMMANDS") >> \o mass \in Seq(Bare)
    BY <1>5, ConcatProperties
  <2>2. Setup(a) \o (<< Get("AVAILABLE_COMMANDS") >> \o mass) \in Seq(Bare)
    BY <1>2, <2>1, ConcatProperties
  <2>. QED
    BY <1>2, <1>7, <2>2, FinalConcat
<1>11. CASE a.all
  BY <1>9, <1>10, <1>11 DEF a
<1>12. CASE ~ a.all
  <2>1. Final(erase(a), "erase")
    BY <1>4, <1>9, <1>10, <1>12
  <2>. QED
    BY <2>1 DEF a, Final
<1>. QED
  BY <1>11, <1>12

\* The steps of a decision neither decide nor say.
LEMMA ExpandInner ==
    ASSUME TypeInv, NEW name \in inv.given \ {"reset"}
    PROVE  Expand(name, Arg(name)) \in Seq(Inner)
<1>1. name \in Subcommands \ {"reset"}
  BY ArgTypes, InvocationsAssumption DEF TypeInv
<1>2. Bare \subseteq Inner /\ Quiet \subseteq Inner /\ Bare \cap Quiet \subseteq Inner
  BY DEF Bare, Quiet
<1>3. \A block \in Blocks, mem \in {0, 1} : Config(block) \in Inner /\ EraseAll(mem) \in Inner
  BY <1>2, BareSteps
<1>4. Setup(Arg(name)) \in Seq(Inner)
  BY <1>2, <1>3, SetupIn
<1>5. /\ get_mcu_info \in Seq(Inner) /\ get_exmemory_info \in Seq(Inner)
      /\ flash_security_disable \in Seq(Inner)
      /\ \A block \in Blocks, mem \in {0, 1} : read_memory(block, mem) \in Seq(Inner)
  BY <1>2, QuietIn, SeqMonotonic
<1>6. CASE name = "info"
  <2>1. Expand(name, Arg(name)) = info(Arg(name))
    BY <1>6, Zenon DEF Expand
  <2>2. Setup(Arg(name)) \o get_exmemory_info \in Seq(Inner) /\ << >> \in Seq(Inner)
    BY <1>4, <1>5, Few
  <2>. QED
    BY <1>5, <2>1, <2>2, Few DEF info
<1>7. CASE name = "write"
  <2>1. Expand(name, Arg(name)) = write(Arg("write"), memory, flash)
    BY <1>7, Zenon DEF Expand
  <2>2. Final(write(Arg("write"), memory, flash), "write")
    BY <1>7, WriteFinal
  <2>. QED
    BY <1>2, <2>1, <2>2, SeqMonotonic DEF Final
<1>8. CASE name = "read"
  <2>1. Expand(name, Arg(name)) = read(Arg(name), memory, flash)
    BY <1>8, Zenon DEF Expand
  <2>2. {"argument", "range"} \subseteq Tags
    BY DEF Tags
  <2>3. << Raise("argument") >> \in Seq(Inner) /\ << Raise("range") >> \in Seq(Inner)
    <3>1. Raise("argument") \in Inner /\ Raise("range") \in Inner
      BY <1>2, <2>2, BareSteps
    <3>. QED
      BY <3>1, Few
  <2>4. Arg(name).block \in Blocks /\ Arg(name).mem \in {0, 1}
    BY <1>1, ArgTypes
  <2>5. /\ read_memory(Arg(name).block, Arg(name).mem) \in Seq(Inner)
        /\ read_memory(Arg(name).block, 0) \in Seq(Inner)
    BY <1>5, <2>4
  <2>6. Setup(Arg(name)) \o read_memory(Arg(name).block, Arg(name).mem) \in Seq(Inner)
    BY <1>4, <2>5, Few
  <2>. QED
    BY <2>1, <2>3, <2>5, <2>6 DEF read
<1>9. CASE name = "fill"
  <2>1. Expand(name, Arg(name)) = fill(Arg("fill"), memory, flash)
    BY <1>9, Zenon DEF Expand
  <2>2. Final(fill(Arg("fill"), memory, flash), "fill")
    BY <1>9, FillFinal
  <2>. QED
    BY <1>2, <2>1, <2>2, SeqMonotonic DEF Final
<1>10. CASE name = "erase"
  <2>1. Expand(name, Arg(name)) = erase(Arg("erase"))
    BY <1>10, Zenon DEF Expand
  <2>2. erase(Arg("erase")) \in Seq(Bare)
    BY <1>10, EraseFinal
  <2>. QED
    BY <1>2, <2>1, <2>2, SeqMonotonic
<1>11. CASE name = "unlock"
  <2>1. Expand(name, Arg(name)) = unlock(Arg(name))
    BY <1>11, Zenon DEF Expand
  <2>2. flash_erase_all_unsecure \in Seq(Inner)
    BY <1>3, BlockTypes, Few DEF flash_erase_all_unsecure
  <2>. QED
    BY <1>5, <2>1, <2>2 DEF unlock
<1>. QED
  BY <1>1, <1>6, <1>7, <1>8, <1>9, <1>10, <1>11 DEF Subcommands

\* What a subcommand is for is the last thing it does.
LEMMA ExpandFinal ==
    ASSUME TypeInv, NEW name \in inv.given \cap Makers, Alone(name)
    PROVE  Final(Expand(name, Arg(name)), name)
<1>1. CASE name = "write"
  <2>1. Expand(name, Arg(name)) = write(Arg("write"), memory, flash)
    BY <1>1, Zenon DEF Expand
  <2>. QED
    BY <1>1, <2>1, WriteFinal
<1>2. CASE name = "fill"
  <2>1. Expand(name, Arg(name)) = fill(Arg("fill"), memory, flash)
    BY <1>2, Zenon DEF Expand
  <2>. QED
    BY <1>2, <2>1, FillFinal
<1>3. CASE name = "erase"
  <2>1. Expand(name, Arg(name)) = erase(Arg("erase"))
    BY <1>3, Zenon DEF Expand
  <2>. QED
    BY <1>3, <2>1, EraseFinal DEF Alone
<1>. QED
  BY <1>1, <1>2, <1>3 DEF Makers

\* read changes nothing that write wrote.
LEMMA ReadSpares ==
    ASSUME TypeInv, "read" \in inv.given, Apart
    PROVE  Expand("read", Arg("read")) \in Seq({s \in Steps : Spares(s, "write")})
<1>. DEFINE S == {s \in Steps : Spares(s, "write")}
<1>. DEFINE a == Arg("read")
<1>1. Quiet \subseteq S
  BY QuietSpares
<1>2. ASSUME NEW block \in Blocks, a.mem # 0, Points(block) \subseteq ExconfCells(a)
      PROVE  Config(block) \in S
  <2>1. /\ Config(block) \in Steps /\ Config(block).do = "program"
        /\ Config(block).mem = 0 /\ Config(block).block = block
    <3>1. Config(block) \in Steps
      BY BareSteps DEF Bare, Inner
    <3>. QED
      BY <3>1 DEF Config, Step
  <2>2. Arg("write").mem = 0 => Points(block) \cap Points(Arg("write").block) = {}
    BY <1>2 DEF Apart
  <2>3. Spares(Config(block), "write")
    BY <2>1, <2>2 DEF Spares, Says
  <2>. QED
    BY <2>1, <2>3
<1>3. a.block \in Blocks /\ a.mem \in {0, 1}
  BY ArgTypes DEF Subcommands
<1>. HIDE DEF S
<1>4. Bare \cap Quiet \subseteq S
  BY <1>1
<1>5. Setup(a) \in Seq(S)
  BY <1>2, <1>4, SetupIn
<1>6. << Raise("argument") >> \in Seq(S) /\ << Raise("range") >> \in Seq(S)
  <2>1. {"argument", "range"} \subseteq Tags
    BY DEF Tags
  <2>2. Raise("argument") \in S /\ Raise("range") \in S
    BY <1>4, <2>1, BareSteps
  <2>. QED
    BY <2>2, Few
<1>7. read_memory(a.block, a.mem) \in Seq(S) /\ read_memory(a.block, 0) \in Seq(S)
  BY <1>3, <1>4, QuietIn, SeqMonotonic
<1>8. Setup(a) \o read_memory(a.block, a.mem) \in Seq(S)
  BY <1>5, <1>7, Few
<1>9. Expand("read", a) = read(a, memory, flash)
  BY Zenon DEF Expand
<1>10. read(a, memory, flash) \in Seq(S)
  <2>. HIDE DEF a
  <2>. QED
    BY <1>6, <1>7, <1>8 DEF read
<1>. QED
  BY <1>9, <1>10 DEF S

-----------------------------------------------------------------------------
(* One step, and what is said.                                              *)

\* Part of a block.
LEMMA PartOf ==
    ASSUME NEW b \in Blocks, NEW n \in 0 .. b.length
    PROVE  /\ Points(Block(b.start, b.start + n)) \subseteq Points(b)
           /\ Points(Block(b.start, b.start + b.length)) = Points(b)
<1>1. b.end = b.start + b.length /\ b.start \in Nat /\ b.length \in Nat
  BY DEF Blocks
<1>. QED
  BY <1>1 DEF Points, Block

\* The step that makes it, once done, leaves what is then said.
LEMMA DoesMakes ==
    ASSUME TypeInv, NEW step \in Steps, NEW name \in Makers, Makes(step, name),
           step.do \notin HostSteps, Accepts(step), Does(step, Size(step)),
           step.do = "program" => Erased(step, content)
    PROVE  Told(name, content')
<1>1. /\ step.do \in {"erase", "program"} /\ step.arg = Mark(name)
      /\ step.mem = Arg(name).mem /\ step.block = Arg(name).block
  BY DEF Makes, HostSteps
<1>2. PICK b \in Blocks : b = step.block
  BY DEF Steps
<1>3. step.mem \in {0, 1}
  BY DEF Steps
<1>4. FlashCells(step.mem) \subseteq Addr /\ Cells(step.mem) \subseteq Addr
  BY MemoryAssumption DEF FlashCells, Cells, Addr
<1>5. /\ step.do = "erase" => Points(b) \subseteq FlashCells(step.mem)
      /\ step.do = "program" => Points(b) \subseteq Cells(step.mem)
  <2>1. ASSUME step.do = "erase"
        PROVE  Points(b) \subseteq FlashCells(step.mem)
    BY <1>2, <2>1, Zenon DEF Accepts
  <2>2. ASSUME step.do = "program"
        PROVE  Points(b) \subseteq Cells(step.mem)
    <3>1. step.do # "erase" /\ step.do \in {"program", "read"}
      BY <2>2
    <3>. QED
      BY <1>2, <3>1, Zenon DEF Accepts
  <2>. QED
    BY <2>1, <2>2
<1>6. Points(b) \subseteq Addr
  BY <1>1, <1>4, <1>5
<1>7. PICK n : n = Size(step)
  OBVIOUS
<1>8. Points(Block(b.start, b.start + n)) = Points(b)
  <2>1. n = b.length
    BY <1>1, <1>2, <1>7 DEF Size
  <2>2. 0 \in 0 .. b.length
    BY DEF Blocks
  <2>. QED
    BY <2>1, <2>2, PartOf
<1>9. Points(b) \subseteq Reached(step, n)
  <2>1. CASE step.do = "program"
    BY <1>2, <1>8, <2>1, ReachedCells
  <2>2. CASE step.do = "erase"
    <3>1. Reached(step, n) =
            Sectors(Points(Block(step.block.start, step.block.start + n)))
              \cap FlashCells(step.mem)
      BY <2>2, Zenon DEF Reached
    <3>2. Points(b) \subseteq Sectors(Points(b))
      BY <1>6, OwnSector
    <3>. QED
      BY <1>2, <1>5, <1>8, <2>2, <3>1, <3>2
  <2>. QED
    BY <1>1, <2>1, <2>2
<1>10. ASSUME NEW a \in Points(b)
       PROVE  content'[step.mem][a] = step.arg
  <2>1. a \in Addr /\ a \in Reached(step, n)
    BY <1>6, <1>9
  <2>2. \/ content'[step.mem][a] = step.arg
        \/ /\ step.do = "program" /\ a \in FlashCells(step.mem)
           /\ content[step.mem][a] # "erased"
    BY <1>3, <1>7, <2>1, DoesCells
  <2>3. step.do = "program" /\ a \in FlashCells(step.mem) => content[step.mem][a] = "erased"
    BY <1>2 DEF Erased
  <2>. QED
    BY <2>2, <2>3
<1>. QED
  BY <1>1, <1>2, <1>6, <1>10 DEF Told

\* A step that spares it, done or half done, leaves it.
LEMMA DoesSpares ==
    ASSUME TypeInv, NEW step \in Steps, NEW name \in Makers, Spares(step, name),
           NEW n \in 0 .. Size(step), Does(step, n), Told(name, content)
    PROVE  Told(name, content')
<1>1. Arg(name).mem \in {0, 1}
  BY ArgTypes DEF Makers, Subcommands
<1>2. SUFFICES ASSUME NEW a \in Points(Arg(name).block)
               PROVE  content'[Arg(name).mem][a] = Mark(name)
  BY DEF Told
<1>3. a \in Addr /\ content[Arg(name).mem][a] = Mark(name)
  BY DEF Told
<1>4. ~ (Arg(name).mem = step.mem /\ a \in Reached(step, n))
  <2>. SUFFICES ASSUME Arg(name).mem = step.mem, a \in Reached(step, n)
                PROVE  FALSE
    OBVIOUS
  <2>1. step.do \in Writes
    BY ReachedCells
  <2>2. step.do = "program" /\ Points(step.block) \cap Points(Arg(name).block) = {}
    BY <2>1 DEF Spares
  <2>3. PICK b \in Blocks : b = step.block
    BY DEF Steps
  <2>4. n \in 0 .. b.length
    BY <2>2, <2>3 DEF Size
  <2>5. a \in Points(Block(b.start, b.start + n))
    BY <2>2, <2>3, ReachedCells
  <2>6. a \in Points(b)
    BY <2>4, <2>5, PartOf
  <2>. QED
    BY <2>2, <2>3, <2>6
<1>. QED
  BY <1>1, <1>3, <1>4, DoesCells

\* Steps are taken away from the front.
LEMMA HonestRest ==
    ASSUME NEW t \in Seq(Steps), NEW u \in Seq(Steps), NEW n \in Nat \ {0},
           Len(t) = n + Len(u), \A k \in DOMAIN u : u[k] = t[n + k],
           NEW name, NEW c, NEW c2, NEW s, Honest(name, t, c, s),
           \A k \in DOMAIN u, j \in 1 .. n :
              Makes(t[j], name) /\ Ahead(t, j, n + k) => Told(name, c2),
           Told(name, c) /\ Spares(t[1], name) => Told(name, c2)
    PROVE  Honest(name, u, c2, s)
<1>1. Announced(t, name, c)
  BY DEF Honest
<1>2. Announced(u, name, c2)
  BY <1>1, AnnouncedRest
<1>3. ASSUME name \in s
      PROVE  Told(name, c2) /\ \A i \in DOMAIN u : Spares(u[i], name)
  <2>1. Told(name, c) /\ \A i \in DOMAIN t : Spares(t[i], name)
    BY <1>3 DEF Honest
  <2>2. 1 \in DOMAIN t /\ \A i \in DOMAIN u : n + i \in DOMAIN t
    OBVIOUS
  <2>. QED
    BY <2>1, <2>2
<1>. QED
  BY <1>2, <1>3 DEF Honest

\* Nothing is left.
LEMMA HonestEnd ==
    ASSUME NEW t \in Seq(Steps), t # << >>, NEW name, NEW c, NEW c2, NEW s,
           Honest(name, t, c, s), Told(name, c) /\ Spares(t[1], name) => Told(name, c2)
    PROVE  Honest(name, << >>, c2, s)
<1>1. PICK u \in Seq(Steps) : u = << >> /\ Len(u) = 0 /\ DOMAIN u = {}
  <2>1. << >> \in Seq(Steps)
    BY Few
  <2>2. PICK u \in Seq(Steps) : u = << >>
    BY <2>1
  <2>3. Len(u) = 0 /\ DOMAIN u = 1 .. Len(u)
    BY <2>2
  <2>4. 1 .. 0 = {}
    OBVIOUS
  <2>. QED
    BY <2>2, <2>3, <2>4
<1>2. PICK n \in Nat \ {0} : n = Len(t)
  <2>1. Len(t) \in Nat /\ Len(t) # 0
    OBVIOUS
  <2>. QED
    BY <2>1
<1>3. Len(t) = n + Len(u)
  BY <1>1, <1>2
<1>4. Honest(name, u, c2, s)
  BY <1>1, <1>3, HonestRest
<1>. QED
  BY <1>1, <1>4

\* What is asked of a subcommand depends on the command line alone.
LEMMA HonestConstant ==
    ASSUME inv' = inv, NEW name, NEW t, NEW c, NEW s,
           t = todo', c = content', s = said', Honest(name, t, c, s)
    PROVE  Honest(name, todo, content, said)'
<1>1. Arg(name)' = Arg(name)
  BY DEF Arg
<1>2. (Points(Arg(name).block))' = Points(Arg(name).block)
  BY <1>1 DEF Points
<1>3. \A x : Spares(x, name)' = Spares(x, name) /\ Makes(x, name)' = Makes(x, name)
  BY <1>1, <1>2 DEF Spares, Makes, Says, Points
<1>. QED
  BY <1>1, <1>2, <1>3
     DEF Honest, Announced, MadeAt, After, Told, Spares, Makes, Says, Points, Ahead

\* Whether another subcommand may undo it depends on the command line alone.
LEMMA AloneConstant ==
    ASSUME inv' = inv, NEW name
    PROVE  Alone(name)' = Alone(name)
<1>1. Apart' = Apart
  <2>1. (ExconfCells(Arg("read")))' = ExconfCells(Arg("read"))
    BY Zenon DEF ExconfCells, Arg
  <2>2. (Arg("write"))' = Arg("write")
    BY DEF Arg
  <2>. QED
    BY <2>1, <2>2 DEF Apart
<1>2. (Arg("erase"))' = Arg("erase")
  BY DEF Arg
<1>. QED
  BY <1>1, <1>2 DEF Alone

\* It is enough to look at one subcommand at a time.
LEMMA TellNext ==
    ASSUME inv' = inv,
           AutoErase /\ inv.origin = << >> =>
              \A name \in Makers : Alone(name) =>
                 \E t, c, s : /\ t = todo' /\ c = content' /\ s = said'
                              /\ Honest(name, t, c, s)
    PROVE  TellInv'
<1>1. AutoErase' = AutoErase
  BY AutoEraseConstant
<1>2. SUFFICES ASSUME AutoErase, inv.origin = << >>, NEW name \in Makers, Alone(name)
               PROVE  Honest(name, todo, content, said)'
  <2>1. \A name : Alone(name)' = Alone(name)
    BY AloneConstant
  <2>. QED
    BY <1>1, <2>1 DEF TellInv
<1>3. PICK t, c, s : t = todo' /\ c = content' /\ s = said' /\ Honest(name, t, c, s)
  BY <1>2
<1>. QED
  BY <1>3, HonestConstant

\* A sequence of elements of a set.
LEMMA SeqInto ==
    ASSUME NEW S, NEW T, NEW r \in Seq(T), \A i \in DOMAIN r : r[i] \in S
    PROVE  r \in Seq(S)
OBVIOUS

\* Steps that are left are steps.
LEMMA TodoSteps == CliInv => todo \in Seq(Steps)
<1>1. CliInv => todo \in Seq(Fits) /\ Fits \subseteq Steps
  BY DEF CliInv, TypeInv, Fits
<1>. QED
  BY <1>1, SeqMonotonic

\* A step that is done does what is said after it.
LEMMA OkTell ==
    ASSUME CliInv, SpoilInv, AutoErase, CallOk, NEW name \in Makers,
           Honest(name, todo, content, said)
    PROVE  \E t, c, s : t = todo' /\ c = content' /\ s = said' /\ Honest(name, t, c, s)
<1>1. Orderly(todo, content, memory)
  BY DEF SpoilInv
<1>2. PICK step :
        /\ step = Head(todo) /\ Does(step, Size(step)) /\ Learn(step) /\ Accepts(step)
        /\ step.do \notin HostSteps
        /\ todo # << >> /\ said' = said
  BY DEF CallOk
<1>3. PICK t \in Seq(Steps) : t = todo /\ t # << >> /\ t[1] = step /\ step \in Steps
  <2>1. todo \in Seq(Steps)
    BY TodoSteps
  <2>2. Head(todo) = todo[1] /\ Head(todo) \in Steps
    BY <1>2, <2>1
  <2>. QED
    BY <1>2, <2>1, <2>2
<1>4. step.do = "program" => Erased(step, content)
  BY <1>1, <1>3, HeadReady
<1>5. TypeInv
  BY DEF CliInv
<1>6. Size(step) \in 0 .. Size(step)
  BY <1>3 DEF Steps, Size, Blocks
<1>7. PICK c2 : c2 = content'
  OBVIOUS
<1>8. Makes(step, name) => Told(name, c2)
  BY <1>2, <1>3, <1>4, <1>5, <1>7, DoesMakes
<1>9. Told(name, content) /\ Spares(step, name) => Told(name, c2)
  BY <1>2, <1>3, <1>5, <1>6, <1>7, DoesSpares
<1>10. todo' = << >> \/ todo' = Tail(t)
  BY <1>2, <1>3 DEF Learn, Stop
<1>11. CASE todo' = << >>
  <2>1. Honest(name, << >>, c2, said)
    BY <1>3, <1>9, HonestEnd
  <2>. QED
    BY <1>2, <1>7, <1>11, <2>1
<1>12. CASE todo' = Tail(t)
  <2>0. Tail(t) \in Seq(Steps)
    BY <1>3
  <2>1. PICK u \in Seq(Steps) : u = Tail(t)
    BY <2>0
  <2>2. PICK n \in Nat \ {0} : n = 1
    OBVIOUS
  <2>3. Len(t) = n + Len(u) /\ \A k \in DOMAIN u : u[k] = t[n + k]
    BY <1>3, <2>1, <2>2
  <2>4. \A j \in 1 .. n : j = 1
    BY <2>2
  <2>5. Honest(name, u, c2, said)
    BY <1>3, <1>8, <1>9, <2>3, <2>4, HonestRest
  <2>. QED
    BY <1>2, <1>7, <1>12, <2>1, <2>5
<1>. QED
  BY <1>10, <1>11, <1>12

\* A step that fails skips what relies on it, the saying included.
LEMMA FailTell ==
    ASSUME CliInv, NEW kind, CallFails(kind), NEW name \in Makers,
           Honest(name, todo, content, said)
    PROVE  \E t, c, s : t = todo' /\ c = content' /\ s = said' /\ Honest(name, t, c, s)
<1>1. PICK step :
        /\ step = Head(todo)
        /\ \E l \in 0 .. Size(step) : Does(step, l)
        /\ IF kind \in step.caught
           THEN todo' = SubSeq(todo, 2 + step.skip, Len(todo)) /\ UNCHANGED exit
           ELSE Stop("error")
        /\ said' = said /\ todo # << >>
  BY Zenon DEF CallFails
<1>2. PICK t \in Seq(Steps) :
        t = todo /\ t # << >> /\ t[1] = step /\ step \in Steps /\ step.skip \in Nat
  <2>1. todo \in Seq(Steps)
    BY TodoSteps
  <2>2. Head(todo) = todo[1] /\ Head(todo) \in Steps
    BY <1>1, <2>1
  <2>3. step.skip \in Nat
    BY <1>1, <2>2 DEF Steps
  <2>. QED
    BY <1>1, <2>1, <2>2, <2>3
<1>3. PICK c2 : c2 = content'
  OBVIOUS
<1>4. Told(name, content) /\ Spares(step, name) => Told(name, c2)
  <2>1. PICK l \in 0 .. Size(step) : Does(step, l)
    BY <1>1
  <2>. QED
    BY <1>2, <1>3, <2>1, DoesSpares DEF CliInv
<1>5. Honest(name, << >>, c2, said)
  BY <1>2, <1>4, HonestEnd
<1>6. CASE kind \notin step.caught
  <2>1. todo' = << >>
    BY <1>1, <1>6 DEF Stop
  <2>. QED
    BY <1>1, <1>3, <1>5, <2>1
<1>7. CASE kind \in step.caught
  <2>1. PICK n \in Nat \ {0} : n = 1 + step.skip
    BY <1>2
  <2>2. PICK u \in Seq(Steps) : u = SubSeq(t, n + 1, Len(t)) /\ u = todo'
    <3>1. SubSeq(t, n + 1, Len(t)) \in Seq(Steps)
      BY <1>2
    <3>2. todo' = SubSeq(t, n + 1, Len(t))
      <4>1. todo' = SubSeq(t, 2 + step.skip, Len(t))
        BY <1>1, <1>2, <1>7
      <4>2. 2 + step.skip = n + 1
        BY <1>2, <2>1
      <4>. QED
        BY <4>1, <4>2
    <3>. QED
      BY <3>1, <3>2
  <2>3. CASE n >= Len(t)
    <3>1. u = << >>
      BY <1>2, <2>2, <2>3
    <3>. QED
      BY <1>1, <1>3, <1>5, <2>2, <3>1
  <2>4. CASE n < Len(t)
    <3>1. Len(t) = n + Len(u)
      <4>1. PICK m \in Nat : m = Len(t) /\ n < m
        BY <2>4
      <4>2. Len(u) = m - n
        BY <2>2, <4>1
      <4>. QED
        BY <4>1, <4>2
    <3>a. \A k \in DOMAIN u : k \in Nat \ {0} /\ u[k] = t[n + k]
      BY <1>2, <2>2
    <3>2. \A k \in DOMAIN u, j \in 1 .. n : Ahead(t, j, n + k) => FALSE
      <4>. SUFFICES ASSUME NEW k \in DOMAIN u, NEW j \in 1 .. n, Ahead(t, j, n + k)
                    PROVE  FALSE
        OBVIOUS
      <4>1. 1 \in 1 .. j /\ t[1].caught # {} /\ 1 + t[1].skip = n
        BY <1>2, <1>7, <2>1
      <4>2. n \in j .. (n + k) - 1
        BY <3>a
      <4>. QED
        BY <4>1, <4>2 DEF Ahead
    <3>3. /\ \A k \in DOMAIN u : u[k] = t[n + k]
          /\ \A k \in DOMAIN u, j \in 1 .. n :
                Makes(t[j], name) /\ Ahead(t, j, n + k) => Told(name, c2)
      BY <3>a, <3>2
    <3>4. Honest(name, t, content, said) /\ t[1] = step
      BY <1>2
    <3>5. Honest(name, u, c2, said)
      BY <1>4, <3>1, <3>3, <3>4, HonestRest
    <3>. QED
      BY <1>1, <1>3, <2>2, <3>5
  <2>. QED
    BY <2>3, <2>4
<1>. QED
  BY <1>6, <1>7

\* What is said is done by then.
LEMMA SayTell ==
    ASSUME CliInv, SayStep, NEW name \in Makers, Honest(name, todo, content, said)
    PROVE  \E t, c, s : t = todo' /\ c = content' /\ s = said' /\ Honest(name, t, c, s)
<1>1. /\ todo # << >> /\ Head(todo).do = "say" /\ todo' = Tail(todo)
      /\ said' = said \cup {Head(todo).arg} /\ content' = content
  BY DEF SayStep
<1>2. PICK t \in Seq(Steps) :
        t = todo /\ t # << >> /\ t[1] = Head(todo) /\ t[1].do = "say"
  BY <1>1, TodoSteps
<1>0. Tail(t) \in Seq(Steps)
  BY <1>2
<1>3. PICK u \in Seq(Steps) : u = Tail(t)
  BY <1>0
<1>4. PICK n \in Nat \ {0} : n = 1
  OBVIOUS
<1>5. Len(t) = n + Len(u) /\ \A k \in DOMAIN u : u[k] = t[n + k] /\ n + k \in DOMAIN t
  BY <1>2, <1>3, <1>4
<1>6. \A j \in 1 .. n : ~ Makes(t[j], name)
  <2>1. \A j \in 1 .. n : j = 1
    BY <1>4
  <2>. QED
    BY <1>2, <2>1 DEF Makes
<1>7. PICK c : c = content
  OBVIOUS
<1>8. Honest(name, u, c, said)
  BY <1>2, <1>5, <1>6, <1>7, HonestRest
<1>9. ASSUME t[1].arg = name
      PROVE  Told(name, c) /\ \A i \in DOMAIN u : Spares(u[i], name)
  <2>1. 1 \in DOMAIN t /\ Says(t[1], name)
    BY <1>2, <1>9 DEF Says
  <2>2. /\ After(t, 1, name)
        /\ Told(name, c) \/ \E j \in 1 .. 1 - 1 : MadeAt(t, j, 1, name)
    BY <1>2, <1>7, <2>1 DEF Honest, Announced
  <2>3. 1 .. 1 - 1 = {}
    OBVIOUS
  <2>4. Told(name, c)
    BY <2>2, <2>3
  <2>5. \A i \in DOMAIN u : n + i \in 1 + 1 .. Len(t)
    BY <1>3, <1>4, <1>5
  <2>6. \A i \in DOMAIN u : Spares(u[i], name)
    BY <1>5, <2>2, <2>5 DEF After
  <2>. QED
    BY <2>4, <2>6
<1>10. PICK s : s = said \cup {t[1].arg}
  OBVIOUS
<1>11. Honest(name, u, c, s)
  BY <1>8, <1>9, <1>10 DEF Honest
<1>. QED
  BY <1>1, <1>2, <1>3, <1>7, <1>10, <1>11

\* A decision: the steps of the subcommand make what is said after them, and those of
\* another spare what was said.
LEMMA DecideTell ==
    ASSUME CliInv, SpoilInv, AutoErase, DecideStep, NEW name \in Makers, Alone(name),
           Honest(name, todo, content, said)
    PROVE  \E t, c, s : t = todo' /\ c = content' /\ s = said' /\ Honest(name, t, c, s)
<1>1. PICK step \in Fits :
        /\ step = Head(todo) /\ step.do = "decide" /\ todo # << >>
        /\ todo' = Expand(step.arg, Arg(step.arg)) \o Tail(todo)
        /\ UNCHANGED <<inv, host, content>>
  BY Rest, Zenon DEF DecideStep, Arg, CliInv
<1>2. PICK t \in Seq(Steps) : t = todo /\ t # << >> /\ t[1] = step
  BY <1>1, TodoSteps
<1>3. PICK x \in inv.given \ {"reset"} : x = step.arg
  BY <1>1 DEF Fits
<1>4. TypeInv /\ Ordered
  BY DEF CliInv, SpoilInv
<1>5. PICK e : e = Expand(x, Arg(x))
  OBVIOUS
<1>6. e \in Seq(Inner) /\ Closed(e)
  BY <1>3, <1>4, <1>5, ExpandInner, ExpandSafe DEF Safe
<1>7. t[1].arg = name => e \in Seq(Bare) /\ Ends(e, name)
  BY <1>2, <1>3, <1>4, <1>5, ExpandFinal DEF Final
<1>8. ASSUME Spares(t[1], name)
      PROVE  \A i \in DOMAIN e : Spares(e[i], name)
  <2>1. name = "write" /\ x = "read"
    BY <1>1, <1>2, <1>3, <1>8 DEF Spares
  <2>2. Apart
    BY <2>1 DEF Alone
  <2>3. PICK S : S = {s \in Steps : Spares(s, "write")}
    OBVIOUS
  <2>4. e \in Seq(S)
    BY <1>4, <1>5, <2>1, <2>2, <2>3, ReadSpares
  <2>5. \A i \in DOMAIN e : e[i] \in S
    BY <2>4
  <2>. QED
    BY <2>1, <2>3, <2>5
<1>0. Tail(t) \in Seq(Steps)
  BY <1>2
<1>9. PICK r \in Seq(Steps) : r = Tail(t)
  BY <1>0
<1>10. PICK c : c = content
  OBVIOUS
<1>11. Announced(e \o r, name, c)
  <2>1. Announced(t, name, c)
    BY <1>2, <1>10 DEF Honest
  <2>. QED
    BY <1>1, <1>2, <1>6, <1>7, <1>8, <1>9, <2>1, AnnouncedDecided
<1>12. ASSUME name \in said
       PROVE  Told(name, c) /\ \A i \in DOMAIN (e \o r) : Spares((e \o r)[i], name)
  <2>1. Told(name, c) /\ \A i \in DOMAIN t : Spares(t[i], name)
    BY <1>2, <1>10, <1>12 DEF Honest
  <2>2. \A i \in DOMAIN e : Spares(e[i], name)
    BY <1>2, <1>8, <2>1
  <2>3. PICK S : S = {s \in Steps : Spares(s, name)}
    OBVIOUS
  <2>4. Inner \subseteq Steps
    BY DEF Inner
  <2>5. \A i \in DOMAIN e : e[i] \in S
    <3>1. \A i \in DOMAIN e : e[i] \in Inner
      BY <1>6
    <3>. QED
      BY <2>2, <2>3, <2>4, <3>1
  <2>6. \A i \in DOMAIN r : r[i] \in S
    <3>1. \A i \in DOMAIN r : r[i] \in Steps /\ i + 1 \in DOMAIN t /\ r[i] = t[i + 1]
      BY <1>2, <1>9
    <3>. QED
      BY <2>1, <2>3, <3>1
  <2>7. e \in Seq(S) /\ r \in Seq(S)
    <3>1. e \in Seq(S)
      BY <1>6, <2>5, SeqInto
    <3>2. r \in Seq(S)
      BY <2>6, SeqInto
    <3>. QED
      BY <3>1, <3>2
  <2>8. PICK v \in Seq(S) : v = e \o r
    BY <2>7, Few
  <2>9. \A i \in DOMAIN v : v[i] \in S
    OBVIOUS
  <2>. QED
    BY <2>1, <2>3, <2>8, <2>9
<1>13. PICK v : v = e \o r
  OBVIOUS
<1>14. Honest(name, v, c, said)
  BY <1>11, <1>12, <1>13 DEF Honest
<1>15. todo' = v /\ content' = c /\ said' = said
  BY <1>1, <1>2, <1>3, <1>5, <1>9, <1>10, <1>13 DEF host
<1>. QED
  BY <1>14, <1>15

-----------------------------------------------------------------------------
(* What main says.                                                          *)

Silent(name)  == {s \in Steps : ~ Says(s, name)}
Sparing(name) == {s \in Steps : Spares(s, name)}

\* What it says of the subcommand is made by a step of its own, and spared after that.
Reports(t, name) ==
    /\ Safe(t)
    /\ \A k \in DOMAIN t : Says(t[k], name) =>
          After(t, k, name) /\ \E j \in 1 .. k - 1 : MadeAt(t, j, k, name)

\* What it says of another subcommand comes before.
LEMMA ReportsSilent ==
    ASSUME NEW name, NEW s \in Seq(Silent(name)), Safe(s), NEW t, Reports(t, name)
    PROVE  Reports(s \o t, name)
<1>1. PICK d \in Nat : d = Len(s)
  OBVIOUS
<1>2. t \in Seq(Steps) /\ s \in Seq(Steps) /\ Closed(s)
  BY DEF Reports, Safe
<1>3. PICK l \in Nat : l = Len(t)
  BY <1>2
<1>4. PICK u \in Seq(Steps) : u = s \o t
  BY <1>2, ConcatProperties
<1>5. /\ DOMAIN s = 1 .. d /\ DOMAIN t = 1 .. l /\ Len(u) = d + l /\ DOMAIN u = 1 .. d + l
      /\ \A i \in 1 .. d : u[i] = s[i] /\ ~ Says(s[i], name)
      /\ \A i \in 1 .. l : u[d + i] = t[i] /\ t[i] \in Steps
  <2>1. DOMAIN s = 1 .. d /\ DOMAIN t = 1 .. l
    BY <1>1, <1>2, <1>3
  <2>2. Len(u) = d + l /\ DOMAIN u = 1 .. d + l
    <3>1. Len(s \o t) = Len(s) + Len(t)
      BY <1>2, ConcatProperties, Zenon
    <3>. QED
      BY <1>1, <1>3, <1>4, <3>1
  <2>3. \A i \in 1 .. d : u[i] = s[i]
    BY <1>1, <1>2, <1>3, <1>4
  <2>4. \A i \in 1 .. d : ~ Says(s[i], name)
    <3>1. \A i \in DOMAIN s : s[i] \in Silent(name)
      OBVIOUS
    <3>. QED
      BY <2>1, <3>1 DEF Silent
  <2>5. \A i \in 1 .. l : u[d + i] = t[i]
    BY <1>1, <1>2, <1>3, <1>4
  <2>6. \A i \in 1 .. l : t[i] \in Steps
    BY <1>2, <1>3
  <2>. QED
    BY <2>1, <2>2, <2>3, <2>4, <2>5, <2>6
<1>6. \A x \in Steps : x.skip \in Nat
  BY DEF Steps
<1>7. \A i \in 1 .. d : u[i].skip \in Nat /\ (u[i].caught # {} => i + u[i].skip <= d)
  <2>1. \A i \in 1 .. d : s[i] \in Steps
    BY <1>1, <1>2
  <2>. QED
    BY <1>1, <1>2, <1>5, <1>6, <2>1 DEF Closed
<1>8. ASSUME NEW k \in 1 .. d + l, Says(u[k], name)
      PROVE  After(u, k, name) /\ \E j \in 1 .. k - 1 : MadeAt(u, j, k, name)
  <2>1. PICK h \in 1 .. l : k = d + h
    <3>1. ~ (k <= d)
      <4>. SUFFICES ASSUME k <= d PROVE FALSE
        OBVIOUS
      <4>1. k \in 1 .. d
        OBVIOUS
      <4>. QED
        BY <1>5, <1>8, <4>1
    <3>. QED
      BY <3>1
  <2>2. Says(t[h], name) /\ h \in Nat \ {0}
    BY <1>5, <1>8, <2>1
  <2>3. After(t, h, name) /\ \E j \in 1 .. h - 1 : MadeAt(t, j, h, name)
    BY <1>5, <2>2 DEF Reports
  <2>4. After(u, k, name)
    <3>1. SUFFICES ASSUME NEW i \in k + 1 .. d + l PROVE Spares(u[i], name)
      BY <1>5 DEF After
    <3>2. PICK g \in h + 1 .. l : i = d + g
      BY <2>1
    <3>. QED
      BY <1>3, <1>5, <2>3, <3>2 DEF After
  <2>5. PICK j \in 1 .. h - 1 : MadeAt(t, j, h, name)
    BY <2>3
  <2>6. /\ Makes(t[j], name) /\ Ahead(t, j, h)
        /\ \A i \in j + 1 .. h - 1 : Spares(t[i], name)
    BY <2>5 DEF MadeAt
  <2>7. \A i \in 1 .. h : u[d + i] = t[i] /\ t[i].skip \in Nat
    BY <1>5, <1>6
  <2>8. Ahead(u, d + j, d + h)
    BY <1>7, <2>2, <2>6, <2>7, AheadOn
  <2>9. \A i \in (d + j) + 1 .. k - 1 : Spares(u[i], name)
    <3>. SUFFICES ASSUME NEW i \in (d + j) + 1 .. k - 1 PROVE Spares(u[i], name)
      OBVIOUS
    <3>1. PICK g \in j + 1 .. h - 1 : i = d + g
      BY <2>1
    <3>2. g \in 1 .. l
      OBVIOUS
    <3>3. u[d + g] = t[g] /\ Spares(t[g], name)
      BY <1>5, <2>6, <3>2
    <3>. QED
      BY <3>1, <3>3
  <2>10. u[d + j] = t[j] /\ d + j \in 1 .. k - 1
    BY <1>5, <2>1
  <2>11. MadeAt(u, d + j, k, name)
    BY <2>1, <2>6, <2>8, <2>9, <2>10 DEF MadeAt
  <2>. QED
    BY <2>4, <2>10, <2>11
<1>9. Safe(s \o t)
  BY SafeConcat DEF Reports
<1>. QED
  BY <1>4, <1>5, <1>8, <1>9 DEF Reports

\* What comes after spares what it said.
LEMMA ReportsSparing ==
    ASSUME NEW name, NEW s \in Seq(Sparing(name)), Safe(s), NEW t, Reports(t, name)
    PROVE  Reports(t \o s, name)
<1>1. PICK l \in Nat : l = Len(s)
  OBVIOUS
<1>2. t \in Seq(Steps) /\ s \in Seq(Steps)
  BY DEF Reports, Safe
<1>3. PICK d \in Nat : d = Len(t)
  BY <1>2
<1>4. PICK u \in Seq(Steps) : u = t \o s
  BY <1>2, ConcatProperties
<1>5. /\ DOMAIN t = 1 .. d /\ Len(u) = d + l /\ DOMAIN u = 1 .. d + l
      /\ \A i \in 1 .. d : u[i] = t[i]
      /\ \A i \in 1 .. l : u[d + i] = s[i] /\ Spares(s[i], name)
  <2>1. DOMAIN s = 1 .. l /\ DOMAIN t = 1 .. d
    BY <1>1, <1>2, <1>3
  <2>2. Len(u) = d + l /\ DOMAIN u = 1 .. d + l
    <3>1. Len(t \o s) = Len(t) + Len(s)
      BY <1>2, ConcatProperties, Zenon
    <3>. QED
      BY <1>1, <1>3, <1>4, <3>1
  <2>3. \A i \in 1 .. d : u[i] = t[i]
    BY <1>1, <1>2, <1>3, <1>4
  <2>4. \A i \in 1 .. l : Spares(s[i], name)
    <3>1. \A i \in DOMAIN s : s[i] \in Sparing(name)
      OBVIOUS
    <3>. QED
      BY <2>1, <3>1 DEF Sparing
  <2>5. \A i \in 1 .. l : u[d + i] = s[i]
    BY <1>1, <1>2, <1>3, <1>4
  <2>. QED
    BY <2>1, <2>2, <2>3, <2>4, <2>5
<1>6. ASSUME NEW k \in 1 .. d + l, Says(u[k], name)
      PROVE  After(u, k, name) /\ \E j \in 1 .. k - 1 : MadeAt(u, j, k, name)
  <2>1. k \in 1 .. d
    <3>1. ~ (k > d)
      <4>. SUFFICES ASSUME k > d PROVE FALSE
        OBVIOUS
      <4>1. PICK g \in 1 .. l : k = d + g
        OBVIOUS
      <4>2. ~ Says(u[k], name)
        BY <1>5, <4>1 DEF Spares
      <4>. QED
        BY <1>6, <4>2
    <3>. QED
      BY <3>1
  <2>2. After(t, k, name) /\ \E j \in 1 .. k - 1 : MadeAt(t, j, k, name)
    BY <1>5, <1>6, <2>1 DEF Reports
  <2>3. After(u, k, name)
    <3>1. SUFFICES ASSUME NEW i \in k + 1 .. d + l PROVE Spares(u[i], name)
      BY <1>5 DEF After
    <3>2. CASE i <= d
      <4>1. i \in k + 1 .. d /\ i \in 1 .. d
        BY <2>1, <3>2
      <4>. QED
        BY <1>3, <1>5, <2>2, <4>1 DEF After
    <3>3. CASE i > d
      <4>1. PICK g \in 1 .. l : i = d + g
        BY <3>3
      <4>. QED
        BY <1>5, <4>1
    <3>. QED
      BY <3>2, <3>3
  <2>4. PICK j \in 1 .. k - 1 : MadeAt(t, j, k, name)
    BY <2>2
  <2>5. /\ Makes(t[j], name) /\ Ahead(t, j, k)
        /\ \A i \in j + 1 .. k - 1 : Spares(t[i], name)
    BY <2>4 DEF MadeAt
  <2>6. \A i \in 1 .. k : u[i] = t[i]
    BY <1>5, <2>1
  <2>7. Ahead(u, j, k)
    BY <2>5, <2>6 DEF Ahead
  <2>8. u[j] = t[j] /\ \A i \in j + 1 .. k - 1 : Spares(u[i], name)
    BY <2>5, <2>6
  <2>9. MadeAt(u, j, k, name)
    BY <2>5, <2>7, <2>8 DEF MadeAt
  <2>. QED
    BY <2>3, <2>9
<1>7. Safe(t \o s)
  BY SafeConcat DEF Reports
<1>. QED
  BY <1>4, <1>5, <1>6, <1>7 DEF Reports

\* What nothing is said of is not said.
LEMMA SilentReports ==
    ASSUME NEW name, NEW s \in Seq(Silent(name)), Safe(s)
    PROVE  Reports(s, name)
<1>1. \A k \in DOMAIN s : s[k] \in Silent(name)
  OBVIOUS
<1>. QED
  BY <1>1 DEF Reports, Silent

\* The announcement follows the decision.
LEMMA SaidReports ==
    ASSUME NEW name \in Makers
    PROVE  Reports(<< Decide(name), Say(name) >>, name)
<1>1. name \in Subcommands
  BY DEF Makers, Subcommands
<1>2. /\ Decide(name) \in Steps /\ Decide(name).caught = {} /\ Say(name) \in Steps
      /\ Plain(Decide(name)) /\ Plain(Say(name)) /\ Say(name).caught = {}
  BY <1>1, PlainSteps
<1>3. /\ Decide(name).do = "decide" /\ Decide(name).arg = name
      /\ Say(name).do = "say"
  BY DEF Decide, Say, Step
<1>4. PICK a \in Steps, b \in Steps : a = Decide(name) /\ b = Say(name)
  BY <1>2
<1>5. PICK t : t = << a, b >>
  OBVIOUS
<1>6. t \in Seq(Steps) /\ Len(t) = 2 /\ DOMAIN t = 1 .. 2 /\ t[1] = a /\ t[2] = b
  BY <1>5
<1>7. Safe(t)
  BY <1>2, <1>4, <1>5, PlainSafe
<1>8. ~ Says(t[1], name)
  BY <1>3, <1>4, <1>6 DEF Says
<1>9. After(t, 2, name) /\ MadeAt(t, 1, 2, name)
  <2>1. After(t, 2, name)
    BY <1>6 DEF After
  <2>2. Makes(t[1], name)
    BY <1>3, <1>4, <1>6 DEF Makes
  <2>3. Ahead(t, 1, 2)
    BY <1>2, <1>4, <1>6 DEF Ahead
  <2>. QED
    BY <2>1, <2>2, <2>3 DEF MadeAt
<1>10. Reports(t, name)
  <2>1. \A k \in 1 .. 2 : k = 1 \/ k = 2
    OBVIOUS
  <2>2. 1 \in 1 .. 2 - 1
    OBVIOUS
  <2>. QED
    BY <1>6, <1>7, <1>8, <1>9, <2>1, <2>2 DEF Reports
<1>. QED
  BY <1>4, <1>5, <1>10

\* What main does for another subcommand says nothing of this one, and may be such that it
\* spares what this one did.
LEMMA SubcommandSilent ==
    ASSUME NEW name \in Makers, NEW other \in Subcommands
    PROVE  /\ other # name => Subcommand(other) \in Seq(Silent(name))
           /\ other = "reset" => Subcommand(other) \in Seq(Sparing(name))
           /\ other = "read" /\ name = "write" => Subcommand(other) \in Seq(Sparing(name))
           /\ other = name => Reports(Subcommand(other), name)
<1>1. Sparing(name) \subseteq Silent(name) /\ Quiet \subseteq Sparing(name)
  BY QuietSpares DEF Sparing, Silent, Spares
<1>2. /\ Decide(other) \in Steps /\ Say(other) \in Steps
      /\ Decide(other).do = "decide" /\ Decide(other).arg = other
      /\ Say(other).do = "say" /\ Say(other).arg = other
  <2>1. Decide(other) \in Steps /\ Say(other) \in Steps
    BY PlainSteps
  <2>. QED
    BY <2>1 DEF Decide, Say, Step
<1>3. Decide(other) \in Silent(name)
  BY <1>2 DEF Silent, Says
<1>4. other # name => Say(other) \in Silent(name) /\ Say(other) \in Sparing(name)
  BY <1>2 DEF Silent, Sparing, Spares, Says, Writes
<1>5. other = "read" /\ name = "write" => Decide(other) \in Sparing(name)
  BY <1>2 DEF Sparing, Spares, Says, Writes
<1>6. /\ get_memory_range \in Seq(Silent(name)) /\ get_memory_range \in Seq(Sparing(name))
      /\ reset \in Seq(Silent(name)) /\ reset \in Seq(Sparing(name))
  BY <1>1, QuietIn, SeqMonotonic
<1>7. \A S : /\ Decide(other) \in S => << Decide(other) >> \in Seq(S)
             /\ Say(other) \in S => << Say(other) >> \in Seq(S)
             /\ Decide(other) \in S /\ Say(other) \in S
                   => << Decide(other), Say(other) >> \in Seq(S)
  BY Few
<1>8. ASSUME other # name
      PROVE  Subcommand(other) \in Seq(Silent(name))
  <2>1. PICK S : S = Silent(name)
    OBVIOUS
  <2>2. /\ << Decide(other) >> \in Seq(S) /\ << Say(other) >> \in Seq(S)
        /\ << Decide(other), Say(other) >> \in Seq(S)
    BY <1>3, <1>4, <1>7, <1>8, <2>1
  <2>3. /\ get_memory_range \o << Decide(other), Say(other) >> \in Seq(S)
        /\ get_memory_range \o << Decide(other) >> \in Seq(S)
        /\ reset \o << Say(other) >> \in Seq(S)
    BY <1>6, <2>1, <2>2, Few
  <2>4. Subcommand(other) \in
          {get_memory_range \o << Decide(other), Say(other) >>,
           get_memory_range \o << Decide(other) >>, << Decide(other) >>,
           reset \o << Say(other) >>, << Decide(other), Say(other) >>}
    BY Zenon DEF Subcommand
  <2>. QED
    BY <2>1, <2>2, <2>3, <2>4
<1>9. ASSUME other = "reset"
      PROVE  Subcommand(other) \in Seq(Sparing(name))
  <2>1. other # name
    BY <1>9 DEF Makers
  <2>2. << Say(other) >> \in Seq(Sparing(name))
    BY <1>4, <1>7, <2>1
  <2>3. Subcommand(other) = reset \o << Say(other) >>
    BY <1>9, Zenon DEF Subcommand
  <2>. QED
    BY <1>6, <2>2, <2>3, Few
<1>10. ASSUME other = "read", name = "write"
       PROVE  Subcommand(other) \in Seq(Sparing(name))
  <2>1. << Decide(other) >> \in Seq(Sparing(name))
    BY <1>5, <1>7, <1>10
  <2>2. Subcommand(other) = get_memory_range \o << Decide(other) >>
    BY <1>10, Zenon DEF Subcommand
  <2>. QED
    BY <1>6, <2>1, <2>2, Few
<1>11. ASSUME other = name
       PROVE  Reports(Subcommand(other), name)
  <2>1. Reports(<< Decide(name), Say(name) >>, name)
    BY SaidReports
  <2>2. Reports(get_memory_range \o << Decide(name), Say(name) >>, name)
    BY <1>6, <2>1, RangesSafe, ReportsSilent
  <2>3. CASE name \in {"write", "fill"}
    <3>1. Subcommand(name) = get_memory_range \o << Decide(name), Say(name) >>
      BY <2>3, Zenon DEF Subcommand
    <3>. QED
      BY <1>11, <2>2, <3>1
  <2>4. CASE name = "erase"
    <3>1. Subcommand(name) = << Decide(name), Say(name) >>
      BY <2>4, Zenon DEF Subcommand
    <3>. QED
      BY <1>11, <2>1, <3>1
  <2>. QED
    BY <2>3, <2>4 DEF Makers
<1>. QED
  BY <1>8, <1>9, <1>10, <1>11

\* Several subcommands that say nothing of one.
LEMMA SilentConcat ==
    ASSUME NEW name, NEW s \in Seq(Silent(name)), NEW t \in Seq(Silent(name)),
           Safe(s), Safe(t)
    PROVE  s \o t \in Seq(Silent(name)) /\ Safe(s \o t)
BY Few, SafeConcat

\* main reports each subcommand no later one is bound to undo.
LEMMA MainReports ==
    ASSUME inv.given \subseteq Subcommands, NEW name \in Makers, Alone(name)
    PROVE  Reports(main(inv.given), name)
<1>. DEFINE If(x) == IF x \in inv.given THEN Subcommand(x) ELSE << >>
<1>1. << >> \in Seq(Silent(name)) /\ << >> \in Seq(Sparing(name)) /\ Safe(<< >>)
  BY Few, SafeConcat
<1>2. ASSUME NEW x \in Subcommands
      PROVE  /\ Safe(If(x))
             /\ x # name => If(x) \in Seq(Silent(name))
             /\ x = "reset" => If(x) \in Seq(Sparing(name))
             /\ x = "read" /\ name = "write" => If(x) \in Seq(Sparing(name))
             /\ x \notin inv.given => If(x) \in Seq(Sparing(name))
             /\ x = name => Reports(If(x), name)
  <2>1. Reports(<< >>, name)
    BY <1>1, SilentReports
  <2>. QED
    BY <1>1, <2>1, SubcommandSafe, SubcommandSilent
<1>3. main(inv.given) = If("info") \o If("write") \o If("read") \o If("fill")
                        \o If("erase") \o If("unlock") \o If("reset")
  BY DEF main
<1>. HIDE DEF If
<1>4. PICK i, w, r, f, e, u, z :
        /\ i = If("info") /\ w = If("write") /\ r = If("read") /\ f = If("fill")
        /\ e = If("erase") /\ u = If("unlock") /\ z = If("reset")
  OBVIOUS
<1>5. Safe(i) /\ Safe(w) /\ Safe(r) /\ Safe(f) /\ Safe(e) /\ Safe(u) /\ Safe(z)
  BY <1>2, <1>4 DEF Subcommands
<1>6. i \in Seq(Silent(name)) /\ r \in Seq(Silent(name)) /\ z \in Seq(Sparing(name))
  BY <1>2, <1>4 DEF Subcommands, Makers
<1>7. CASE name = "write"
  <2>1. Reports(w, name) /\ r \in Seq(Sparing(name)) /\ f \in Seq(Sparing(name))
        /\ e \in Seq(Sparing(name)) /\ u \in Seq(Sparing(name))
    <3>1. "fill" \notin inv.given /\ "erase" \notin inv.given /\ "unlock" \notin inv.given
      BY <1>7 DEF Alone
    <3>. QED
      BY <1>2, <1>4, <1>7, <3>1 DEF Subcommands
  <2>2. Reports(i \o w, name)
    BY <1>5, <1>6, <2>1, ReportsSilent
  <2>3. Reports((i \o w) \o r, name)
    BY <1>5, <2>1, <2>2, ReportsSparing
  <2>4. Reports(((i \o w) \o r) \o f, name)
    BY <1>5, <2>1, <2>3, ReportsSparing
  <2>5. Reports((((i \o w) \o r) \o f) \o e, name)
    BY <1>5, <2>1, <2>4, ReportsSparing
  <2>6. Reports(((((i \o w) \o r) \o f) \o e) \o u, name)
    BY <1>5, <2>1, <2>5, ReportsSparing
  <2>7. Reports((((((i \o w) \o r) \o f) \o e) \o u) \o z, name)
    BY <1>5, <1>6, <2>6, ReportsSparing
  <2>. QED
    BY <1>3, <1>4, <2>7
<1>8. CASE name = "fill"
  <2>1. Reports(f, name) /\ w \in Seq(Silent(name))
        /\ e \in Seq(Sparing(name)) /\ u \in Seq(Sparing(name))
    <3>1. "erase" \notin inv.given /\ "unlock" \notin inv.given
      BY <1>8 DEF Alone
    <3>. QED
      BY <1>2, <1>4, <1>8, <3>1 DEF Subcommands
  <2>2. i \o w \in Seq(Silent(name)) /\ Safe(i \o w)
    BY <1>5, <1>6, <2>1, SilentConcat
  <2>3. (i \o w) \o r \in Seq(Silent(name)) /\ Safe((i \o w) \o r)
    BY <1>5, <1>6, <2>2, SilentConcat
  <2>4. Reports(((i \o w) \o r) \o f, name)
    BY <2>1, <2>3, ReportsSilent
  <2>5. Reports((((i \o w) \o r) \o f) \o e, name)
    BY <1>5, <2>1, <2>4, ReportsSparing
  <2>6. Reports(((((i \o w) \o r) \o f) \o e) \o u, name)
    BY <1>5, <2>1, <2>5, ReportsSparing
  <2>7. Reports((((((i \o w) \o r) \o f) \o e) \o u) \o z, name)
    BY <1>5, <1>6, <2>6, ReportsSparing
  <2>. QED
    BY <1>3, <1>4, <2>7
<1>9. CASE name = "erase"
  <2>1. Reports(e, name) /\ w \in Seq(Silent(name)) /\ f \in Seq(Silent(name))
        /\ u \in Seq(Sparing(name))
    <3>1. "unlock" \notin inv.given
      BY <1>9 DEF Alone
    <3>. QED
      BY <1>2, <1>4, <1>9, <3>1 DEF Subcommands
  <2>2. i \o w \in Seq(Silent(name)) /\ Safe(i \o w)
    BY <1>5, <1>6, <2>1, SilentConcat
  <2>3. (i \o w) \o r \in Seq(Silent(name)) /\ Safe((i \o w) \o r)
    BY <1>5, <1>6, <2>2, SilentConcat
  <2>4. ((i \o w) \o r) \o f \in Seq(Silent(name)) /\ Safe(((i \o w) \o r) \o f)
    BY <1>5, <2>1, <2>3, SilentConcat
  <2>5. Reports((((i \o w) \o r) \o f) \o e, name)
    BY <2>1, <2>4, ReportsSilent
  <2>6. Reports(((((i \o w) \o r) \o f) \o e) \o u, name)
    BY <1>5, <2>1, <2>5, ReportsSparing
  <2>7. Reports((((((i \o w) \o r) \o f) \o e) \o u) \o z, name)
    BY <1>5, <1>6, <2>6, ReportsSparing
  <2>. QED
    BY <1>3, <1>4, <2>7
<1>. QED
  BY <1>7, <1>8, <1>9 DEF Makers

-----------------------------------------------------------------------------
(* The invariant holds.                                                     *)

\* A run begins with nothing said.
LEMMA InitTell == Init => TellInv
<1>. SUFFICES ASSUME Init, AutoErase, inv.origin = << >>, NEW name \in Makers, Alone(name)
              PROVE  Honest(name, todo, content, said)
  BY DEF TellInv
<1>1. inv.given \subseteq Subcommands
  BY InvocationsAssumption DEF Init
<1>2. PICK t : t = main(inv.given)
  OBVIOUS
<1>3. Reports(t, name)
  BY <1>1, <1>2, MainReports
<1>4. todo = t
  <2>1. t \in Seq(Steps)
    BY <1>3 DEF Reports, Safe
  <2>2. t \o << >> = t
    BY <2>1, ConcatEmptySeq
  <2>3. todo = t \o << >>
    BY <1>2 DEF Init
  <2>. QED
    BY <2>2, <2>3
<1>5. Announced(t, name, content)
  BY <1>3 DEF Reports, Announced
<1>6. said = {}
  BY DEF Init
<1>. QED
  BY <1>4, <1>5, <1>6 DEF Honest

\* A step preserves the invariant.
LEMMA StepTell == CliInv /\ SpoilInv /\ TellInv /\ [Next]_vars => TellInv'
<1>. SUFFICES ASSUME CliInv, SpoilInv, TellInv, [Next]_vars
              PROVE  TellInv'
  OBVIOUS
<1>1. inv' = inv
  <2>1. CallOk => inv' = inv
    BY DEF CallOk
  <2>2. \A kind : CallFails(kind) => inv' = inv
    BY DEF CallFails
  <2>3. DecideStep \/ SayStep \/ RaiseStep \/ Close \/ UNCHANGED vars => inv' = inv
    BY DEF DecideStep, SayStep, RaiseStep, Close, vars
  <2>. QED
    BY <2>1, <2>2, <2>3 DEF Next
<1>2. SUFFICES ASSUME AutoErase, inv.origin = << >>, NEW name \in Makers, Alone(name)
               PROVE  \E t, c, s : /\ t = todo' /\ c = content' /\ s = said'
                                   /\ Honest(name, t, c, s)
  BY <1>1, TellNext
<1>3. Honest(name, todo, content, said)
  BY <1>2 DEF TellInv
<1>4. CASE CallOk
  BY <1>2, <1>3, <1>4, OkTell
<1>5. ASSUME NEW kind, CallFails(kind)
      PROVE  \E t, c, s : /\ t = todo' /\ c = content' /\ s = said'
                          /\ Honest(name, t, c, s)
  BY <1>3, <1>5, FailTell
<1>6. CASE DecideStep
  BY <1>2, <1>3, <1>6, DecideTell
<1>7. CASE SayStep
  BY <1>3, <1>7, SayTell
<1>8. CASE RaiseStep
  <2>1. todo # << >> /\ todo' = << >> /\ content' = content /\ said' = said
    BY <1>8 DEF RaiseStep, Stop
  <2>2. todo \in Seq(Steps)
    BY TodoSteps
  <2>3. Honest(name, << >>, content, said)
    BY <1>3, <2>1, <2>2, HonestEnd
  <2>. QED
    BY <2>1, <2>3
<1>9. CASE Close \/ UNCHANGED vars
  <2>1. todo' = todo /\ content' = content /\ said' = said
    BY <1>9 DEF Close, vars, host
  <2>. QED
    BY <1>3, <2>1
<1>. QED
  BY <1>4, <1>5, <1>6, <1>7, <1>8, <1>9 DEF Next

\* A success that was printed is one: what write, fill and erase said they did is what the
\* device holds, wherever a later call failed, unless a later subcommand was bound to undo
\* it (main prints after each of them, cli.py:571-608).
THEOREM ReportedIsDoneHolds == Spec => []ReportedIsDone
<1>1. TellInv => ReportedIsDone
  <2>. SUFFICES ASSUME TellInv, AutoErase, inv.origin = << >>
                PROVE  /\ "write" \in said /\ inv.given \cap {"fill", "erase", "unlock"} = {}
                          /\ Apart => Holds("write", "data")
                       /\ "fill" \in said /\ inv.given \cap {"erase", "unlock"} = {}
                             => Holds("fill", "pattern")
                       /\ "erase" \in said /\ "unlock" \notin inv.given /\ ~ Arg("erase").all
                             => Holds("erase", "erased")
    BY DEF ReportedIsDone
  <2>1. \A name \in Makers : Alone(name) /\ name \in said => Holds(name, Mark(name))
    BY DEF TellInv, Honest, Told, Holds
  <2>2. /\ Mark("write") = "data" /\ Mark("fill") = "pattern" /\ Mark("erase") = "erased"
    BY DEF Mark
  <2>3. /\ inv.given \cap {"fill", "erase", "unlock"} = {} /\ Apart => Alone("write")
        /\ inv.given \cap {"erase", "unlock"} = {} => Alone("fill")
        /\ "unlock" \notin inv.given /\ ~ Arg("erase").all => Alone("erase")
    BY DEF Alone
  <2>4. /\ Alone("write") /\ "write" \in said => Holds("write", "data")
        /\ Alone("fill") /\ "fill" \in said => Holds("fill", "pattern")
        /\ Alone("erase") /\ "erase" \in said => Holds("erase", "erased")
    <3>1. "write" \in Makers /\ "fill" \in Makers /\ "erase" \in Makers
      BY DEF Makers
    <3>. QED
      BY <2>1, <2>2, <3>1
  <2>. QED
    BY <2>3, <2>4
<1>2. Init => CliInv /\ SpoilInv /\ TellInv
  BY InitInv, InitSpoil, InitTell
<1>3. CliInv /\ SpoilInv /\ TellInv /\ [Next]_vars => (CliInv /\ SpoilInv /\ TellInv)'
  BY StepInv, StepSpoil, StepTell
<1>. QED
  BY <1>1, <1>2, <1>3, PTL DEF Spec
=============================================================================

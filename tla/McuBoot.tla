------------------------------- MODULE McuBoot -------------------------------
(***************************************************************************)
(* What the methods of McuBoot, and the functions of cli.py on top of      *)
(* them, ask of the device: sequences of steps, a step being one call of   *)
(* the link (BootCommand) or something the host does between two calls.    *)
(* The sequences are what is left to do; Cli.tla runs them.                *)
(*                                                                         *)
(* An exception ends what is left, unless the step is in the scope of an   *)
(* except clause: caught says which exceptions it catches ("refused" is    *)
(* McuBootCommandError, "broken" any other), and skip how many steps to    *)
(* leave out after one.                                                    *)
(***************************************************************************)
EXTENDS MemoryRange

CONSTANTS
    Ram, Flash,   \* blocks of the internal memory; length 0 for none
    SectorSize,   \* of internal and external flash (FLASH_SECTOR_SIZE)
    Available,    \* commands the device has (AVAILABLE_COMMANDS)
    InfoTags      \* bound: properties info asks for

NoBlock == Block(0, 0)

Step(do, mem, block, arg) ==
    [do |-> do, mem |-> mem, block |-> block, arg |-> arg, caught |-> {}, skip |-> 0]

Catching(step, kinds, n) == [step EXCEPT !.caught = kinds, !.skip = n]

\* Mutant of Program: an except clause around the data phase.
ProgramCaught(mem, block) == Catching(Step("program", mem, block, "data"), {"refused"}, 0)

\* Calls of the link.
Get(tag)              == Step("get", 0, NoBlock, tag)
Command(tag)          == Step("command", 0, NoBlock, tag)
Erase(mem, block)     == Step("erase", mem, block, "erased")
EraseAll(mem)         == Step("eraseAll", mem, NoBlock, "erased")
Program(mem, block)   == Step("program", mem, block, "data")
Fill(block)           == Step("program", 0, block, "pattern")
Config(block)         == Step("program", 0, block, "config")
ReadBack(mem, block)  == Step("read", mem, block, "none")
SendFile(tag)         == Step("send", 0, NoBlock, tag)
Fuse                  == Step("fuse", 0, NoBlock, "none")

\* Steps of the host alone.
Raise(why)  == Step("raise", 0, NoBlock, why)
Say(name)   == Step("say", 0, NoBlock, name)
Decide(name) == Step("decide", 0, NoBlock, name)

-----------------------------------------------------------------------------
(* mboot.py.                                                               *)

\* A refused property ends the method; what was learnt before is kept.
get_memory_range ==
    << Catching(Get("RAM_START"), {"refused"}, 3), Catching(Get("RAM_SIZE"), {"refused"}, 2),
       Catching(Get("FLASH_START"), {"refused"}, 1), Catching(Get("FLASH_SIZE"), {"refused"}, 0) >>

\* Properties the device refuses are left out.
get_mcu_info == [i \in 1 .. InfoTags |-> Catching(Get("INFO"), {"refused"}, 0)]

\* The refused property is caught, but then str_value is not bound: an error
\* all the same.
get_exmemory_info == << Get("EXTERNAL_MEMORY_ATTRIBUTES") >>

\* Mutant of flash_erase_region: the memory id is not passed on.
EraseInternal(block, mem) == << Erase(0, block) >>

flash_erase_region(block, mem) == << Erase(mem, block) >>
flash_erase_all(mem)           == << EraseAll(mem) >>
flash_erase_all_unsecure       == << EraseAll(0) >>

read_memory(block, mem) ==
    IF block.length = 0 THEN << Raise("argument") >> ELSE << ReadBack(mem, block) >>

write_memory(block, mem) ==
    IF block.length = 0 THEN << Raise("argument") >>
    ELSE << Get("MAX_PACKET_SIZE"), Program(mem, block) >>

fill_memory(block, unitMatches) ==
    IF unitMatches THEN << Fill(block) >> ELSE << Raise("argument") >>

configure_memory == << Command("CONFIGURE_MEMORY") >>

get_property == << Get("PROPERTY") >>
set_property == << Command("SET_PROPERTY") >>
execute      == << Command("EXECUTE") >>
call         == << Command("CALL") >>

\* One error status, RELIABLE_UPDATE_SUCCESS, is the success.
reliable_update == << Command("RELIABLE_UPDATE") >>

flash_read_resource == << ReadBack(0, NoBlock) >>

\* exconf: where the configuration words go, and how many there are.
setup_external_memory(exconf) ==
    [i \in 1 .. exconf.words |->
        Config(Block(exconf.start + 4 * (i - 1), exconf.start + 4 * i))] \o configure_memory

\* The device is gone, or answers, or does not: all is well.
reset == << Catching(Command("RESET"), {"refused", "broken"}, 0) >>

flash_security_disable == << Command("FLASH_SECURITY_DISABLE") >>

\* erase is "erase", "none" or, in place of the memory id, a number: then
\* False, which is neither.
flash_image(block, erase, mem) ==
    IF block.length = 0 \/ erase = "number" THEN << Raise("argument") >>
    ELSE (IF erase = "none" THEN << >>
          ELSE << Get("FLASH_SECTOR_SIZE"),
                  Erase(mem, Block(block.start,
                                   block.start + AlignUp(block.length, SectorSize))) >>)
         \o << Get("MAX_PACKET_SIZE"), Program(mem, block) >>

\* An int of the right size is programmed, and then length is not bound.  With
\* a list byte_len is not bound, before anything is sent.
flash_program_once(data) ==
    IF data = "int" THEN << Fuse, Raise("name") >> ELSE << Raise("argument") >>

flash_read_once(byteCount) ==
    IF byteCount \in {4, 8} THEN << Get("FLASH_READ_ONCE") >> ELSE << Raise("argument") >>

efuse_read_once          == flash_read_once(4)
efuse_program_once(data) == flash_program_once(data)

\* data is bound only when a file name is given.
receive_sb_file(name) ==
    IF name THEN << Get("MAX_PACKET_SIZE"), SendFile("RECEIVE_SB_FILE") >>
    ELSE << Raise("name") >>

generate_key_blob ==
    << Get("MAX_PACKET_SIZE"), SendFile("GENERATE_KEY_BLOB"),
       ReadBack(0, NoBlock) >>

key_provisioning(operation) ==
    CASE operation \in {"set_user_key", "write_key_store"} ->
           << Get("MAX_PACKET_SIZE"), SendFile("KEY_PROVISIONING") >>
      [] operation = "read_key_store" -> << ReadBack(0, NoBlock) >>
      [] operation = "invalid" -> << Raise("argument") >>
      [] OTHER -> << Command("KEY_PROVISIONING") >>

-----------------------------------------------------------------------------
(* cli.py: one subcommand.  a is its arguments: the block, the memory id   *)
(* (0 internal, 1 external) and the flags; memory and flash are the ranges *)
(* the host knows.                                                         *)

\* An address without words still configures the memory.
Setup(a) == IF a.mem # 0 /\ a.exconf.given THEN setup_external_memory(a.exconf)
            ELSE << >>

info(a) == get_mcu_info \o (IF a.mem = 0 THEN << >> ELSE Setup(a) \o get_exmemory_info)

\* A MemoryBlock of length 0 is a ValueError.
write(a, memory, flash) ==
    IF a.block.length = 0 THEN << Raise("argument") >>
    ELSE IF a.mem # 0
    THEN Setup(a) \o (IF a.noErase THEN << >> ELSE flash_erase_region(a.block, a.mem))
         \o write_memory(a.block, a.mem)
    ELSE IF IsIn(a.block, flash)
    THEN (IF a.noErase THEN << >> ELSE flash_erase_region(a.block, 0))
         \o << Get("RAM_START") >> \o write_memory(a.block, 0)
    ELSE IF IsIn(a.block, memory)
    THEN << Get("RAM_START") >> \o write_memory(a.block, 0)
    ELSE << Raise("range") >>

read(a, memory, flash) ==
    IF a.block.length = 0 THEN << Raise("argument") >>
    ELSE IF a.mem # 0 THEN Setup(a) \o read_memory(a.block, a.mem)
    ELSE IF IsIn(a.block, flash) \/ IsIn(a.block, memory) THEN read_memory(a.block, 0)
    ELSE << Raise("range") >>

\* The block that is checked and erased is eight times the one filled.
FillBlock(block) == Block(block.start, block.start + block.length * 8)

fill(a, memory, flash) ==
    IF a.block.length = 0 THEN << Raise("argument") >>
    ELSE IF IsIn(FillBlock(a.block), flash)
    THEN (IF a.noErase THEN << >> ELSE flash_erase_region(FillBlock(a.block), 0))
         \o fill_memory(a.block, a.unitMatches)
    ELSE IF IsIn(FillBlock(a.block), memory)
    THEN fill_memory(a.block, a.unitMatches)
    ELSE << Raise("range") >>

\* No address, and not everything either: an error before any call.  A length of
\* 0 goes to the device.
erase(a) ==
    IF ~a.address /\ ~a.all THEN << Raise("argument") >>
    ELSE Setup(a) \o
         (IF ~a.all THEN flash_erase_region(a.block, a.mem)
          ELSE << Get("AVAILABLE_COMMANDS") >> \o
               (IF "FLASH_ERASE_ALL_UNSECURE" \in Available /\ a.mem = 0
                THEN flash_erase_all_unsecure
                ELSE IF "FLASH_ERASE_ALL" \in Available THEN flash_erase_all(a.mem)
                ELSE << Raise("unsupported") >>))

unlock(a) == IF a.key THEN flash_security_disable ELSE flash_erase_all_unsecure

Subcommands == { "info", "write", "read", "fill", "erase", "unlock", "reset" }

\* What main does for one subcommand: its calls, and what it prints.
Subcommand(name) ==
    CASE name \in {"write", "fill"} -> get_memory_range \o << Decide(name), Say(name) >>
      [] name = "read"  -> get_memory_range \o << Decide(name) >>
      [] name = "info"  -> << Decide(name) >>
      [] name = "reset" -> reset \o << Say(name) >>
      [] OTHER          -> << Decide(name), Say(name) >>

\* The subcommands given, in the order main has them, whatever their order on
\* the command line was.
main(given) ==
    LET If(name) == IF name \in given THEN Subcommand(name) ELSE << >>
    IN  If("info") \o If("write") \o If("read") \o If("fill") \o If("erase")
        \o If("unlock") \o If("reset")

=============================================================================

----------------------------- MODULE MCCommandArgs -----------------------------
(* A different word for each argument, so that no two can be mistaken for     *)
(* each other; -u with vid and pid, -s with and without port and speed.       *)
EXTENDS CommandArgs

SomeWords ==
    [d \in Dests \cup {"config", "port"} |->
        CASE d = "memory_id"  -> "8"
          [] d = "address"    -> "0x1000"
          [] d = "length"     -> "0x20"
          [] d = "filename"   -> "f.bin"
          [] d = "byte_count" -> "0x30"
          [] d = "pattern"    -> "0x55"
          [] d = "unit"       -> "byte"
          [] d = "-o"         -> "0x40"
          [] d = "-k"         -> "S:12345678"
          [] d = "config"     -> "0xC0"
          [] OTHER            -> "0x15a2,0x0073"]

SomeNumbers == {"0", "8", "0x1000", "0x20", "0x30", "0x55", "0x40", "0xC0", "0x100", "5000"}

Line(option, words) == [option |-> option, words |-> words]

SomePeripherals ==
    { Line("-u", <<SomeWords["port"]>>), Line("-s", <<>>), Line("-s", <<"5000">>),
      Line("-s", <<SomeWords["port"], "5000">>) }

SomeOrigins ==
    { <<"reset">>, <<"read-memory", "0x1000", "0x20">>, <<"read-memory", "0x1000">>,
      <<"erase">> }

SomeArity == [m \in {"reset", "read-memory"} |-> IF m = "reset" THEN {0} ELSE 2 .. 4]
=============================================================================

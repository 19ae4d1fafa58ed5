---------------------------- MODULE PlatformConf ----------------------------
(***************************************************************************)
(* Platform of optimus.py: the lines of platform.conf set attributes, each *)
(* at most once; what is left over gets its default or is missed.  A line  *)
(* is a key and a value, Bad when it cannot be parsed.                     *)
(***************************************************************************)
EXTENDS Integers, Sequences

Bad == -1

Required == {"Platform", "DDRLoad", "DDRRun", "Control0", "Control1"}
Borrowed == [UbootLoad |-> "DDRLoad", UbootRun |-> "DDRRun"]
Optional ==
    {"BinPara", "Uboot_down", "Uboot_decomp", "Uboot_enc_down", "Uboot_enc_run",
     "Uboot", "Encrypt_reg", "bl2ParaAddr", "Encrypt_reg0", "Encrypt_reg1",
     "Encrypt_reg2", "needPassword", "DDRSize", "enc_chip_id1", "enc_chip_id2"}
Keys == Required \cup DOMAIN Borrowed \cup Optional

NoConf == [k \in {} |-> 0]

\* Mutant of ParseLine: a parser is never removed.
ParseLineAgain(conf, line) ==
    IF conf.bad \/ line.key \notin Keys THEN conf
    ELSE [bad |-> line.value = Bad,
          value |-> [k \in DOMAIN conf.value \cup {line.key} |->
                        IF k = line.key THEN line.value ELSE conf.value[k]]]

\* A parser that was used is removed: the key is then as unknown as any other.
ParseLine(conf, line) ==
    IF conf.bad \/ line.key \notin Keys \ DOMAIN conf.value THEN conf
    ELSE [bad |-> line.value = Bad,
          value |-> [k \in DOMAIN conf.value \cup {line.key} |->
                        IF k = line.key THEN line.value ELSE conf.value[k]]]

\* The second loop: defaults for the parsers that are left.
Default(conf, k) ==
    IF k \in DOMAIN conf.value THEN conf.value[k]
    ELSE IF k \in DOMAIN Borrowed THEN conf.value[Borrowed[k]] ELSE 0

\* The first loop: every line in turn.
Parsed(lines) ==
    LET upTo[n \in 0 .. Len(lines)] ==
          IF n = 0 THEN [bad |-> FALSE, value |-> NoConf]
          ELSE ParseLine(upTo[n - 1], lines[n])
    IN  upTo[Len(lines)]

\* The attributes, none when ValueError is raised.
Platform(lines) ==
    LET conf == Parsed(lines)
    IN  IF conf.bad \/ ~(Required \subseteq DOMAIN conf.value) THEN NoConf
        ELSE [k \in Keys |-> Default(conf, k)]

\* What the burn steps ask of a platform.
UsedAttributes ==
    {"Platform", "DDRLoad", "DDRRun", "UbootLoad", "UbootRun", "Control0", "Control1",
     "Encrypt_reg", "bl2ParaAddr", "DDRSize", "enc_chip_id1", "enc_chip_id2",
     "enc_reg1", "enc_reg2"}
=============================================================================

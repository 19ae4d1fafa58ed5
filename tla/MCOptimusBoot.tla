--------------------------- MODULE MCOptimusBoot ---------------------------
(***************************************************************************)
(* Finite instances of the boot phase of an Optimus burn for TLC.          *)
(***************************************************************************)
EXTENDS OptimusBoot

AllItems == {"DDR", "DDR_ENC", "UBOOT", "UBOOT_ENC"}

\* AXG and GXL with parameters come back to the ROM after the SPL ran, others
\* stay in the SPL; G12 asks for U-Boot by AMLC; the oldest have no parameters.
Socs == {<<"IPL", TRUE>>, <<"SPL0", TRUE>>, <<"SPL1", FALSE>>, <<"IPL", FALSE>>}

SetupsFrom(starts, regs) ==
    {[start |-> st, afterSpl |-> soc[1], bl2Para |-> soc[2], secure |-> sb,
      encReg |-> reg, locked |-> l # "open", password |-> l,
      oldLoader |-> old, eraseLoader |-> el, items |-> it, prompt |-> p] :
        st \in starts, soc \in Socs, sb \in BOOLEAN, reg \in regs,
        l \in {"open", "none", "wrong", "right"}, old \in BOOLEAN,
        el \in BOOLEAN, p \in BOOLEAN,
        it \in {AllItems, {"DDR", "UBOOT"}, {"DDR_ENC", "UBOOT"}}}

\* A board found in its SPL is of the kind that stays there.
MCSetups ==
    {s \in SetupsFrom({"IPL", "SPL0", "SPL1", "TPL", "ODD", "OFF"}, {"given", "invalid"}) :
        s.start \in Spls => s.start = s.afterSpl}
ByChipSetups == SetupsFrom({"IPL"}, {"byChip"})
=============================================================================

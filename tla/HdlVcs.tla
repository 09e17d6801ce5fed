---------------------------------- MODULE HdlVcs ---------------------------------
(***************************************************************************)
(* src/src/dpi/uvm_hdl_vcs.c, without VCSMX (build "vcs": VPI) and with it *)
(* ("vcsmx": VPI for Verilog objects, MHPI and VHPI for VHDL signals).     *)
(***************************************************************************)
EXTENDS HdlObjects

CONSTANT VCSMX      \* the macro

Slices == (IF VCSMX THEN "vcsmx" ELSE "vcs") \in SliceByName

(* check_type: no array, no unpacked structure.                            *)
vector_compat_type(o) == o \in Vectors

vpi_chk_error(m, flag) == ~Takes(m, flag)

(* The handle is released where the function fails, and only there.  A     *)
(* release puts the value into value_s.value.vector: the caller has it if  *)
(* that still points to the caller's vector.                               *)
uvm_hdl_set_vlog(m, p, vec, flag) ==
    LET r == Acquire(m)
        done == PutValue(r, p, vec, flag)
    IN  IF ~Found(m, p, Slices) THEN Return(m, 0)
        ELSE IF ~vector_compat_type(m.obj) THEN Return(Release(r), 0)
        ELSE IF vpi_chk_error(m, flag) THEN Return(Release(r), 0)
        ELSE IF flag = "release" /\ m.inplace
        THEN Return(CopyChunks(done, GetValue(done, p)), 1)
        ELSE Return(done, 1)

uvm_hdl_get_vlog(m, p) ==
    LET r == Acquire(m) IN
    IF ~Found(m, p, Slices) THEN Return(m, 0)
    ELSE IF Width(p) > UVM_HDL_MAX_WIDTH THEN Return(Release(r), 0)
    ELSE IF ~vector_compat_type(m.obj) THEN Return(Release(r), 0)
    ELSE Return(CopyChunks(r, GetValue(r, p)), 1)

----------------------------------------------------------------------------
(* VHDL.                                                                   *)

(* First index and number of bits of the top word of n bits.               *)
Top(n) == (Chunks(n) - 1) * WordBits
InTop(n) == n - Top(n)

(* The string is taken word by word, the top one first; each bit is        *)
(* shifted into its word, and the top word, which is not cleared, keeps    *)
(* what it had above the new bits.  Too wide a signal keeps the handle.    *)
uvm_hdl_get_mhdl(m, p) ==
    LET n == Width(p)
        r == Acquire(m)
        shifted(k) == IF k < n THEN m.bits[Index(p, k)] ELSE m.val[k - InTop(n)]
    IN  IF n > UVM_HDL_MAX_WIDTH THEN Return(r, 0)
        ELSE IF m.obj \notin Vectors THEN Return(m, 0)
        ELSE Return([m EXCEPT !.val =
                [k \in DOMAIN @ |-> IF k < Chunks(n) * WordBits THEN shifted(k)
                                    ELSE @[k]]], 1)

(* The number of binary digits of the word that begins at first: aval only,*)
(* no leading zeros.                                                       *)
uvm_hdl_dtob(vec, first) ==
    LET ones == {q \in 0..(WordBits - 1) : vec[first + q] # "0"} IN
    IF ones = {} THEN 1 ELSE 1 + CHOOSE q \in ones : \A o \in ones : o <= q

(* Mutant: the digits of the top word are taken from the wrong word.       *)
DigitsOfLowWord(m, p) ==
    LET n == Width(p)
        digits == uvm_hdl_dtob(m.val, 0)
        taken == IF digits < InTop(n) THEN digits ELSE InTop(n)
        aval(k) == IF m.val[k] = "0" THEN "0" ELSE "1"
    IN  [k \in 0..(n - 1) |->
            IF k < Top(n) THEN aval(k)
            ELSE IF k - Top(n) < taken THEN aval(k + digits - taken)
            ELSE "0"]

(* The string that set_mhdl makes, by index: as many digits of the top word*)
(* as fit, from the left, and all those of the words below.  A short       *)
(* string fills the signal from the right.                                 *)
force_string(m, p) ==
    LET n == Width(p)
        digits == uvm_hdl_dtob(m.val, Top(n))
        taken == IF digits < InTop(n) THEN digits ELSE InTop(n)
        aval(k) == IF m.val[k] = "0" THEN "0" ELSE "1"
    IN  [k \in 0..(n - 1) |->
            IF k < Top(n) THEN aval(k)
            ELSE IF k - Top(n) < taken THEN aval(k + digits - taken)
            ELSE "0"]

(* The handle of the region is never released.                             *)
uvm_hdl_set_mhdl(m, p, flag) ==
    LET r == Acquire(m) IN
    IF Width(p) > UVM_HDL_MAX_WIDTH THEN Return(Undefined(r), 1)
    ELSE Return(PutValue(r, p, force_string(m, p), flag), IF Takes(m, flag) THEN 1 ELSE 0)

mhpi_release_force(m, p) ==
    Return(PutValue(Acquire(m), p, m.val, "release"), IF Takes(m, "release") THEN 1 ELSE 0)

----------------------------------------------------------------------------
(* The calls.                                                              *)

Mixed(m, p) == VCSMX /\ Found(m, p, Slices) /\ m.obj \in VHDL

uvm_hdl_check_path(m, p) ==
    IF ~Found(m, p, Slices) THEN Return(m, 0)
    ELSE Return(IF VCSMX THEN Release(Acquire(m)) ELSE Acquire(m), 1)

uvm_hdl_read(m, p) ==
    IF Mixed(m, p) THEN uvm_hdl_get_mhdl(m, p) ELSE uvm_hdl_get_vlog(m, p)

uvm_hdl_deposit(m, p) ==
    IF Mixed(m, p) THEN uvm_hdl_set_mhdl(m, p, "deposit")
    ELSE uvm_hdl_set_vlog(m, p, m.val, "deposit")

uvm_hdl_force(m, p) ==
    IF Mixed(m, p) THEN uvm_hdl_set_mhdl(m, p, "force")
    ELSE uvm_hdl_set_vlog(m, p, m.val, "force")

(* With VCSMX nothing is read.                                             *)
uvm_hdl_release_and_read(m, p) ==
    IF ~VCSMX THEN uvm_hdl_set_vlog(m, p, m.val, "release")
    ELSE IF Found(m, p, Slices) THEN mhpi_release_force(m, p)
    ELSE Return(m, 0)

(* The vector is a local one of a single word, not initialised.            *)
uvm_hdl_release(m, p) ==
    LET local == [m EXCEPT !.val = [k \in 0..(WordBits - 1) |-> m.junk]]
        set == IF Mixed(m, p) THEN mhpi_release_force(local, p)
               ELSE uvm_hdl_set_vlog(local, p, local.val, "release")
    IN  [set EXCEPT !.val = m.val]
==================================================================================

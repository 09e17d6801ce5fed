-------------------------------- MODULE HdlQuesta --------------------------------
(***************************************************************************)
(* src/src/dpi/uvm_hdl_questa.c: Verilog objects by way of VPI, a part     *)
(* select bit by bit; VHDL signals by way of FLI, as strings of bits.      *)
(***************************************************************************)
EXTENDS HdlObjects

(* The path without its bit or part select is a VHDL signal.  The code     *)
(* looks at the last character, which the empty string does not have.      *)
uvm_is_vhdl_path(m, p) == p.known /\ m.obj \in VHDL

(* Character t of the string of a signal: its left-most bit first.         *)
vhdl_array_of_char2string(m, t) == m.bits[Size[m.obj] - 1 - t]

string_to_vecval(s, n) == FillFromLeft(s, n)

(* Whole signals, parts of them (256 characters at most) and single bits.  *)
uvm_register_get_vhdl(m, p) ==
    LET n == Size[m.obj]
        width == Width(p)
        s == [t \in 0..(width - 1) |->
                vhdl_array_of_char2string(m, n - 1 - (p.lhs - t * Incr(p)))]
    IN  IF ~Inside(m.obj, p) \/ (p.form = "slice" /\ width > 256)
        THEN Return(Undefined(m), 1)
        ELSE Return(CopyChunks(m, string_to_vecval(s, width)), 1)

(* vecval_to_string(n, value) can be made: its n bits are in the vector.   *)
vecval_to_string(m, n) == 0..(n - 1) \subseteq DOMAIN m.val

(* A part select, in any order, and a single bit are set bit by bit with   *)
(* MTI_FORCE_DEPOSIT whatever the caller asked for, and what is not '1' is *)
(* written as '0'.  The bits come from the right end of the vector for a   *)
(* part select, and from the position of the bit for a single one.         *)
uvm_register_set_vhdl(m, p, flag) ==
    LET n == Size[m.obj]
        from(i) == IF p.form = "slice" THEN i ELSE p.rhs
        string == [i \in 0..(Width(p) - 1) |->
                        IF m.val[from(i)] = "1" THEN "1" ELSE "0"]
    IN  IF p.form = "whole"
        THEN Return(PutValue(m, p, m.val, flag), 1)
        ELSE IF ~vecval_to_string(m, n) \/ n >= 128 \/ ~Inside(m.obj, p)
        THEN Return(Undefined(m), 1)
        ELSE IF flag = "release" THEN Return(PutValue(m, p, m.val, flag), 1)
        ELSE Return(PutValue(m, p, string, "deposit"), 1)

----------------------------------------------------------------------------
(* Verilog.                                                                *)

(* What is under a path that is no part select.  The result of the write   *)
(* is not looked at.                                                       *)
set_object(m, p, vec, flag) ==
    IF ~Found(m, p, FALSE) THEN Return(m, 0)
    ELSE Return(Release(PutValue(Acquire(m), p, vec, flag)), 1)

(* Mutant: one bit too many.                                               *)
OneBitMore(m, p, flag) ==
    LET set[i \in 0..(Width(p) + 1)] ==
            IF i = 0 THEN Return(m, 1)
            ELSE IF set[i - 1].ret = 0 \/ i - 1 \notin DOMAIN m.val THEN set[i - 1]
            ELSE set_object(set[i - 1], BitSelect(Index(p, i - 1)),
                            [k \in {0} |-> m.val[i - 1]], flag)
    IN  set[Width(p) + 1]

(* Bit after bit, until one fails.                                         *)
uvm_hdl_set_vlog_partsel(m, p, flag) ==
    LET set[i \in 0..Width(p)] ==
            IF i = 0 THEN Return(m, 1)
            ELSE IF set[i - 1].ret = 0 THEN set[i - 1]
            ELSE IF i - 1 \notin DOMAIN m.val THEN Undefined(set[i - 1])
            ELSE set_object(set[i - 1], BitSelect(Index(p, i - 1)),
                            [k \in {0} |-> m.val[i - 1]], flag)
    IN  set[Width(p)]

(* After a part select that failed the code goes on with the path of the   *)
(* bit that failed, and fails again.                                       *)
uvm_hdl_set_vlog(m, p, flag) ==
    IF p.form = "slice" THEN uvm_hdl_set_vlog_partsel(m, p, flag)
    ELSE set_object(m, p, m.val, flag)

(* An object that is no vector leaves no vector to be read.                *)
get_object(m, p) ==
    LET r == Acquire(m) IN
    IF ~Found(m, p, FALSE) THEN Return(m, 0)
    ELSE IF Width(p) > UVM_HDL_MAX_WIDTH THEN Return(Release(r), 0)
    ELSE IF m.obj \notin Vectors THEN Return(Undefined(Release(r)), 1)
    ELSE Return(Release(CopyChunks(r, GetValue(r, p))), 1)

(* Bit i of the vector is written before the result of its read is looked  *)
(* at: with the value of the bit before it, or "0", where that failed.     *)
(* partsel is set back after the last bit, and left set by a failure.      *)
uvm_hdl_get_vlog_partsel(m, p) ==
    LET bit(r) == [r EXCEPT !.val = [k \in 0..(WordBits - 1) |-> "0"]]
        last(r, i) == IF i = 0 THEN "0" ELSE r.val[i - 1]
        get[i \in 0..Width(p)] ==
            IF i = 0 THEN [Return(m, 1) EXCEPT !.partsel = TRUE]
            ELSE IF get[i - 1].ret = 0 THEN get[i - 1]
            ELSE IF i - 1 \notin DOMAIN m.val THEN Undefined(get[i - 1])
            ELSE LET r == get[i - 1]
                     g == get_object(bit(r), BitSelect(Index(p, i - 1)))
                     b == IF g.ret = 1 THEN g.val[0] ELSE last(r, i - 1)
                 IN  [g EXCEPT !.val = [r.val EXCEPT ![i - 1] = b]]
        done == get[Width(p)]
    IN  [done EXCEPT !.partsel = done.ret = 0]

(* The vector but for its last word is cleared first, unless partsel.      *)
uvm_hdl_get_vlog(m, p) ==
    LET c == IF m.partsel THEN m ELSE [m EXCEPT !.val = ClearLowWords(@)]
    IN  IF p.form = "slice" THEN uvm_hdl_get_vlog_partsel(c, p)
        ELSE get_object(c, p)

----------------------------------------------------------------------------
(* The calls.                                                              *)

(* The handle is not released.                                             *)
uvm_hdl_check_path(m, p) ==
    IF p.form = "empty" THEN Return(Undefined(m), 0)
    ELSE IF uvm_is_vhdl_path(m, p) THEN Return(m, 1)
    ELSE IF Found(m, p, "questa" \in SliceByName) THEN Return(Acquire(m), 1)
    ELSE Return(m, 0)

Get(m, p) ==
    IF p.form = "empty" THEN Return(Undefined(m), 0)
    ELSE IF uvm_is_vhdl_path(m, p) THEN uvm_register_get_vhdl(m, p)
    ELSE uvm_hdl_get_vlog(m, p)

Set(m, p, flag) ==
    IF p.form = "empty" THEN Return(Undefined(m), 0)
    ELSE IF uvm_is_vhdl_path(m, p) THEN uvm_register_set_vhdl(m, p, flag)
    ELSE uvm_hdl_set_vlog(m, p, flag)

uvm_hdl_read(m, p) == Get(m, p)
uvm_hdl_deposit(m, p) == Set(m, p, "deposit")
uvm_hdl_force(m, p) == Set(m, p, "force")

(* The part select of a Verilog path has been overwritten, in place, with  *)
(* that of its last bit when it is read.                                   *)
uvm_hdl_release_and_read(m, p) ==
    LET set == Set(m, p, "release")
        path == IF p.form = "slice" /\ ~uvm_is_vhdl_path(m, p)
                THEN BitSelect(p.lhs) ELSE p
    IN  IF set.ret = 0 THEN set ELSE Get(set, path)

(* The vector is a local one of a single word, not initialised.            *)
uvm_hdl_release(m, p) ==
    LET set == Set([m EXCEPT !.val = [k \in 0..(WordBits - 1) |-> m.junk]], p, "release")
    IN  [set EXCEPT !.val = m.val]
==================================================================================

------------------------------- MODULE HdlXcelium --------------------------------
(***************************************************************************)
(* src/src/dpi/uvm_hdl_xcelium.c: Verilog objects by way of VPI, VHDL      *)
(* signals by way of VHPI, part selects of Verilog objects bit by bit      *)
(* unless INCA_EXTENDED_PARTSEL_SUPPORT is defined.                        *)
(***************************************************************************)
EXTENDS HdlObjects

PartSelectByName == "xcelium" \in SliceByName

is_valid_path_slice(p) == p.form = "slice" /\ ~PartSelectByName

(* The language of an object; that of an unknown one is not assigned.      *)
Language(m, p) ==
    IF ~Found(m, p, PartSelectByName) THEN m.language
    ELSE IF m.obj \in VHDL THEN "vhdl" ELSE "verilog"

(* The handle is never released.                                           *)
m_uvm_get_object_handle(m, p) ==
    IF Found(m, p, PartSelectByName) THEN Acquire(m) ELSE m

----------------------------------------------------------------------------
(* Verilog: VPI finds no VHDL signal.                                      *)

Located(m, p) == Found(m, p, PartSelectByName) /\ m.obj \notin VHDL

(* Neither the width nor the result of the write is looked at.             *)
uvm_hdl_set_vlog(m, p, vec, flag) ==
    IF ~Located(m, p) THEN Return(m, 0)
    ELSE Return(Release(PutValue(Acquire(m), p, vec, flag)), 1)

uvm_hdl_set_vlog_partsel(m, p, flag) ==
    LET set[i \in 0..Width(p)] ==
            IF i = 0 THEN Return(m, 1)
            ELSE IF set[i - 1].ret = 0 THEN set[i - 1]
            ELSE IF i - 1 \notin DOMAIN m.val THEN Undefined(set[i - 1])
            ELSE uvm_hdl_set_vlog(set[i - 1], BitSelect(Index(p, i - 1)),
                                  [k \in {0} |-> m.val[i - 1]], flag)
    IN  set[Width(p)]

uvm_hdl_get_vlog(m, p) ==
    LET r == Acquire(m) IN
    IF ~Located(m, p) THEN Return(m, 0)
    ELSE IF Width(p) > UVM_HDL_MAX_WIDTH THEN Return(Release(r), 0)
    ELSE IF m.obj \notin Vectors THEN Return(Undefined(Release(r)), 1)
    ELSE Return(Release(CopyChunks(r, GetValue(r, p))), 1)

(* Mutant: the bits go to the vector from its other end.                   *)
BitsReversed(m, p) ==
    LET bit(r) == [r EXCEPT !.val = [k \in 0..(WordBits - 1) |-> "0"]]
        get[i \in 0..Width(p)] ==
            IF i = 0 THEN Return(m, 1)
            ELSE IF get[i - 1].ret = 0 THEN get[i - 1]
            ELSE IF i - 1 \notin DOMAIN m.val THEN Undefined(get[i - 1])
            ELSE LET r == get[i - 1]
                     g == uvm_hdl_get_vlog(bit(r), BitSelect(Index(p, i - 1)))
                 IN  IF g.ret = 0 THEN [g EXCEPT !.val = r.val]
                     ELSE [g EXCEPT !.val = [r.val EXCEPT ![Width(p) - i] = g.val[0]]]
    IN  IF p.form # "slice" THEN Return(m, 0) ELSE get[Width(p)]

(* Zero for a path that is no part select.                                 *)
uvm_hdl_get_vlog_partsel(m, p) ==
    LET bit(r) == [r EXCEPT !.val = [k \in 0..(WordBits - 1) |-> "0"]]
        get[i \in 0..Width(p)] ==
            IF i = 0 THEN Return(m, 1)
            ELSE IF get[i - 1].ret = 0 THEN get[i - 1]
            ELSE IF i - 1 \notin DOMAIN m.val THEN Undefined(get[i - 1])
            ELSE LET r == get[i - 1]
                     g == uvm_hdl_get_vlog(bit(r), BitSelect(Index(p, i - 1)))
                 IN  IF g.ret = 0 THEN [g EXCEPT !.val = r.val]
                     ELSE [g EXCEPT !.val = [r.val EXCEPT ![i - 1] = g.val[0]]]
    IN  IF p.form # "slice" THEN Return(m, 0) ELSE get[Width(p)]

clear_value(m) == [m EXCEPT !.val = ClearLowWords(@)]

----------------------------------------------------------------------------
(* VHDL.  Each function looks the path up once more and keeps the handle.  *)
(* An object that is too wide ends the simulation, and the function goes   *)
(* on; one of an unexpected type, or no object, makes it return.           *)

(* The vector is read for a release too.                                   *)
uvm_hdl_set_vhdl(m, p, flag) ==
    LET sized == IF Width(p) > UVM_HDL_MAX_WIDTH THEN Finish(m) ELSE m
        read == IF 0..(Width(p) - 1) \subseteq DOMAIN m.val THEN sized ELSE Undefined(sized)
    IN
    IF ~Found(m, p, PartSelectByName) THEN Return(Finish(m), 0)
    ELSE IF m.obj \notin Vectors THEN Return(Finish(Acquire(m)), 0)
    ELSE Return(PutValue(Acquire(read), p, m.val, flag), 1)

(* The string of the value is freed after every word.                      *)
uvm_hdl_get_vhdl(m, p) ==
    LET n == Width(p)
        sized == IF n > UVM_HDL_MAX_WIDTH THEN Finish(m) ELSE m
        clear == [sized EXCEPT !.val = [k \in DOMAIN @ |-> "0"]]
        s == [t \in 0..(n - 1) |-> m.bits[Index(p, n - 1 - t)]]
        got == CopyChunks(clear, FillFromLeft(s, n))
    IN  IF ~Found(m, p, PartSelectByName) THEN Return(Finish(m), 0)
        ELSE IF m.obj \notin Vectors THEN Return(Finish(Acquire(m)), 0)
        ELSE IF Chunks(n) > 1 THEN Return(Undefined(Acquire(got)), 1)
        ELSE Return(Acquire(got), 1)

----------------------------------------------------------------------------
(* The calls.  The empty string has no last character to look at.          *)

uvm_hdl_check_path(m, p) ==
    LET h == m_uvm_get_object_handle(m, p) IN
    Return(h, IF Found(m, p, PartSelectByName) THEN 1 ELSE 0)

uvm_hdl_read(m, p) ==
    LET h == m_uvm_get_object_handle(m, p) IN
    IF p.form = "empty" THEN Return(Undefined(m), 0)
    ELSE IF is_valid_path_slice(p) THEN uvm_hdl_get_vlog_partsel(clear_value(m), p)
    ELSE CASE Language(m, p) = "verilog" -> uvm_hdl_get_vlog(h, p)
           [] Language(m, p) = "vhdl"    -> uvm_hdl_get_vhdl(h, p)
           [] OTHER                      -> Return(h, 0)

Set(m, p, flag) ==
    LET h == m_uvm_get_object_handle(m, p) IN
    IF p.form = "empty" THEN Return(Undefined(m), 0)
    ELSE IF is_valid_path_slice(p) THEN uvm_hdl_set_vlog_partsel(m, p, flag)
    ELSE CASE Language(m, p) = "verilog" -> uvm_hdl_set_vlog(h, p, m.val, flag)
           [] Language(m, p) = "vhdl"    -> uvm_hdl_set_vhdl(h, p, flag)
           [] OTHER                      -> Return(h, 0)

uvm_hdl_deposit(m, p) == Set(m, p, "deposit")
uvm_hdl_force(m, p) == Set(m, p, "force")

(* The path of a part select has been overwritten with that of a bit when  *)
(* the value is to be read, so that nothing is; the result of the release  *)
(* is not looked at.                                                       *)
uvm_hdl_release_and_read(m, p) ==
    LET set == Set(m, p, "release")
        again == IF Language(m, p) = "vhdl" THEN uvm_hdl_get_vhdl(set, p)
                 ELSE uvm_hdl_get_vlog(set, p)
    IN  IF p.form = "empty" \/ (~is_valid_path_slice(p) /\ Language(m, p) = "other")
        THEN set
        ELSE IF is_valid_path_slice(p)
        THEN uvm_hdl_get_vlog_partsel(clear_value(set), BitSelect(p.lhs))
        ELSE again

(* The vector is a local one of a single word, not initialised.            *)
uvm_hdl_release(m, p) ==
    LET set == Set([m EXCEPT !.val = [k \in 0..(WordBits - 1) |-> m.junk]], p, "release")
    IN  [set EXCEPT !.val = m.val]
==================================================================================

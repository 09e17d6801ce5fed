------------------------------ MODULE HdlVerilator -------------------------------
(***************************************************************************)
(* src/src/dpi/uvm_hdl_verilator.c: the backdoor by way of VPI, for whole  *)
(* objects and single bits.                                                *)
(***************************************************************************)
EXTENDS HdlObjects

(* Mutant: the value is copied whatever the width of the object.           *)
AnyWidth(w) == FALSE

(* The test that both functions make before they touch the vector.         *)
too_wide(w) == w > UVM_HDL_MAX_WIDTH

(* Mutant: the handle is forgotten where the set fails.                    *)
SetLeaks(m, p, null, flag) ==
    LET r == Acquire(m)
        done == PutValue(r, p, r.val, flag)
        vec == GetValue(done, p)
    IN  IF ~Found(m, p, "verilator" \in SliceByName) THEN Return(m, 0)
        ELSE IF null /\ flag # "release" THEN Return(Release(r), 0)
        ELSE IF ~null /\ too_wide(Width(p)) THEN Return(Release(r), 0)
        ELSE IF ~Takes(r, flag) THEN Return(r, 0)
        ELSE IF flag = "release" /\ ~null
        THEN Return(Release(CopyChunks(done, vec)), 1)
        ELSE Return(Release(done), 1)

(* null: the caller passes no vector.  A release hands back the value after*)
(* the release, which vpi_put_value leaves in value_s.                     *)
uvm_hdl_set_vlog(m, p, null, flag) ==
    LET r == Acquire(m)
        done == PutValue(r, p, r.val, flag)
        vec == GetValue(done, p)
    IN  IF ~Found(m, p, "verilator" \in SliceByName) THEN Return(m, 0)
        ELSE IF null /\ flag # "release" THEN Return(Release(r), 0)
        ELSE IF ~null /\ too_wide(Width(p)) THEN Return(Release(r), 0)
        ELSE IF ~Takes(r, flag) THEN Return(Release(r), 0)
        ELSE IF flag = "release" /\ ~null
        THEN Return(Release(CopyChunks(done, vec)), 1)
        ELSE Return(Release(done), 1)

(* The bits of the vector above the last word keep what they had.          *)
uvm_hdl_get_vlog(m, p) ==
    LET r == Acquire(m) IN
    IF ~Found(m, p, "verilator" \in SliceByName) THEN Return(m, 0)
    ELSE IF too_wide(Width(p)) \/ m.obj \notin Vectors THEN Return(Release(r), 0)
    ELSE Return(Release(CopyChunks(r, GetValue(r, p))), 1)

uvm_hdl_check_path(m, p) ==
    IF Found(m, p, "verilator" \in SliceByName)
    THEN Return(Release(Acquire(m)), 1) ELSE Return(m, 0)

uvm_hdl_read(m, p) == uvm_hdl_get_vlog(m, p)
uvm_hdl_deposit(m, p) == uvm_hdl_set_vlog(m, p, FALSE, "deposit")

(* Mutant: a force is a deposit.                                           *)
ForceDeposits(m, p) == uvm_hdl_set_vlog(m, p, FALSE, "deposit")

uvm_hdl_force(m, p) == uvm_hdl_set_vlog(m, p, FALSE, "force")
uvm_hdl_release_and_read(m, p) == uvm_hdl_set_vlog(m, p, FALSE, "release")
uvm_hdl_release(m, p) == uvm_hdl_set_vlog(m, p, TRUE, "release")
==================================================================================

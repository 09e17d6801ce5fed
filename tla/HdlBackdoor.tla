------------------------------- MODULE HdlBackdoor -------------------------------
(***************************************************************************)
(* The HDL backdoor: the calls that src/src/dpi/uvm_hdl.svh imports, as    *)
(* the C file that uvm_hdl.c includes for the simulator implements them,   *)
(* on an object of the design that the design itself goes on driving; and  *)
(* the task uvm_hdl_force_time, which forces a value, waits, and releases. *)
(* Calls of other processes come in between.                               *)
(*                                                                         *)
(* A behaviour is about one build and one object.  It ends where the       *)
(* simulation ends, or the C code has gone astray.                         *)
(***************************************************************************)
EXTENDS HdlObjects

CONSTANTS
    Builds,     \* of "verilator", "questa", "xcelium", "vcs", "vcsmx"
    Paths,      \* the paths into an object that are passed, by object
    Values,     \* the vectors that are passed to be written
    Unwritten,  \* what a vector that is passed to be filled holds
    Drives      \* what the design drives, by object

ASSUME BackdoorAssumption ==
    /\ Builds \subseteq {"verilator", "questa", "xcelium", "vcs", "vcsmx"}
    /\ Values \cup {Unwritten} \subseteq [VectorBits -> Bit]
    /\ \A o \in Objects :
          Paths[o] \subseteq [form : {"bit", "slice"}, known : {TRUE}, lhs : Nat, rhs : Nat]
    /\ \A o \in Objects : Drives[o] \subseteq [0..(Size[o] - 1) -> Bit]

VARIABLES
    build, obj,
    bits, drv, forced,  \* the object, as in HdlObjects
    partsel,            \* static in uvm_hdl_questa.c
    stopped,            \* the simulation has ended
    call,               \* the call that has been made and what it did, until
                        \* the caller takes its result; else op "none"
    timer               \* the force that uvm_hdl_force_time holds, if any

design == <<bits, drv, forced>>
vars == <<build, obj, design, partsel, stopped, call, timer>>

V == INSTANCE HdlVerilator
Q == INSTANCE HdlQuesta
X == INSTANCE HdlXcelium
C == INSTANCE HdlVcs WITH VCSMX <- FALSE
M == INSTANCE HdlVcs WITH VCSMX <- TRUE

NoPath == Unknown
NoValue == [k \in VectorBits |-> "0"]
NoCall == [op |-> "none", path |-> NoPath, arg |-> NoValue, val |-> NoValue,
           ret |-> 0, held |-> 0, ub |-> FALSE]
NoForce == [on |-> FALSE, path |-> NoPath, arg |-> NoValue, touched |-> FALSE]

(* The paths that a caller may pass.                                       *)
PathsOf(o) == Paths[o] \cup {Whole(o), Unknown, Empty}

Init ==
    /\ build \in Builds
    /\ obj \in Objects
    /\ obj \in VHDL => build \in {"questa", "xcelium", "vcsmx"}
    /\ bits \in Drives[obj]
    /\ drv = bits
    /\ forced = {}
    /\ partsel = FALSE
    /\ stopped = FALSE
    /\ call = NoCall
    /\ timer = NoForce

----------------------------------------------------------------------------
(* uvm_hdl.c: the file that implements the calls.                          *)
Implementation(op, m, p) ==
    CASE build = "verilator" ->
            CASE op = "check_path" -> V!uvm_hdl_check_path(m, p)
              [] op = "read"       -> V!uvm_hdl_read(m, p)
              [] op = "deposit"    -> V!uvm_hdl_deposit(m, p)
              [] op = "force"      -> V!uvm_hdl_force(m, p)
              [] op = "release"    -> V!uvm_hdl_release(m, p)
              [] OTHER             -> V!uvm_hdl_release_and_read(m, p)
      [] build = "questa" ->
            CASE op = "check_path" -> Q!uvm_hdl_check_path(m, p)
              [] op = "read"       -> Q!uvm_hdl_read(m, p)
              [] op = "deposit"    -> Q!uvm_hdl_deposit(m, p)
              [] op = "force"      -> Q!uvm_hdl_force(m, p)
              [] op = "release"    -> Q!uvm_hdl_release(m, p)
              [] OTHER             -> Q!uvm_hdl_release_and_read(m, p)
      [] build = "xcelium" ->
            CASE op = "check_path" -> X!uvm_hdl_check_path(m, p)
              [] op = "read"       -> X!uvm_hdl_read(m, p)
              [] op = "deposit"    -> X!uvm_hdl_deposit(m, p)
              [] op = "force"      -> X!uvm_hdl_force(m, p)
              [] op = "release"    -> X!uvm_hdl_release(m, p)
              [] OTHER             -> X!uvm_hdl_release_and_read(m, p)
      [] build = "vcs" ->
            CASE op = "check_path" -> C!uvm_hdl_check_path(m, p)
              [] op = "read"       -> C!uvm_hdl_read(m, p)
              [] op = "deposit"    -> C!uvm_hdl_deposit(m, p)
              [] op = "force"      -> C!uvm_hdl_force(m, p)
              [] op = "release"    -> C!uvm_hdl_release(m, p)
              [] OTHER             -> C!uvm_hdl_release_and_read(m, p)
      [] build = "vcsmx" ->
            CASE op = "check_path" -> M!uvm_hdl_check_path(m, p)
              [] op = "read"       -> M!uvm_hdl_read(m, p)
              [] op = "deposit"    -> M!uvm_hdl_deposit(m, p)
              [] op = "force"      -> M!uvm_hdl_force(m, p)
              [] op = "release"    -> M!uvm_hdl_release(m, p)
              [] OTHER             -> M!uvm_hdl_release_and_read(m, p)

(* What the call starts from, for every outcome of what it does not define.*)
Start(p, v) ==
    [obj : {obj}, bits : {bits}, drv : {drv}, forced : {forced}, val : {v},
     ret : {0}, held : {0}, ub : {FALSE}, stopped : {FALSE}, partsel : {partsel},
     junk : {"0", "1"},
     language : IF build = "xcelium" /\ ~Found([obj |-> obj], p, TRUE)
                THEN {"verilog", "vhdl", "other"} ELSE {"other"},
     inplace : IF build = "vcs" THEN BOOLEAN ELSE {FALSE}]

Call(op, p, v) ==
    \E m \in {Implementation(op, s, p) : s \in Start(p, v)} :
        /\ bits' = m.bits /\ forced' = m.forced
        /\ partsel' = m.partsel
        /\ stopped' = m.stopped
        /\ call' = [op |-> op, path |-> p, arg |-> v, val |-> m.val, ret |-> m.ret,
                    held |-> m.held, ub |-> m.ub]
        /\ UNCHANGED <<build, obj, drv>>

Idle == ~stopped /\ call = NoCall

(* Calls of user code.                                                     *)
Others == timer' = [timer EXCEPT !.touched = timer.on]

uvm_hdl_check_path(p) == Call("check_path", p, NoValue) /\ UNCHANGED timer
uvm_hdl_read(p) == Call("read", p, Unwritten) /\ UNCHANGED timer
uvm_hdl_deposit(p, v) == Call("deposit", p, v) /\ UNCHANGED timer
uvm_hdl_force(p, v) == Call("force", p, v) /\ Others
uvm_hdl_release_and_read(p) == Call("release_and_read", p, Unwritten) /\ Others
uvm_hdl_release(p) == Call("release", p, NoValue) /\ Others

(* uvm_hdl_force_time: with no time to wait it is a deposit; where the     *)
(* force fails the task returns.                                           *)
force_time_begins(p, v) ==
    /\ ~timer.on
    /\ Call("force", p, v)
    /\ timer' = IF call'.ret = 1
                THEN [on |-> TRUE, path |-> p, arg |-> v, touched |-> FALSE]
                ELSE NoForce

(* The vector is a copy: what the release reads is lost.                   *)
force_time_ends ==
    /\ timer.on
    /\ Call("release_and_read", timer.path, timer.arg)
    /\ timer' = NoForce

(* The design drives the object: not its forced bits.                      *)
Drive(v) ==
    /\ bits' = [k \in DOMAIN bits |-> IF k \in forced THEN bits[k] ELSE v[k]]
    /\ drv' = v
    /\ UNCHANGED <<build, obj, forced, partsel, stopped, call, timer>>

(* The caller takes the result.                                            *)
returns ==
    /\ call # NoCall
    /\ call' = NoCall
    /\ UNCHANGED <<build, obj, design, partsel, stopped, timer>>

Next ==
    \/ ~stopped /\ ~call.ub /\ returns
    \/ Idle /\
        \/ \E p \in PathsOf(obj) :
            \/ uvm_hdl_check_path(p)
            \/ uvm_hdl_read(p)
            \/ uvm_hdl_release(p)
            \/ uvm_hdl_release_and_read(p)
            \/ \E v \in Values :
                \/ uvm_hdl_deposit(p, v)
                \/ uvm_hdl_force(p, v)
                \/ force_time_begins(p, v)
        \/ force_time_ends
        \/ \E v \in Drives[obj] : Drive(v)

Spec == Init /\ [][Next]_vars

----------------------------------------------------------------------------
(* Properties.                                                             *)

TypeOK ==
    /\ build \in Builds /\ obj \in Objects
    /\ bits \in [0..(Size[obj] - 1) -> Bit] /\ drv \in [0..(Size[obj] - 1) -> Bit]
    /\ forced \subseteq 0..(Size[obj] - 1)
    /\ partsel \in BOOLEAN /\ stopped \in BOOLEAN
    /\ call.path \in PathsOf(obj) /\ call.val \in [VectorBits -> Bit]
    /\ call.ret \in {0, 1} /\ call.held \in Int /\ call.ub \in BOOLEAN
    /\ timer \in [on : BOOLEAN, path : PathsOf(obj), arg : [VectorBits -> Bit],
                  touched : BOOLEAN]

Fits(p) == Width(p) <= UVM_HDL_MAX_WIDTH /\ obj \in Vectors

Plain(v, p) ==
    \A k \in VectorBits : v[k] # "x" /\ (k >= Width(p) => v[k] = "0")

(* A read that succeeds fills the vector from its right end with the bits  *)
(* of the path: whole words, part selects in either order, parts of words; *)
(* and so does uvm_hdl_release_and_read where it reads: never with VCSMX,  *)
(* it depends with VCS; and of part selects that are read bit by bit Questa*)
(* and Xcelium read only the first bit, as the release has overwritten the *)
(* path.                                                                   *)
(* VHDL signals of more than one word are read wrong by two of the builds  *)
(* (string_to_vecval of Questa; for Xcelium the memory is gone by then).   *)
ReadExact ==
    LET p == call.path
        reads == \/ call.op = "read"
                 \/ call.op = "release_and_read" /\ build \notin {"vcs", "vcsmx"}
                       /\ (p.form = "slice" => build = "verilator" \/ obj \in VHDL)
        narrow == obj \in VHDL /\ build = "questa" => Width(p) <= WordBits
    IN  reads /\ narrow /\ call.ret = 1 /\ ~call.ub
        => \A i \in 0..(Width(p) - 1) : call.val[i] = bits[Index(p, i)]

(* A deposit and a force that succeed leave on the path what they were     *)
(* given, and nothing forced but the path of a force; a release that       *)
(* succeeds leaves nothing forced there.  Left out: objects that cannot be *)
(* written (two of the builds do not look), and of VHDL signals single bits*)
(* and parts of Questa and values that do not fit or are unknown.          *)
WrittenExactly ==
    LET p == call'.path
        plain == obj \in VHDL => /\ p.form = "whole" \/ build # "questa"
                                 /\ Plain(call'.arg, p)
    IN  call'.ret = 1 /\ Fits(p) /\ (call'.op = "force" => obj \in Forceable) =>
            CASE call'.op = "deposit" /\ plain ->
                    /\ forced' = forced
                    /\ \A i \in 0..(Width(p) - 1) :
                            Index(p, i) \notin forced => bits'[Index(p, i)] = call'.arg[i]
              [] call'.op = "force" /\ plain ->
                    /\ forced' = forced \cup Indices(p)
                    /\ \A i \in 0..(Width(p) - 1) : bits'[Index(p, i)] = call'.arg[i]
              [] call'.op \in {"release", "release_and_read"} ->
                    ~call'.ub => forced' = forced \ Indices(p)
              [] OTHER -> TRUE

WriteExact == [][WrittenExactly]_vars

(* A call disturbs nothing outside its path; and one that fails nothing at *)
(* all, but for part selects that are written bit by bit, where the bits   *)
(* before the failing one stay written and those after it are left alone.  *)
(* One that succeeds was passed a path that is there: all of it, not only  *)
(* its first bits.  (Questa does not look whether a bit of a VHDL signal   *)
(* is there.)                                                              *)
OnlyThePath ==
    call'.op # "none" =>
        LET p == call'.path
            there == DOMAIN bits
            changed == {k \in there : bits'[k] # bits[k]}
                            \cup (forced \ forced') \cup (forced' \ forced)
        IN  /\ changed \subseteq Indices(p)
            /\ call'.ret = 0 /\ p.form # "slice" => changed = {}
            /\ \A i, j \in 0..(Width(p) - 1) :
                    i < j /\ Index(p, i) \notin there => Index(p, j) \notin changed
            /\ call'.ret = 1 /\ (build = "questa" => obj \notin VHDL)
                    => p.known /\ Indices(p) \subseteq there
            /\ call'.op \in {"read", "check_path"} => changed = {}

FrameKept == [][OnlyThePath]_vars

(* The code stays within the memory it is given: always with Verilator.    *)
(* The others read past the vector of the caller for objects that are wider*)
(* or past the local word of uvm_hdl_release; Questa and Xcelium take the  *)
(* value of objects that have none, and look at the character before the   *)
(* empty string; and see the remarks on VHDL.                              *)
MemorySafe ==
    call.ub =>
        /\ build # "verilator"
        /\ \/ Width(call.path) > UVM_HDL_MAX_WIDTH
           \/ call.op = "release" /\ Width(call.path) > WordBits
           \/ build \in {"questa", "xcelium"} /\ (obj \notin Vectors \/ call.path = Empty)
           \/ build = "questa" /\ obj \in VHDL
                /\ (~Inside(obj, call.path) \/ call.op = "release")
           \/ build = "xcelium" /\ obj \in VHDL /\ Width(call.path) > WordBits

(* No handle is left over: by no call with Verilator, by none but          *)
(* uvm_hdl_check_path with Questa, by no call that fails with VCS.         *)
HandlesReleased ==
    \/ build = "verilator"
    \/ build = "questa" /\ call.op # "check_path"
    \/ build = "vcs" /\ call.ret = 0
    => call.held = 0

(* While uvm_hdl_force_time waits, and nobody else forces or releases the  *)
(* object, its path holds the value, whatever the design drives and others *)
(* deposit.  Left out are the cases left out in WriteExact, and parts of   *)
(* VHDL signals of Questa, which are only deposited.                       *)
ForceHolds ==
    LET p == timer.path IN
    timer.on /\ ~timer.touched /\ Fits(p) /\ obj \in Forceable
        /\ (obj \in VHDL => Plain(timer.arg, p)
                              /\ (p.form = "whole" \/ build # "questa"))
        => \A i \in 0..(Width(p) - 1) :
                Index(p, i) \in forced /\ bits[Index(p, i)] = timer.arg[i]
==================================================================================

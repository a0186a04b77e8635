-------------------------------- MODULE XLua --------------------------------
(***************************************************************************)
(* Run-time type checks of src/luau/xlua.h, as xpio_c.c uses them.         *)
(* luaopen_xpio makes one metatable per native type with XLUA_NEWMT, which *)
(* records REGISTRY[mt] = &Type_regs; xpio_newObject gives a new userdata   *)
(* of sizeof(Type) that metatable; XLUA_CAST(L, n, Type) accepts argument n *)
(* only when REGISTRY[getmetatable(arg)] is &Type_regs.  The library may be *)
(* loaded several times (each load makes its own metatables) and more than  *)
(* one copy of it may be linked in (each copy has its own Type_regs).       *)
(*                                                                         *)
(* The world of one Lua state is fixed by the constants; each state of the *)
(* model holds one call: the Lua value passed and the regs it is checked   *)
(* against.  Lua code cannot set a userdata's metatable, but it can read   *)
(* one (none sets __metatable) and give it to a table with setmetatable,   *)
(* and it can assign any value to the fields xpio._T of the module table,  *)
(* from which xpio_newObject takes the metatable of every new object.      *)
(***************************************************************************)
EXTENDS Integers, Sequences

CONSTANTS
  Copies,   \* copies of the xpio library linked into the program
  Loads,    \* Loads[i]: the copy whose luaopen_xpio ran the i-th time
  Types     \* the native types: XPProc, XPQueue, XPSocket

ASSUME Loads \in Seq(Copies)

VARIABLES
  castArg,   \* the Lua value at index narg
  castRegs   \* the regs XLUA_CAST passes: Type##_regs of one copy

NULL == <<"NULL">>
NONE == <<"none">>      \* no metatable
ERROR == <<"error">>    \* luaL_argerror raised

(* The address of Type##_regs in one copy of the library. *)
Regs(c, T) == <<"regs", c, T>>

(* luaopen_xpio, the i-th time: XLUA_NEWMT(L, T) for each type creates a   *)
(* fresh table; it is stored as xpio._T.                                    *)
MTs == {<<"mt", i, T>> : i \in 1..Len(Loads), T \in Types}

(* xlua_newMT: REGISTRY[mt] = lightuserdata(tptr) for the metatable of T   *)
(* made by load i; no other table is a key of the registry.                 *)
xlua_newMT(mt) == [type |-> "lightuserdata", ptr |-> Regs(Loads[mt[2]], mt[3])]
REGISTRY(key) ==
  IF key \in MTs THEN xlua_newMT(key) ELSE [type |-> "nil", ptr |-> NULL]

(* xlua_newObject: a new full userdata (block) with metatable mt. *)
xlua_newObject(mt, block) == [type |-> "userdata", ptr |-> block, mt |-> mt]

(* What xpio._T may hold when an object is made: the metatable luaopen_xpio *)
(* stored there, or whatever Lua code assigned since: another metatable of *)
(* xpio, a table of its own, or nil (lua_setmetatable then sets none).      *)
XpioFieldValues == MTs \cup {<<"luaTable">>, NONE}

(* XPIO_NEWOBJECT(L, T) in a function of load i: lua_getfield of "_T" on    *)
(* the XPIO table bound as upvalue 1, then a block of sizeof(T) given that  *)
(* value as its metatable.                                                  *)
xpio_newObject(i, T, field) == xlua_newObject(field, <<"block", i, T>>)

(* The values a C function of xpio may receive: its own objects, another   *)
(* library's userdata (a luaL_newmetatable metatable, or none), light      *)
(* userdata (NULL, or any address, a Type_regs one included), tables with  *)
(* no metatable or with one of xpio's, and a number.                        *)
Values ==
  {xpio_newObject(i, T, f) : i \in 1..Len(Loads), T \in Types, f \in XpioFieldValues}
  \cup {[type |-> "userdata", ptr |-> <<"foreign">>, mt |-> m] : m \in {<<"foreignMT">>, NONE}}
  \cup {[type |-> "lightuserdata", ptr |-> p, mt |-> NONE] :
          p \in {NULL} \cup {Regs(c, T) : c \in Copies, T \in Types}}
  \cup {[type |-> "table", ptr |-> NULL, mt |-> m] : m \in MTs \cup {NONE}}
  \cup {[type |-> "number", ptr |-> NULL, mt |-> NONE]}

(* lua_touserdata: the block of a full userdata, the pointer of a light    *)
(* one, NULL for any other value.                                           *)
lua_touserdata(v) ==
  IF v.type \in {"userdata", "lightuserdata"} THEN v.ptr ELSE NULL

(* Variant of xlua_checkudata without the test me != NULL.                 *)
xlua_checkudata_noNullCheck(v, regs) ==
  LET me == lua_touserdata(v)
  IN IF v.mt # NONE /\ lua_touserdata(REGISTRY(v.mt)) = regs THEN me ELSE ERROR

(* xlua_checkudata: me = lua_touserdata(narg); if it is not NULL and the   *)
(* value has a metatable whose REGISTRY entry holds regs, return me;       *)
(* otherwise luaL_argerror, which does not return (ERROR).                *)
xlua_checkudata(v, regs) ==
  LET me == lua_touserdata(v)
  IN IF me # NULL /\ v.mt # NONE /\ lua_touserdata(REGISTRY(v.mt)) = regs
       THEN me ELSE ERROR

(* XLUA_CAST(L, n, Type) in a copy of the library. *)
XLUA_CAST(v, c, T) == xlua_checkudata(v, Regs(c, T))

-----------------------------------------------------------------------------
XLuaInit ==
  /\ castArg \in Values
  /\ castRegs \in {Regs(c, T) : c \in Copies, T \in Types}
XLuaSpec == XLuaInit /\ [][UNCHANGED <<castArg, castRegs>>]_<<castArg, castRegs>>

(* Blocks allocated by XPIO_NEWOBJECT(L, T) in a load of copy c. *)
BlocksOf(c, T) == {<<"block", i, T>> : i \in {j \in 1..Len(Loads) : Loads[j] = c}}

(* XLUA_CAST never hands C a pointer xpio did not allocate: whatever Lua    *)
(* code did to the metatables (copied one onto a table, stored one in      *)
(* another xpio._T), the pointer returned is a block made by some           *)
(* XPIO_NEWOBJECT, never NULL, a light userdata's address or another        *)
(* library's block.                                                         *)
CastReturnsXpioBlock ==
  \A c \in Copies, T \in Types :
    castRegs = Regs(c, T) /\ XLUA_CAST(castArg, c, T) # ERROR =>
      \E c2 \in Copies, T2 \in Types : XLUA_CAST(castArg, c, T) \in BlocksOf(c2, T2)

(* The premise of xlua.h (lines 19-21): XLUA_CAST(L, n, T) in copy c        *)
(* returns a pointer only to a block allocated as a T, of sizeof(T), by a   *)
(* load of copy c, so that the C code may use it as a T.                    *)
CastAcceptsOnlyOwnType ==
  \A c \in Copies, T \in Types :
    castRegs = Regs(c, T) /\ XLUA_CAST(castArg, c, T) # ERROR =>
      XLUA_CAST(castArg, c, T) \in BlocksOf(c, T)
=============================================================================

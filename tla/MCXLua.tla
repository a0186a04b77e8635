------------------------------- MODULE MCXLua -------------------------------
(* One Lua state with two copies of the xpio library, the first loaded    *)
(* twice, and the three native types: enough for an object of another load *)
(* of the same copy, of another copy and of another type, and for Lua code *)
(* storing one type's metatable in another type's xpio._T field.          *)
EXTENDS XLua

MCCopies == {"xpio1", "xpio2"}
MCLoads == <<"xpio1", "xpio1", "xpio2">>
MCTypes == {"XPProc", "XPQueue", "XPSocket"}
=============================================================================

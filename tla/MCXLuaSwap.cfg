\* Lua code assigns xpio._XPSocket = xpio._XPQueue before creating a socket:
\* the XPSocket-sized block carries the XPQueue metatable, and XLUA_CAST(XPQueue)
\* accepts it.
CONSTANTS
  Copies <- MCCopies
  Loads <- MCLoads
  Types <- MCTypes

SPECIFICATION XLuaSpec
INVARIANT CastAcceptsOnlyOwnType

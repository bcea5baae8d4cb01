---------------------------- MODULE MCDeviceMemory ----------------------------
(***************************************************************************)
(* A design of four scopes: the top module, two instances of core, and one  *)
(* of rom below the first.  Each array holds a variable of several modules; *)
(* there are an unpacked array, a wide variable and a noReset variable.     *)
(***************************************************************************)
EXTENDS DeviceMemory

CONSTANTS
  MemWidth,     \* the width of the elements of core.mem
  BusWidth,     \* the width of the port bus
  BusElements   \* the number of its elements, 0 if it is not an array

MCModules == {"top", "core", "rom"}
MCRank == [m \in MCModules |-> CASE m = "rom" -> 1 [] m = "core" -> 2 [] m = "top" -> 3]
MCScopes == {"TOP", "TOP.a", "TOP.b", "TOP.a.r"}
MCModuleOf == [s \in MCScopes |->
  CASE s = "TOP" -> "top" [] s = "TOP.a.r" -> "rom" [] OTHER -> "core"]
MCVars == {"clk", "bus", "acc", "mem", "pc", "clklast", "addr", "word"}
MCVarsOf == [m \in MCModules |->
  CASE m = "top" -> <<"clk", "bus">>
    [] m = "core" -> <<"acc", "mem", "clklast", "pc">>
    [] m = "rom" -> <<"addr", "word">>]
MCWidth == [v \in MCVars |->
  CASE v = "clk" -> 1 [] v = "bus" -> BusWidth [] v = "acc" -> 8
    [] v = "mem" -> MemWidth [] v = "pc" -> 40 [] v = "clklast" -> 1
    [] v = "addr" -> 12 [] v = "word" -> 32]
MCElements == [v \in MCVars |->
  CASE v = "mem" -> 2 [] v = "bus" -> BusElements [] OTHER -> 0]
MCPorts == {"clk", "bus"}
MCNoReset == {"clklast"}
=============================================================================

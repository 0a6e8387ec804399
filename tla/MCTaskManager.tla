--------------------------- MODULE MCTaskManager ---------------------------
(* Maps of which other code has left a few pages and numbers, so that      *)
(* calls fail at each allocation; the whole maps of the code; page tables  *)
(* over the first and the last gates and in the gap behind them, and the   *)
(* first page table that goes astray; data of tasks and descriptors up to  *)
(* the end of their tables and beyond; the pages at 4MB.  Dirt in either   *)
(* map and in the table that is to map nothing.                            *)
EXTENDS TaskManager

PAGE_4MB == MB4 \div 8
MCLimits ==
  {LOW_PAGES + left : left \in 0 .. 10} \X (0 .. 3)
    \cup {2052, 2304, 2306, 2561} \X {2}
    \cup {<<1030, 512>>, <<1030, 513>>, <<1034, MAP_BITS>>, <<2562, 2>>,
          <<16386, 1>>, <<PAGE_4MB, 1>>, <<PAGE_4MB + 1, 1>>,
          <<PAGE_4MB + 1024, 1>>, <<PAGE_4MB + 1025, 1>>, <<MAP_BITS, 1>>,
          <<MAP_BITS, 512>>, <<MAP_BITS, MAP_BITS>>}
MCOffset ==
  "default_ISR" :> \h100060 @@ "DE_ISR" :> \h100063 @@ "SS_ISR" :> \h100070
    @@ "GP_ISR" :> \h100076 @@ "PS2_ISR" :> \h10007C @@ "SERVER_ISR" :> \h100090
    @@ "VIDEO_ISR" :> \h1000A8 @@ "DEVICE_ISR" :> \h1000C0
MCDirt == {TEMP_PT_BASE, MEM_MAP_BASE, TASK_MAP_BASE}
=============================================================================

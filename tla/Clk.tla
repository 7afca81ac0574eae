-------------------------------- MODULE Clk ---------------------------------
(***************************************************************************)
(* clock_init: the stores to the clock controller, one step each, from any *)
(* of the settings the boot ROM may have left. Rates are in MHz.           *)
(***************************************************************************)
EXTENDS Integers, Sequences

VARIABLES
  ccm,    \* the fields of the clock controller that the rates depend on
  store   \* the next store of clock_init

clkVars == <<ccm, store>>

\* What the ROM may leave (external). AHB_PODF divides by 3 (clk.c:78).
RomSettings ==
  [pll1_sw : {0, 1}, step_sel : {0, 1}, arm_div : {66, 88}, arm_podf : {0, 1},
   pfd2 : {24, 27}, pre_periph : {0, 1}, periph : {0, 1}, ahb_podf : {2},
   ipg_podf : {0, 1, 3}, perclk_sel : {0, 1}, perclk_podf : {0, 1}, busy : {FALSE}]

\* Mutated form: PRE_PERIPH_CLK_SEL is cleared and not set.
StoresCleared ==
  << <<"step_sel", 0>>, <<"pll1_sw", 1>>, <<"arm_div", 66>>, <<"pll1_sw", 0>>, <<"arm_podf", 0>>,
     <<"pfd2", 24>>, <<"pre_periph", 0>>, <<"pre_periph", 0>>, <<"periph", 0>>,
     <<"ipg_podf", 0>>, <<"ipg_podf", 1>>, <<"perclk_sel", 0>>, <<"perclk_podf", 0>> >>

\* The stores in order. pll1_sw = 1 is step_clk, pre_periph = 1 is PLL2_PFD2,
\* periph = 0 is pre_periph_clk; a field is cleared before it is set.
Stores ==
  << <<"step_sel", 0>>, <<"pll1_sw", 1>>,
     <<"arm_div", 66>>, <<"pll1_sw", 0>>, <<"arm_podf", 0>>,
     <<"pfd2", 24>>,
     <<"pre_periph", 0>>, <<"pre_periph", 1>>,
     <<"periph", 0>>,
     <<"ipg_podf", 0>>, <<"ipg_podf", 1>>,
     <<"perclk_sel", 0>>, <<"perclk_podf", 0>> >>

\* Mutated form: the store after the change of PERIPH_CLK_SEL does not wait.
MayStoreAtOnce(k) == TRUE

\* The wait for the handshake comes after the store to PERIPH_CLK_SEL.
MayStore(k) == k = 10 => ~ccm.busy

\* A core that is on step_clk already skips the first two stores.
FirstStore == IF ccm.pll1_sw = 0 THEN 1 ELSE 3

ClkInit == ccm \in RomSettings /\ store = FirstStore

\* A store. Changing PERIPH_CLK_SEL starts a handshake.
Store ==
  /\ store <= Len(Stores) /\ MayStore(store)
  /\ ccm' = [ccm EXCEPT ![Stores[store][1]] = Stores[store][2],
                        !.busy = @ \/ (store = 9 /\ ccm.periph # 0)]
  /\ store' = store + 1

\* The hardware completes the handshake (external).
Handshake == ccm.busy /\ ccm' = [ccm EXCEPT !.busy = FALSE] /\ UNCHANGED store

-----------------------------------------------------------------------------
(* The rates the settings give (external): pll1_sw_clk / ARM_PODF, and the *)
(* tree below periph_clk.                                                  *)

Core == IF ccm.pll1_sw = 1 THEN 24 ELSE (12 * ccm.arm_div) \div (ccm.arm_podf + 1)
Periph ==
  CASE ccm.periph = 1 -> 24
    [] ccm.pre_periph = 0 -> 528
    [] OTHER -> (528 * 18) \div ccm.pfd2
Ahb == Periph \div (ccm.ahb_podf + 1)
Ipg == Ahb \div (ccm.ipg_podf + 1)
Perclk == (IF ccm.perclk_sel = 0 THEN Ipg ELSE 24) \div (ccm.perclk_podf + 1)

ClockDone == store > Len(Stores)

\* clock_init leaves the rates its comments promise (lines 16, 78 and 88) and
\* every driver counts on, whatever the ROM had set.
RatesRight == ClockDone => Core = 792 /\ Ahb = 132 /\ Ipg = 66 /\ Perclk = 66

SwitchesSafely ==
  /\ ccm'.arm_div # ccm.arm_div => ccm.pll1_sw = 1
  /\ ccm.busy => ccm'.ipg_podf = ccm.ipg_podf /\ ccm'.perclk_sel = ccm.perclk_sel

\* The PLL of the core is not changed under the core (lines 26 and 27), and
\* while the clock of the buses is being switched (line 73) nothing that hangs
\* from it is changed.
ClockSwitches == [][SwitchesSafely]_clkVars
=============================================================================

------------------------------- MODULE MCBringUp -------------------------------
(* Registers of eight bits, pages of 32. The machines: two whose adapter comes
   up, others on which pci_get_dev picks this or that child, and variants that each
   fail, or go wrong, in one place. *)
EXTENDS BringUp, TLC

Bar(kind, prefetchable, a, s) ==
  [kind |-> kind, prefetchable |-> prefetchable, addr |-> a, size |-> s]

Bars(assigned) ==
  [j \in BarNo |-> IF j \in DOMAIN assigned THEN assigned[j] ELSE Bar("none", FALSE, 0, 0)]
High == 1 :> Bar("high", FALSE, 0, 0)

(* A BAR larger than a register can size, with the table in it. *)
Large == [vbus |-> <<"other", "pci", "mlx">>, silent |-> {1},
          bars |-> Bars(0 :> Bar("mem64", TRUE, 1536, 512) @@ High),
          listed |-> TRUE, caps |-> <<"pm", "msix">>, loop |-> 0,
          table_size |-> 9, bir |-> 0,
          dma |-> TRUE, log_size |-> 5, log_stride |-> 6]

(* BARs smaller than a register and than a page, the table in the second; the list
   of capabilities goes round. *)
Small == [Large EXCEPT !.vbus = <<"mlx", "pci", "mlx">>, !.silent = {},
            !.bars = Bars(0 :> Bar("mem64", FALSE, 4672, 64) @@ High
                          @@ 2 :> Bar("mem32", TRUE, 48, 16)),
            !.caps = <<"msix", "pm">>, !.loop = 1, !.bir = 2]

(* Reads that fail in pci_get_dev, with devices that stop later. *)
Buses ==
  {[Small EXCEPT !.vbus = v, !.silent = s \cup {j \in 1..3 : v[j] = "other"},
                 !.listed = FALSE] :
     v \in {<<"mlx", "pci", "pci">>, <<"pci", "mlx", "other">>, <<"mlx", "other", "mlx">>},
     s \in SUBSET (1..3)}

(* I/O BARs, also of four bytes, a BAR behind them; the machine stops there. *)
IoBars ==
  {[Large EXCEPT !.bars = Bars(0 :> Bar("io", FALSE, a, s)
                               @@ 1 :> Bar("mem32", FALSE, 128, 64)),
                 !.listed = FALSE] : <<a, s>> \in {<<72, 8>>, <<72, 4>>, <<76, 4>>}}

(* Lists of capabilities, also what a device that is gone seems to have. *)
Lists ==
  {[Large EXCEPT !.caps = l[1], !.loop = l[2]] :
     l \in {<<<<>>, 0>>, <<<<"pm">>, 0>>, <<<<"pm", "vpd">>, 1>>, <<<<"ones">>, 1>>}}

Machines ==
  {Large, Small} \cup Buses \cup IoBars \cup Lists \cup
  {[Small EXCEPT !.vbus = <<"mlx", "pci">>, !.silent = {2},   \* not the adapter
                 !.bars = Bars(<<>>)],
   [Small EXCEPT !.bir = 1, !.dma = FALSE], [Small EXCEPT !.bir = 5],
   [Large EXCEPT !.bars = Bars(0 :> Bar("mem32", FALSE, 128, 64)), !.listed = FALSE],
   [Large EXCEPT !.table_size = 0], [Large EXCEPT !.table_size = 8],
   [Large EXCEPT !.dma = FALSE],
   [Large EXCEPT !.log_size = 6], [Large EXCEPT !.log_stride = 8]}

=============================================================================

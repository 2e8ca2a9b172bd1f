-------------------------- MODULE PrecomputedGains --------------------------
(***************************************************************************)
(* The matrices with which a layout is rendered to another                 *)
(* (precomputed_gains.cc). Of a matrix only the gains that are not 0 are   *)
(* told apart: it has, for every input channel, the set of the output      *)
(* channels that it is heard on. Matrices are by the key of the output     *)
(* layout; a layout has none to itself.                                    *)
(***************************************************************************)
EXTENDS Integers, Sequences, TLC

FromMono ==
     "0+2+0" :> <<{1, 2}>>
  @@ "0+5+0" :> <<{3}>>
  @@ "2+5+0" :> <<{3}>>
  @@ "4+5+0" :> <<{3}>>
  @@ "4+5+1" :> <<{3}>>
  @@ "3+7+0" :> <<{1}>>
  @@ "4+9+0" :> <<{3}>>
  @@ "9+10+3" :> <<{3}>>
  @@ "0+7+0" :> <<{3}>>
  @@ "4+7+0" :> <<{3}>>
  @@ "7.1.5.4" :> <<{3}>>
  @@ "3.1.2" :> <<{3}>>
  @@ "7.1.2" :> <<{3}>>
  @@ "9.1.6" :> <<{3}>>

FromStereo ==
     "0+1+0" :> <<{1}, {1}>>
  @@ "0+5+0" :> <<{1}, {2}>>
  @@ "2+5+0" :> <<{1}, {2}>>
  @@ "4+5+0" :> <<{1}, {2}>>
  @@ "4+5+1" :> <<{1}, {2}>>
  @@ "3+7+0" :> <<{2}, {3}>>
  @@ "4+9+0" :> <<{1}, {2}>>
  @@ "9+10+3" :> <<{7}, {8}>>
  @@ "0+7+0" :> <<{1}, {2}>>
  @@ "4+7+0" :> <<{1}, {2}>>
  @@ "7.1.5.4" :> <<{1}, {2}>>
  @@ "3.1.2" :> <<{1}, {2}>>
  @@ "7.1.2" :> <<{1}, {2}>>
  @@ "9.1.6" :> <<{7}, {8}>>

From5_1 ==
     "0+1+0" :> <<{1}, {1}, {1}, {}, {1}, {1}>>
  @@ "0+2+0" :> <<{1}, {2}, {1, 2}, {}, {1}, {2}>>
  @@ "2+5+0" :> <<{1}, {2}, {3}, {4}, {5}, {6}>>
  @@ "4+5+0" :> <<{1}, {2}, {3}, {4}, {5}, {6}>>
  @@ "4+5+1" :> <<{1}, {2}, {3}, {4}, {5}, {6}>>
  @@ "3+7+0" :> <<{2}, {3}, {1}, {11}, {8}, {9}>>
  @@ "4+9+0" :> <<{1}, {2}, {3}, {4}, {7}, {8}>>
  @@ "9+10+3" :> <<{7}, {8}, {3}, {4}, {5}, {6}>>
  @@ "0+7+0" :> <<{1}, {2}, {3}, {4}, {7}, {8}>>
  @@ "4+7+0" :> <<{1}, {2}, {3}, {4}, {7}, {8}>>
  @@ "7.1.5.4" :> <<{1}, {2}, {3}, {4}, {7}, {8}>>
  @@ "3.1.2" :> <<{1}, {2}, {3}, {4}, {1}, {2}>>
  @@ "7.1.2" :> <<{1}, {2}, {3}, {4}, {7}, {8}>>
  @@ "9.1.6" :> <<{7}, {8}, {3}, {4}, {5}, {6}>>

From5_1_2 ==
     "0+1+0" :> <<{1}, {1}, {1}, {}, {1}, {1}, {1}, {1}>>
  @@ "0+2+0" :> <<{1}, {2}, {1, 2}, {}, {1}, {2}, {1}, {2}>>
  @@ "0+5+0" :> <<{1}, {2}, {3}, {4}, {5}, {6}, {1}, {2}>>
  @@ "4+5+0" :> <<{1}, {2}, {3}, {4}, {5}, {6}, {7}, {8}>>
  @@ "4+5+1" :> <<{1}, {2}, {3}, {4}, {5}, {6}, {7}, {8}>>
  @@ "3+7+0" :> <<{2}, {3}, {1}, {11}, {8}, {9}, {4}, {5}>>
  @@ "4+9+0" :> <<{1}, {2}, {3}, {4}, {7}, {8}, {9}, {10}>>
  @@ "9+10+3" :> <<{7}, {8}, {3}, {4}, {5}, {6}, {13}, {14}>>
  @@ "0+7+0" :> <<{1}, {2}, {3}, {4}, {7}, {8}, {1}, {2}>>
  @@ "4+7+0" :> <<{1}, {2}, {3}, {4}, {7}, {8}, {9}, {10}>>
  @@ "7.1.5.4" :> <<{1}, {2}, {3}, {4}, {7}, {8}, {9}, {10}>>
  @@ "3.1.2" :> <<{1}, {2}, {3}, {4}, {1}, {2}, {5}, {6}>>
  @@ "7.1.2" :> <<{1}, {2}, {3}, {4}, {7}, {8}, {9}, {10}>>
  @@ "9.1.6" :> <<{7}, {8}, {3}, {4}, {5}, {6}, {11}, {12}>>

From5_1_4 ==
     "0+1+0" :> <<{1}, {1}, {1}, {}, {1}, {1}, {1}, {1}, {1}, {1}>>
  @@ "0+2+0" :> <<{1}, {2}, {1, 2}, {}, {1}, {2}, {1}, {2}, {1}, {2}>>
  @@ "0+5+0" :> <<{1}, {2}, {3}, {4}, {5}, {6}, {1}, {2}, {5}, {6}>>
  @@ "2+5+0" :> <<{1}, {2}, {3}, {4}, {5}, {6}, {7}, {8}, {5}, {6}>>
  @@ "4+5+1" :> <<{1}, {2}, {3}, {4}, {5}, {6}, {7}, {8}, {9}, {10}>>
  @@ "3+7+0" :> <<{2}, {3}, {1}, {11}, {8}, {9}, {4}, {5}, {4, 10}, {5, 10}>>
  @@ "4+9+0" :> <<{1}, {2}, {3}, {4}, {7}, {8}, {9}, {10}, {11}, {12}>>
  @@ "9+10+3" :> <<{7}, {8}, {3}, {4}, {5}, {6}, {13}, {14}, {17}, {18}>>
  @@ "0+7+0" :> <<{1}, {2}, {3}, {4}, {7}, {8}, {1}, {2}, {7}, {8}>>
  @@ "4+7+0" :> <<{1}, {2}, {3}, {4}, {7}, {8}, {9}, {10}, {11}, {12}>>
  @@ "7.1.5.4" :> <<{1}, {2}, {3}, {4}, {7}, {8}, {9}, {10}, {11}, {12}>>
  @@ "3.1.2" :> <<{1}, {2}, {3}, {4}, {1}, {2}, {5}, {6}, {5}, {6}>>
  @@ "7.1.2" :> <<{1}, {2}, {3}, {4}, {7}, {8}, {9}, {10}, {9}, {10}>>
  @@ "9.1.6" :> <<{7}, {8}, {3}, {4}, {5}, {6}, {11}, {12}, {13}, {14}>>

From7_1 ==
     "0+1+0" :> <<{1}, {1}, {1}, {}, {1}, {1}, {1}, {1}>>
  @@ "0+2+0" :> <<{1}, {2}, {1, 2}, {}, {1}, {2}, {1}, {2}>>
  @@ "0+5+0" :> <<{1}, {2}, {3}, {4}, {1, 5}, {2, 6}, {5}, {6}>>
  @@ "2+5+0" :> <<{1}, {2}, {3}, {4}, {1, 5}, {2, 6}, {5}, {6}>>
  @@ "4+5+0" :> <<{1}, {2}, {3}, {4}, {1, 5}, {2, 6}, {5}, {6}>>
  @@ "4+5+1" :> <<{1}, {2}, {3}, {4}, {1, 5}, {2, 6}, {5}, {6}>>
  @@ "3+7+0" :> <<{2}, {3}, {1}, {11}, {6}, {7}, {8}, {9}>>
  @@ "4+9+0" :> <<{1}, {2}, {3}, {4}, {5}, {6}, {7}, {8}>>
  @@ "9+10+3" :> <<{7}, {8}, {3}, {4}, {11}, {12}, {5}, {6}>>
  @@ "4+7+0" :> <<{1}, {2}, {3}, {4}, {5}, {6}, {7}, {8}>>
  @@ "7.1.5.4" :> <<{1}, {2}, {3}, {4}, {5}, {6}, {7}, {8}>>
  @@ "3.1.2" :> <<{1}, {2}, {3}, {4}, {1}, {2}, {1}, {2}>>
  @@ "7.1.2" :> <<{1}, {2}, {3}, {4}, {5}, {6}, {7}, {8}>>
  @@ "9.1.6" :> <<{7}, {8}, {3}, {4}, {9}, {10}, {5}, {6}>>

From7_1_4 ==
     "0+1+0" :> <<{1}, {1}, {1}, {}, {1}, {1}, {1}, {1}, {1}, {1}, {1}, {1}>>
  @@ "0+2+0" :> <<{1}, {2}, {1, 2}, {}, {1}, {2}, {1}, {2}, {1}, {2}, {1}, {2}>>
  @@ "0+5+0" :> <<{1}, {2}, {3}, {4}, {1, 5}, {2, 6}, {5}, {6}, {1}, {2}, {5}, {6}>>
  @@ "2+5+0" :> <<{1}, {2}, {3}, {4}, {1, 5}, {2, 6}, {5}, {6}, {7}, {8}, {5}, {6}>>
  @@ "4+5+0" :> <<{1}, {2}, {3}, {4}, {1, 5}, {2, 6}, {5}, {6}, {7}, {8}, {9}, {10}>>
  @@ "4+5+1" :> <<{1}, {2}, {3}, {4}, {1, 5}, {2, 6}, {5}, {6}, {7}, {8}, {9}, {10}>>
  @@ "3+7+0" :> <<{2}, {3}, {1}, {11}, {6}, {7}, {8}, {9}, {4}, {5}, {4, 10}, {5, 10}>>
  @@ "4+9+0" :> <<{1}, {2}, {3}, {4}, {5}, {6}, {7}, {8}, {9}, {10}, {11}, {12}>>
  @@ "9+10+3" :> <<{7}, {8}, {3}, {4}, {11}, {12}, {5}, {6}, {13}, {14}, {17}, {18}>>
  @@ "0+7+0" :> <<{1}, {2}, {3}, {4}, {5}, {6}, {7}, {8}, {1}, {2}, {7}, {8}>>
  @@ "7.1.5.4" :> <<{1}, {2}, {3}, {4}, {5}, {6}, {7}, {8}, {9}, {10}, {11}, {12}>>
  @@ "3.1.2" :> <<{1}, {2}, {3}, {4}, {1}, {2}, {1}, {2}, {5}, {6}, {5}, {6}>>
  @@ "7.1.2" :> <<{1}, {2}, {3}, {4}, {5}, {6}, {7}, {8}, {9}, {10}, {9}, {10}>>
  @@ "9.1.6" :> <<{7}, {8}, {3}, {4}, {9}, {10}, {5}, {6}, {11}, {12}, {13}, {14}>>

From3_1_2 ==
     "0+1+0" :> <<{1}, {1}, {1}, {}, {1}, {1}>>
  @@ "0+2+0" :> <<{1}, {2}, {1, 2}, {}, {1}, {2}>>
  @@ "0+5+0" :> <<{1}, {2}, {3}, {4}, {1}, {2}>>
  @@ "2+5+0" :> <<{1}, {2}, {3}, {4}, {7}, {8}>>
  @@ "4+5+0" :> <<{1}, {2}, {3}, {4}, {7}, {8}>>
  @@ "4+5+1" :> <<{1}, {2}, {3}, {4}, {7}, {8}>>
  @@ "3+7+0" :> <<{2}, {3}, {1}, {11}, {4}, {5}>>
  @@ "4+9+0" :> <<{1}, {2}, {3}, {4}, {9}, {10}>>
  @@ "9+10+3" :> <<{7}, {8}, {3}, {4}, {13}, {14}>>
  @@ "0+7+0" :> <<{1}, {2}, {3}, {4}, {1}, {2}>>
  @@ "4+7+0" :> <<{1}, {2}, {3}, {4}, {9}, {10}>>
  @@ "7.1.5.4" :> <<{1}, {2}, {3}, {4}, {9}, {10}>>
  @@ "7.1.2" :> <<{1}, {2}, {3}, {4}, {9}, {10}>>
  @@ "9.1.6" :> <<{7}, {8}, {3}, {4}, {11}, {12}>>

From7_1_2 ==
     "0+1+0" :> <<{1}, {1}, {1}, {}, {1}, {1}, {1}, {1}, {1}, {1}>>
  @@ "0+2+0" :> <<{1}, {2}, {1, 2}, {}, {1}, {2}, {1}, {2}, {1}, {2}>>
  @@ "0+5+0" :> <<{1}, {2}, {3}, {4}, {1, 5}, {2, 6}, {5}, {6}, {1}, {2}>>
  @@ "2+5+0" :> <<{1}, {2}, {3}, {4}, {1, 5}, {2, 6}, {5}, {6}, {7}, {8}>>
  @@ "4+5+0" :> <<{1}, {2}, {3}, {4}, {1, 5}, {2, 6}, {5}, {6}, {7}, {8}>>
  @@ "4+5+1" :> <<{1}, {2}, {3}, {4}, {1, 5}, {2, 6}, {5}, {6}, {7}, {8}>>
  @@ "3+7+0" :> <<{2}, {3}, {1}, {11}, {6}, {7}, {8}, {9}, {4}, {5}>>
  @@ "4+9+0" :> <<{1}, {2}, {3}, {4}, {5}, {6}, {7}, {8}, {9}, {10}>>
  @@ "9+10+3" :> <<{7}, {8}, {3}, {4}, {11}, {12}, {5}, {6}, {13}, {14}>>
  @@ "0+7+0" :> <<{1}, {2}, {3}, {4}, {5}, {6}, {7}, {8}, {1}, {2}>>
  @@ "4+7+0" :> <<{1}, {2}, {3}, {4}, {5}, {6}, {7}, {8}, {9}, {10}>>
  @@ "7.1.5.4" :> <<{1}, {2}, {3}, {4}, {5}, {6}, {7}, {8}, {9}, {10}>>
  @@ "3.1.2" :> <<{1}, {2}, {3}, {4}, {1}, {2}, {1}, {2}, {5}, {6}>>
  @@ "9.1.6" :> <<{7}, {8}, {3}, {4}, {9}, {10}, {5}, {6}, {11}, {12}>>

From9_1_6 ==
     "0+1+0" :> <<{1}, {1}, {1}, {}, {1}, {1}, {1}, {1}, {1}, {1}, {1}, {1}, {1}, {1}, {1}, {1}>>
  @@ "0+2+0" :> <<{1}, {2}, {1, 2}, {}, {1}, {2}, {1}, {2}, {1}, {2}, {1}, {2}, {1}, {2}, {1}, {2}>>
  @@ "0+5+0" :> <<{1, 5}, {2, 6}, {3}, {4}, {5}, {6}, {1}, {2}, {1, 5}, {2, 6}, {1}, {2}, {5}, {6},
                  {1, 5}, {2, 6}>>
  @@ "2+5+0" :> <<{1, 5}, {2, 6}, {3}, {4}, {5}, {6}, {1}, {2}, {1, 5}, {2, 6}, {7}, {8}, {5}, {6},
                  {5, 7}, {6, 8}>>
  @@ "4+5+0" :> <<{1, 5}, {2, 6}, {3}, {4}, {5}, {6}, {1}, {2}, {1, 5}, {2, 6}, {7}, {8}, {9}, {10},
                  {7, 9}, {8, 10}>>
  @@ "4+5+1" :> <<{1, 5}, {2, 6}, {3}, {4}, {5}, {6}, {1}, {2}, {1, 5}, {2, 6}, {7}, {8}, {9}, {10},
                  {7, 9}, {8, 10}>>
  @@ "3+7+0" :> <<{2, 6}, {3, 7}, {1}, {11}, {8}, {9}, {2}, {3}, {6}, {7}, {4}, {5}, {4, 10},
                  {5, 10}, {4, 10}, {5, 10}>>
  @@ "4+9+0" :> <<{1, 5}, {2, 6}, {3}, {4}, {7}, {8}, {1}, {2}, {5}, {6}, {9}, {10}, {11}, {12},
                  {9, 11}, {10, 12}>>
  @@ "9+10+3" :> <<{1}, {2}, {3}, {4}, {5}, {6}, {7}, {8}, {11}, {12}, {13}, {14}, {17}, {18}, {19},
                   {20}>>
  @@ "0+7+0" :> <<{1, 5}, {2, 6}, {3}, {4}, {7}, {8}, {1}, {2}, {5}, {6}, {1}, {2}, {7}, {8}, {5},
                  {6}>>
  @@ "4+7+0" :> <<{1, 5}, {2, 6}, {3}, {4}, {7}, {8}, {1}, {2}, {5}, {6}, {9}, {10}, {11}, {12},
                  {9, 11}, {10, 12}>>
  @@ "7.1.5.4" :> <<{1, 5}, {2, 6}, {3}, {4}, {7}, {8}, {1}, {2}, {5}, {6}, {9}, {10}, {11}, {12},
                    {9, 11}, {10, 12}>>
  @@ "3.1.2" :> <<{1}, {2}, {3}, {4}, {1}, {2}, {1}, {2}, {1}, {2}, {5}, {6}, {5}, {6}, {5}, {6}>>
  @@ "7.1.2" :> <<{1, 5}, {2, 6}, {3}, {4}, {7}, {8}, {1}, {2}, {5}, {6}, {9}, {10}, {9}, {10}, {9},
                  {10}>>

From10_2_9_3 ==
     "0+1+0" :> <<{1}, {1}, {1}, {}, {1}, {1}, {1}, {1}, {1}, {}, {1}, {1}, {1}, {1}, {1}, {1}, {1},
                  {1}, {1}, {1}, {1}, {1}, {1}, {1}>>
  @@ "0+2+0" :> <<{1}, {2}, {1, 2}, {}, {1}, {2}, {1}, {2}, {1, 2}, {}, {1}, {2}, {1}, {2}, {1, 2},
                  {1, 2}, {1}, {2}, {1}, {2}, {1, 2}, {1, 2}, {1}, {2}>>
  @@ "0+5+0" :> <<{1, 5}, {2, 6}, {3}, {4}, {5}, {6}, {1}, {2}, {5, 6}, {4}, {1, 5}, {2, 6}, {1},
                  {2}, {3}, {1, 2, 5, 6}, {5}, {6}, {1, 5}, {2, 6}, {5, 6}, {3}, {1}, {2}>>
  @@ "2+5+0" :> <<{1, 5}, {2, 6}, {3}, {4}, {5}, {6}, {1}, {2}, {5, 6}, {4}, {1, 5}, {2, 6}, {7},
                  {8}, {7, 8}, {5, 6, 7, 8}, {5}, {6}, {5, 7}, {6, 8}, {5, 6}, {3}, {1}, {2}>>
  @@ "4+5+0" :> <<{1, 5}, {2, 6}, {3}, {4}, {5}, {6}, {1}, {2}, {5, 6}, {4}, {1, 5}, {2, 6}, {7},
                  {8}, {7, 8}, {7, 8, 9, 10}, {9}, {10}, {7, 9}, {8, 10}, {9, 10}, {3}, {1}, {2}>>
  @@ "4+5+1" :> <<{1, 5}, {2, 6}, {3}, {4}, {5}, {6}, {1}, {2}, {5, 6}, {4}, {1, 5}, {2, 6}, {7},
                  {8}, {7, 8}, {7, 8, 9, 10}, {9}, {10}, {7, 9}, {8, 10}, {9, 10}, {11}, {1}, {2}>>
  @@ "3+7+0" :> <<{2, 6}, {3, 7}, {1}, {11}, {8}, {9}, {2}, {3}, {8, 9}, {12}, {6}, {7}, {4}, {5},
                  {4, 5}, {4, 5, 10}, {4, 10}, {5, 10}, {4, 10}, {5, 10}, {10}, {1}, {2}, {3}>>
  @@ "4+9+0" :> <<{1, 5}, {2, 6}, {3}, {4}, {7}, {8}, {1}, {2}, {7, 8}, {4}, {5}, {6}, {9}, {10},
                  {9, 10}, {9, 10, 11, 12}, {11}, {12}, {9, 11}, {10, 12}, {11, 12}, {3}, {1}, {2}>>
  @@ "0+7+0" :> <<{1, 5}, {2, 6}, {3}, {4}, {7}, {8}, {1}, {2}, {7, 8}, {4}, {5}, {6}, {1}, {2},
                  {3}, {1, 2, 7, 8}, {7}, {8}, {5}, {6}, {7, 8}, {3}, {1}, {2}>>
  @@ "4+7+0" :> <<{1, 5}, {2, 6}, {3}, {4}, {7}, {8}, {1}, {2}, {7, 8}, {4}, {5}, {6}, {9}, {10},
                  {9, 10}, {9, 10, 11, 12}, {11}, {12}, {9, 11}, {10, 12}, {11, 12}, {3}, {1}, {2}>>
  @@ "7.1.5.4" :> <<{1, 5}, {2, 6}, {3}, {4}, {7}, {8}, {1}, {2}, {7, 8}, {4}, {5}, {6}, {9}, {10},
                    {9, 10}, {13}, {11}, {12}, {9, 11}, {10, 12}, {11, 12}, {3}, {15}, {14}>>
  @@ "3.1.2" :> <<{1}, {2}, {3}, {4}, {1}, {2}, {1}, {2}, {1, 2}, {4}, {1}, {2}, {5}, {6}, {5, 6},
                  {5, 6}, {5}, {6}, {5}, {6}, {5, 6}, {3}, {1}, {2}>>
  @@ "7.1.2" :> <<{1, 5}, {2, 6}, {3}, {4}, {7}, {8}, {1}, {2}, {7, 8}, {4}, {5}, {6}, {9}, {10},
                  {9, 10}, {9, 10}, {9}, {10}, {9}, {10}, {9, 10}, {3}, {1}, {2}>>
  @@ "9.1.6" :> <<{1}, {2}, {3}, {4}, {5}, {6}, {7}, {8}, {5, 6}, {4}, {9}, {10}, {11}, {12},
                  {7, 8}, {11, 12, 13, 14}, {13}, {14}, {15}, {16}, {13, 14}, {3}, {7}, {8}>>

From7_1_5_4 ==
     "0+1+0" :> <<{1}, {1}, {1}, {}, {1}, {1}, {1}, {1}, {1}, {1}, {1}, {1}, {1}, {1}, {1}, {1},
                  {1}>>
  @@ "0+2+0" :> <<{1}, {2}, {1, 2}, {}, {1, 2}, {1, 2}, {1, 2}, {1, 2}, {1, 2}, {1, 2}, {1, 2},
                  {1, 2}, {1, 2}, {1, 2}, {1, 2}, {1, 2}, {1, 2}>>
  @@ "0+5+0" :> <<{1}, {2}, {3}, {4}, {3}, {3}, {3}, {3}, {3}, {3}, {3}, {3}, {3}, {3}, {3}, {3},
                  {3}>>
  @@ "2+5+0" :> <<{1}, {2}, {3}, {4}, {3}, {3}, {3}, {3}, {3}, {3}, {3}, {3}, {3}, {3}, {3}, {3},
                  {3}>>
  @@ "4+5+0" :> <<{1}, {2}, {3}, {4}, {3}, {3}, {3}, {3}, {3}, {3}, {3}, {3}, {3}, {3}, {3}, {3},
                  {3}>>
  @@ "4+5+1" :> <<{1}, {2}, {3}, {4}, {3}, {3}, {3}, {3}, {3}, {3}, {3}, {3}, {3}, {3}, {3}, {3},
                  {3}>>
  @@ "3+7+0" :> <<{2}, {3}, {1}, {11}, {6}, {7}, {8}, {9}, {4}, {5}, {1}, {1}, {1}, {1}, {1}, {1},
                  {1}>>
  @@ "4+9+0" :> <<{1}, {2}, {3}, {4}, {5}, {6}, {7}, {8}, {9}, {10}, {11}, {12}, {3}, {3}, {3}, {3},
                  {3}>>
  @@ "9+10+3" :> <<{7}, {8}, {3}, {4}, {11}, {12}, {5}, {6}, {13}, {14}, {17}, {18}, {16}, {23},
                   {24}, {3}, {3}>>
  @@ "0+7+0" :> <<{1}, {2}, {3}, {4}, {5}, {6}, {7}, {8}, {3}, {3}, {3}, {3}, {3}, {3}, {3}, {3},
                  {3}>>
  @@ "4+7+0" :> <<{1}, {2}, {3}, {4}, {5}, {6}, {7}, {8}, {9}, {10}, {11}, {12}, {3}, {3}, {3}, {3},
                  {3}>>
  @@ "3.1.2" :> <<{1}, {2}, {3}, {4}, {3}, {3}, {3}, {3}, {3}, {3}, {3}, {3}, {3}, {3}, {3}, {3},
                  {3}>>
  @@ "7.1.2" :> <<{1}, {2}, {3}, {4}, {5}, {6}, {7}, {8}, {9}, {10}, {9}, {10}, {3}, {3}, {3}, {3},
                  {3}>>
  @@ "9.1.6" :> <<{7}, {8}, {3}, {4}, {9}, {10}, {5}, {6}, {11}, {12}, {13}, {14}, {11, 12, 13, 14},
                  {7}, {8}, {3}, {3}>>
(* Ambisonics: every channel is heard on every loudspeaker, that is on all *)
(* channels that are not for low frequencies.                              *)
NumberOfChannels ==
     "0+1+0" :> 1 @@ "0+2+0" :> 2 @@ "0+5+0" :> 6 @@ "2+5+0" :> 8 @@ "4+5+0" :> 10
  @@ "4+5+1" :> 11 @@ "3+7+0" :> 12 @@ "4+9+0" :> 14 @@ "9+10+3" :> 24 @@ "0+7+0" :> 8
  @@ "4+7+0" :> 12 @@ "7.1.5.4" :> 17 @@ "3.1.2" :> 6 @@ "7.1.2" :> 10 @@ "9.1.6" :> 16

LowFrequencyChannels(output) ==
  CASE output \in {"0+1+0", "0+2+0"} -> {}
    [] output = "3+7+0" -> {11, 12}
    [] output = "9+10+3" -> {4, 10}
    [] OTHER -> {4}

Spherical(channels) ==
  [output \in DOMAIN NumberOfChannels |->
     [c \in 1..channels |-> 1..NumberOfChannels[output] \ LowFrequencyChannels(output)]]

A0 == Spherical(1)
A1 == Spherical(4)
A2 == Spherical(9)
A3 == Spherical(16)
A4 == Spherical(25)

InitPrecomputedGains ==
     "0+1+0" :> FromMono @@ "0+2+0" :> FromStereo @@ "0+5+0" :> From5_1
  @@ "2+5+0" :> From5_1_2 @@ "4+5+0" :> From5_1_4 @@ "0+7+0" :> From7_1
  @@ "4+7+0" :> From7_1_4 @@ "3.1.2" :> From3_1_2 @@ "7.1.2" :> From7_1_2
  @@ "9.1.6" :> From9_1_6 @@ "9+10+3" :> From10_2_9_3 @@ "7.1.5.4" :> From7_1_5_4
  @@ "A0" :> A0 @@ "A1" :> A1 @@ "A2" :> A2 @@ "A3" :> A3 @@ "A4" :> A4

(* LookupPrecomputedGains: << >> if there are none.                        *)
LookupPrecomputedGains(input, output) ==
  IF input \in DOMAIN InitPrecomputedGains
     /\ output \in DOMAIN InitPrecomputedGains[input]
  THEN InitPrecomputedGains[input][output] ELSE <<>>
=============================================================================

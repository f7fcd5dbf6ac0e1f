-------------------------- MODULE MCStandaloneSend --------------------------
(* Every configuration of one limit and one switch-over size.              *)
EXTENDS StandaloneSend

MCSizes == 1..3

MCConfigs ==
    [maxSize: {2}, switchOver: {1}, groupChat: BOOLEAN, standalone: BOOLEAN,
     chatbotTech: 0..3]
=============================================================================

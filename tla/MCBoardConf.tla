----------------------------- MODULE MCBoardConf -----------------------------
(* Instances of BoardConf: pins of the UART, one with PWM, two that serve  *)
(* both I2C and ADC.                                                       *)
EXTENDS BoardConf, TLC

MCBus == 18 :> {"I2C_SDA", "ADC_4"} @@ 19 :> {"I2C_SCL", "ADC_5"}
MCUart == 0 :> {"UART_RX"} @@ 1 :> {"UART_TX"} @@ 2 :> {"UART_CTS"} @@ 3 :> {"UART_RTS"}
MCPins == MCUart @@ MCBus
MCFew == MCBus @@ 4 :> {"PWM_4"}
=============================================================================

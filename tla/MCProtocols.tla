---------------------------- MODULE MCProtocols -----------------------------
(***************************************************************************)
(* Small instances of the two file transfer protocols, over a network that *)
(* loses, repeats and delays.  scenario, chosen in the initial state, says *)
(* which instance a behaviour exercises.                                   *)
(***************************************************************************)
EXTENDS Ymodem, TftpClient

VARIABLES
    scenario,
    loss_opcode, loss_client, loss_file, loss_server, loss_net, loss_faults,
    clean_sender, clean_receiver, to_receiver, to_sender, clean_buf, clean_accepted, clean_faults

loss_vars  == <<loss_opcode, loss_client, loss_file, loss_server, loss_net, loss_faults>>
clean_vars == <<clean_sender, clean_receiver, to_receiver, to_sender, clean_buf, clean_accepted,
                clean_faults>>

\* TFTP: with the constants of the run, a file of three blocks, with a disk that
\* fails, one packet lost, one repeated and one timeout too early; and more blocks
\* than block numbers, with as many packets lost as MAX_TRIES makes up for.
Loss == INSTANCE TftpClient WITH
            FullBlocks <- 4, Rest <- TRUE, MaxTries <- 5, BlockMod <- 2,
            Disk <- {"ok"}, TIDs <- {"t1", "t2", "t3", "t4"},
            NetLoss <- 3, NetDup <- 0, NetEarly <- 0,
            opcode <- loss_opcode, client <- loss_client, file <- loss_file,
            server <- loss_server, net <- loss_net, net_faults <- loss_faults

\* Ymodem: with the constants of the run, a noisy line whose broken packets leave
\* bytes that look like nothing; a clean line, with more blocks than block numbers;
\* and a line that breaks a packet with bytes of every kind.
Clean == INSTANCE Ymodem WITH
            NBlocks <- 4, NumberMod <- 2, Bytes <- {}, Breaks <- {},
            MaxSendErrors <- 10, MAX_ERRORS <- 5, MaxLoss <- 0, MaxGarble <- 0, MaxFlip <- 0,
            MaxBroken <- 0, RestBytes <- 0, MaxEarly <- 2,
            sender <- clean_sender, receiver <- clean_receiver,
            toReceiver <- to_receiver, toSender <- to_sender,
            buf <- clean_buf, accepted <- clean_accepted, faults <- clean_faults
Broken == INSTANCE Ymodem WITH
            NBlocks <- 2, NumberMod <- 256,
            Bytes <- {"other", "EOT", "ABORT", "CA", "header"}, Breaks <- {"start", "later"},
            MaxSendErrors <- 3, MAX_ERRORS <- 2, MaxLoss <- 0, MaxGarble <- 0, MaxFlip <- 0,
            MaxBroken <- 2, RestBytes <- 2, MaxEarly <- 0,
            sender <- clean_sender, receiver <- clean_receiver,
            toReceiver <- to_receiver, toSender <- to_sender,
            buf <- clean_buf, accepted <- clean_accepted, faults <- clean_faults

ASSUME InstanceAssumption ==
    /\ TftpAssumption /\ FewerBlocksThanNumbers /\ Loss!TftpAssumption
    /\ Clean!YmodemAssumption /\ Broken!YmodemAssumption /\ YmodemAssumption

MCInit ==
    /\ scenario \in {"tftp", "loss", "clean", "broken", "noisy"}
    /\ TftpInit /\ (scenario # "tftp" => opcode = "RRQ")
    /\ Loss!TftpInit /\ (scenario # "loss" => loss_opcode = "RRQ")
    /\ Clean!Init /\ Init

MCNext ==
    /\ UNCHANGED scenario
    /\ \/ scenario = "tftp" /\ TftpNext /\ UNCHANGED <<loss_vars, clean_vars, vars>>
       \/ scenario = "loss" /\ Loss!TftpNext /\ UNCHANGED <<tftp_vars, clean_vars, vars>>
       \/ scenario = "clean" /\ Clean!Next /\ UNCHANGED <<tftp_vars, loss_vars, vars>>
       \/ scenario = "broken" /\ Broken!Next /\ UNCHANGED <<tftp_vars, loss_vars, vars>>
       \/ scenario = "noisy" /\ Next /\ UNCHANGED <<tftp_vars, loss_vars, clean_vars>>

\* The fairness of TftpClient and Ymodem: the programs run, timeouts fire, the
\* network delivers or drops what it carries.
MCFairness ==
    /\ WF_tftp_vars(scenario = "tftp" /\ SendPacket)
    /\ WF_tftp_vars(scenario = "tftp" /\ RecvPacket)
    /\ WF_tftp_vars(scenario = "tftp" /\ RecvTimeout)
    /\ WF_tftp_vars(scenario = "tftp" /\ (Serve \/ Ignore))
    /\ WF_loss_vars(scenario = "loss" /\ Loss!SendPacket)
    /\ WF_loss_vars(scenario = "loss" /\ Loss!RecvPacket)
    /\ WF_loss_vars(scenario = "loss" /\ Loss!RecvTimeout)
    /\ WF_loss_vars(scenario = "loss" /\ (Loss!Serve \/ Loss!Ignore))
    /\ WF_clean_vars(scenario = "clean" /\ Clean!SenderStep)
    /\ WF_clean_vars(scenario = "clean" /\ Clean!ReceiverStep)

MCSpec == MCInit /\ [][MCNext]_<<scenario, tftp_vars, loss_vars, clean_vars, vars>> /\ MCFairness

-----------------------------------------------------------------------------
\* TftpClient: start_client returns or exits, whatever is lost, and the transfer
\* succeeds while MAX_TRIES makes up for the losses.  Ymodem: on a clean line
\* Ymodem_Transmit returns and the file gets across, although every answer is
\* read for a later packet than it was sent for.  With more blocks than block
\* numbers, too, what is read is the beginning of the file and success is true.
TransfersEnd ==
    /\ <>(scenario = "tftp" => TransferEnded)
    /\ <>(scenario = "loss" => Loss!TransferSucceeded)
    /\ <>(scenario = "clean" => Clean!Succeeded)
    /\ [](scenario = "loss" => Loss!TftpTypeOK /\ Loss!ReadIsPrefix /\ Loss!WrittenIsComplete)
    /\ [](scenario = "clean" => Clean!ReceivedIsPrefix /\ Clean!SuccessIsComplete)
    /\ [](scenario = "broken" => Broken!ReceivedIsPrefix /\ Broken!SuccessIsComplete)
=============================================================================
